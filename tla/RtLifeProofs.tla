---------------------------- MODULE RtLifeProofs ----------------------------
(***************************************************************************)
(* RtLife: the reference counters are exact, nothing that is in use is     *)
(* given back, no memory of the allocators is lost, and exit codes are     *)
(* seen, for every number of cores, threads, stacks and references.        *)
(***************************************************************************)
EXTENDS RtLife, ChSchedProofs, FiniteSetTheorems

-----------------------------------------------------------------------------
(* The parts of the invariant, as predicates of the values they relate      *)

\* The cores whose running thread is waking those that wait for its exit.
Busy(kk, o) == {c \in Cores : o[kk.current[c]].op = "exit"}

\* A thread inside a call is alive; who waits for an exit is in chThdSync()
\* or chThdWait() and keeps the reference it was called with.
OpsOK(kk, o, h) ==
    \A t \in Threads :
        /\ o[t] # NoOp => kk.state[t] \notin {"FINAL", "WTSTART"}
        /\ kk.state[t] = "WTEXIT" => o[t].op \in {"sync", "wait"}
        /\ o[t].op \in {"sync", "wait"} => o[t].tp \in h[t]

\* A terminated thread owns no reference and nobody waits for it.
FinalOK(kk, h, cu, qu) ==
    \A t \in Threads :
        kk.state[t] = "FINAL" => h[t] = {} /\ cu[t] = NoThread /\ qu[t] = <<>>

\* The thread inside chThdExitS() runs, owns nothing, has stored its exit code
\* and is alone inside the lock.
ExitOK(kk, o, h, cu) ==
    \A t \in Threads :
        o[t].op = "exit" =>
            /\ h[t] = {} /\ cu[t] = NoThread
            /\ kk.rdymsg[t] = "EXIT"
            /\ kk.current[Owner[t]] = t /\ InThread(kk, Owner[t])
            /\ \A c \in Cores \ {Owner[t]} : o[kk.current[c]].op \notin {"sync", "wait", "exit"}

\* The threads that have been woken find an exit code.
CodesOK(kk, o) ==
    \A t \in Threads :
        (o[t].op \in {"sync", "wait"} /\ kk.state[t] # "WTEXIT")
            => /\ kk.rdymsg[o[t].tp] = "EXIT"
               /\ \/ kk.state[o[t].tp] = "FINAL"
                  \/ o[o[t].tp].op = "exit" /\ kk.state[t] = "READY"

Release(tp) == [op |-> "release", tp |-> tp]

\* The owners of the references to tp.
HeldBy(h, tp) == {t \in Threads : tp \in h[t]}
ScannedBy(cu, tp) == {t \in Threads : cu[t] = tp}
ReleasedBy(o, tp) == {t \in Threads : o[t] = Release(tp)}

\* The reference of the main thread and those of the idle threads are nobody's.
Base(tp) == IF tp \in UserThreads \ {Main} THEN 0 ELSE 1

Counted(rf, h, cu, o) ==
    \A tp \in Threads :
        rf[tp] = Cardinality(HeldBy(h, tp)) + Cardinality(ScannedBy(cu, tp))
                   + Cardinality(ReleasedBy(o, tp)) + Base(tp)

\* A thread that is not registered is dead and nobody can refer to it.
RegistryOK(kk, rf, reg) ==
    /\ NoDuplicates(reg)
    /\ \A tp \in Threads \ ToSet(reg) : rf[tp] = 0 /\ kk.state[tp] = "FINAL"

\* Who creates or disposes of tp.
Handles(x, tp) == x.tp = tp /\ x.op \in {"create", "spawn", "spawned", "dispose", "freeobj"}
Handlers(o, tp) == {t \in Threads : Handles(o[t], tp)}

One(p) == IF p THEN 1 ELSE 0

MemoryOK(reg, mf, o) ==
    \A tp \in Dynamic :
        Cardinality(Handlers(o, tp)) + One(tp \in mf) + One(tp \in ToSet(reg)) = 1

\* Only threads in memory of an allocator have a callback, and they have it
\* from their creation to their disposal.
DisposeOK(reg, d, o) ==
    /\ \A tp \in Threads : d[tp] # "none" => tp \in Dynamic
    /\ \A tp \in Dynamic \intersect ToSet(reg) : d[tp] # "none"
    /\ \A t \in Threads :
          /\ o[t].op = "dispose" /\ o[t].tp \in Dynamic => d[o[t].tp] # "none"
          /\ o[t].op \in {"create", "spawn", "spawned", "freeobj"} => o[t].tp \in Dynamic

\* Where the stacks of the second allocator are.
InUse(reg, d) == {tp \in Dynamic : tp \in ToSet(reg) /\ d[tp] = "spawnfree"}
Given(o) == {t \in Threads : o[t].op = "spawned"}
Returning(o, d) == {t \in Threads : o[t].op = "dispose" /\ d[o[t].tp] = "spawnfree"}

StacksOK(reg, d, o, st) ==
    st = Stacks - Cardinality(InUse(reg, d)) - Cardinality(Given(o)) - Cardinality(Returning(o, d))

\* What each thread waits for.
Waited(o) == [t \in Threads |-> o[t].tp]

KernelPart(kk, qu, o, h, cu) ==
    /\ Sound(kk, Busy(kk, o)) /\ Pending(kk) = {} /\ kk.prio = Prio
    /\ QueuesExact(kk, qu, Waited(o), Threads, "WTEXIT", FALSE)
    /\ OpsOK(kk, o, h)
    /\ FinalOK(kk, h, cu, qu)
    /\ ExitOK(kk, o, h, cu)
    /\ CodesOK(kk, o)

BookPart(kk, rf, reg, d, mf, st, o, h, cu) ==
    /\ Counted(rf, h, cu, o)
    /\ RegistryOK(kk, rf, reg)
    /\ MemoryOK(reg, mf, o)
    /\ DisposeOK(reg, d, o)
    /\ StacksOK(reg, d, o, st)

IInv ==
    /\ TypeOK
    /\ KernelPart(k, waiting, op, held, cursor)
    /\ BookPart(k, refs, registry, dispose, memfree, stacks, op, held, cursor)

-----------------------------------------------------------------------------
(* Counting: sets of threads that differ in one thread at most              *)

LEMMA FiniteThreads ==
    ASSUME NEW S \in SUBSET Threads
    PROVE  IsFiniteSet(S) /\ Cardinality(S) \in Nat
<1>1. IsFiniteSet(S)
  BY KernelAssumption, FS_Subset
<1> QED BY <1>1, FS_CardinalityType

LEMMA CardinalityMove ==
    ASSUME NEW S \in SUBSET Threads, NEW T \in SUBSET Threads, NEW x, S \ {x} = T \ {x}
    PROVE  Cardinality(T) = Cardinality(S) + One(x \in T) - One(x \in S)
<1>1. /\ IsFiniteSet(S) /\ Cardinality(S) \in Nat
      /\ IsFiniteSet(T) /\ Cardinality(T) \in Nat
  BY FiniteThreads
<1>2. Cardinality(S \ {x}) = IF x \in S THEN Cardinality(S) - 1 ELSE Cardinality(S)
  BY <1>1, FS_RemoveElement
<1>3. Cardinality(T \ {x}) = IF x \in T THEN Cardinality(T) - 1 ELSE Cardinality(T)
  BY <1>1, FS_RemoveElement
<1> QED BY <1>1, <1>2, <1>3 DEF One

LEMMA CardinalityPositive ==
    ASSUME NEW S \in SUBSET Threads, NEW x \in S
    PROVE  Cardinality(S) >= 1
<1>1. IsFiniteSet(S) /\ Cardinality(S) \in Nat
  BY FiniteThreads
<1>2. Cardinality(S) # 0
  BY <1>1, FS_EmptySet
<1> QED BY <1>1, <1>2

\* The counts of a state, as naturals.
LEMMA CountTypes ==
    ASSUME NEW h, NEW cu, NEW o, NEW d, NEW reg, NEW tp
    PROVE  /\ Cardinality(HeldBy(h, tp)) \in Nat /\ Cardinality(ScannedBy(cu, tp)) \in Nat
           /\ Cardinality(ReleasedBy(o, tp)) \in Nat /\ Cardinality(Handlers(o, tp)) \in Nat
           /\ Cardinality(InUse(reg, d)) \in Nat /\ Cardinality(Given(o)) \in Nat
           /\ Cardinality(Returning(o, d)) \in Nat
<1>1. /\ HeldBy(h, tp) \in SUBSET Threads /\ ScannedBy(cu, tp) \in SUBSET Threads
      /\ ReleasedBy(o, tp) \in SUBSET Threads /\ Handlers(o, tp) \in SUBSET Threads
      /\ Given(o) \in SUBSET Threads /\ Returning(o, d) \in SUBSET Threads
  BY DEF HeldBy, ScannedBy, ReleasedBy, Handlers, Given, Returning
<1>2. InUse(reg, d) \in SUBSET Threads
  BY LifeAssumption DEF InUse, UserThreads
<1> QED BY <1>1, <1>2, FiniteThreads

\* The number of threads that hold q, after t was given tp or lost it.
HeldMoved(h, g, t, tp, q) ==
    Cardinality(HeldBy(g, q))
        = Cardinality(HeldBy(h, q))
            + (IF q = tp THEN One(tp \in g[t]) - One(tp \in h[t]) ELSE 0)

LEMMA HeldMove ==
    ASSUME NEW h \in [Threads -> SUBSET Threads], NEW g \in [Threads -> SUBSET Threads],
           NEW t \in Threads, NEW tp, \A u \in Threads \ {t} : g[u] = h[u],
           g[t] \ {tp} = h[t] \ {tp}, NEW q \in Threads
    PROVE  HeldMoved(h, g, t, tp, q)
<1>1. HeldBy(h, q) \in SUBSET Threads /\ HeldBy(g, q) \in SUBSET Threads
  BY DEF HeldBy
<1>2. CASE q = tp
  <2>1. HeldBy(h, q) \ {t} = HeldBy(g, q) \ {t}
    BY DEF HeldBy
  <2>2. Cardinality(HeldBy(g, q))
            = Cardinality(HeldBy(h, q)) + One(t \in HeldBy(g, q)) - One(t \in HeldBy(h, q))
    BY <1>1, <2>1, CardinalityMove
  <2>3. (t \in HeldBy(g, q) <=> tp \in g[t]) /\ (t \in HeldBy(h, q) <=> tp \in h[t])
    BY <1>2 DEF HeldBy
  <2>4. Cardinality(HeldBy(h, q)) \in Nat /\ Cardinality(HeldBy(g, q)) \in Nat
    BY CountTypes
  <2> QED BY <1>2, <2>2, <2>3, <2>4 DEF One, HeldMoved
<1>3. CASE q # tp
  <2>1. HeldBy(h, q) = HeldBy(g, q)
    BY <1>3 DEF HeldBy
  <2>2. Cardinality(HeldBy(h, q)) \in Nat
    BY CountTypes
  <2> QED BY <1>3, <2>1, <2>2 DEF HeldMoved
<1> QED BY <1>2, <1>3

\* The number of scans at q, after that of t has moved.
CursorMoved(cu, cv, t, q) ==
    Cardinality(ScannedBy(cv, q))
        = Cardinality(ScannedBy(cu, q)) + One(q = cv[t]) - One(q = cu[t])

LEMMA CursorMove ==
    ASSUME NEW t \in Threads, NEW cu, NEW cv, \A u \in Threads \ {t} : cv[u] = cu[u],
           NEW q \in Threads
    PROVE  CursorMoved(cu, cv, t, q)
<1>0. \A u \in Threads \ {t} : cv[u] = cu[u]
  OBVIOUS
<1>1. ScannedBy(cu, q) \in SUBSET Threads /\ ScannedBy(cv, q) \in SUBSET Threads
  BY DEF ScannedBy
<1>2. ScannedBy(cu, q) \ {t} = ScannedBy(cv, q) \ {t}
  BY <1>0 DEF ScannedBy
<1>3. Cardinality(ScannedBy(cv, q))
          = Cardinality(ScannedBy(cu, q)) + One(t \in ScannedBy(cv, q)) - One(t \in ScannedBy(cu, q))
  BY <1>1, <1>2, CardinalityMove
<1>4. (t \in ScannedBy(cv, q) <=> q = cv[t]) /\ (t \in ScannedBy(cu, q) <=> q = cu[t])
  BY <1>0 DEF ScannedBy
<1> QED BY <1>3, <1>4 DEF One, CursorMoved

\* The number of calls about to release q, after t has gone on.
ReleasedMoved(o, p, t, q) ==
    Cardinality(ReleasedBy(p, q))
        = Cardinality(ReleasedBy(o, q)) + One(p[t] = Release(q)) - One(o[t] = Release(q))

LEMMA ReleasedMove ==
    ASSUME NEW t \in Threads, NEW o, NEW p, \A u \in Threads \ {t} : p[u] = o[u], NEW q \in Threads
    PROVE  ReleasedMoved(o, p, t, q)
<1>1. ReleasedBy(o, q) \in SUBSET Threads /\ ReleasedBy(p, q) \in SUBSET Threads
  BY DEF ReleasedBy
<1>2. ReleasedBy(o, q) \ {t} = ReleasedBy(p, q) \ {t}
  BY DEF ReleasedBy
<1>3. Cardinality(ReleasedBy(p, q))
          = Cardinality(ReleasedBy(o, q)) + One(t \in ReleasedBy(p, q)) - One(t \in ReleasedBy(o, q))
  BY <1>1, <1>2, CardinalityMove
<1>4. (t \in ReleasedBy(p, q) <=> p[t] = Release(q)) /\ (t \in ReleasedBy(o, q) <=> o[t] = Release(q))
  BY DEF ReleasedBy
<1> QED BY <1>3, <1>4 DEF One, ReleasedMoved

\* The number of threads that create or dispose of q, after t has gone on.
HandlersMoved(o, p, t, q) ==
    Cardinality(Handlers(p, q))
        = Cardinality(Handlers(o, q)) + One(Handles(p[t], q)) - One(Handles(o[t], q))

LEMMA HandlersMove ==
    ASSUME NEW t \in Threads, NEW o, NEW p, \A u \in Threads \ {t} : p[u] = o[u], NEW q \in Threads
    PROVE  HandlersMoved(o, p, t, q)
<1>1. Handlers(o, q) \in SUBSET Threads /\ Handlers(p, q) \in SUBSET Threads
  BY DEF Handlers
<1>2. Handlers(o, q) \ {t} = Handlers(p, q) \ {t}
  BY DEF Handlers
<1>3. Cardinality(Handlers(p, q))
          = Cardinality(Handlers(o, q)) + One(t \in Handlers(p, q)) - One(t \in Handlers(o, q))
  BY <1>1, <1>2, CardinalityMove
<1>4. (t \in Handlers(p, q) <=> Handles(p[t], q)) /\ (t \in Handlers(o, q) <=> Handles(o[t], q))
  BY DEF Handlers
<1> QED BY <1>3, <1>4 DEF One, HandlersMoved

\* The number of stacks in the hands of a spawn, after t has gone on.
GivenMoved(o, p, t) ==
    Cardinality(Given(p))
        = Cardinality(Given(o)) + One(p[t].op = "spawned") - One(o[t].op = "spawned")

LEMMA GivenMove ==
    ASSUME NEW t \in Threads, NEW o, NEW p, \A u \in Threads \ {t} : p[u] = o[u]
    PROVE  GivenMoved(o, p, t)
<1>1. Given(o) \in SUBSET Threads /\ Given(p) \in SUBSET Threads
  BY DEF Given
<1>2. Given(o) \ {t} = Given(p) \ {t}
  BY DEF Given
<1>3. Cardinality(Given(p))
          = Cardinality(Given(o)) + One(t \in Given(p)) - One(t \in Given(o))
  BY <1>1, <1>2, CardinalityMove
<1>4. (t \in Given(p) <=> p[t].op = "spawned") /\ (t \in Given(o) <=> o[t].op = "spawned")
  BY DEF Given
<1> QED BY <1>3, <1>4 DEF One, GivenMoved

-----------------------------------------------------------------------------
(* The kernel part, when the running thread goes on                         *)

Calls == Ops \union {NoOp}
Holds == [Threads -> SUBSET Threads]
Scans == [Threads -> Threads \union {NoThread}]

\* Outside chThdExitS() no thread is in it.
LEMMA NobodyExits ==
    ASSUME NEW kk, NEW o, NEW h, NEW cu, ExitOK(kk, o, h, cu),
           \/ \A c \in Cores : o[kk.current[c]].op # "exit"
           \/ \E c \in Cores : o[kk.current[c]].op \in {"sync", "wait"}
    PROVE  (\A u \in Threads : o[u].op # "exit")
<1> SUFFICES ASSUME NEW u \in Threads, o[u].op = "exit" PROVE FALSE
  OBVIOUS
<1>1. /\ kk.current[Owner[u]] = u
      /\ \A c \in Cores \ {Owner[u]} : o[kk.current[c]].op \notin {"sync", "wait", "exit"}
  BY DEF ExitOK
<1>2. Owner[u] \in Cores
  BY KernelAssumption
<1> QED BY <1>1, <1>2

LEMMA NobodyBusy ==
    ASSUME NEW kk, NEW X, Sound(kk, X), NEW o, \A u \in Threads : o[u].op # "exit"
    PROVE  Busy(kk, o) = {}
BY SoundFacts DEF Busy

\* The queues do not depend on what threads that do not wait were doing.
LEMMA QuietQueues ==
    ASSUME NEW kk, NEW qu, NEW o, NEW p, NEW t, kk.state[t] # "WTEXIT",
           \A u \in Threads \ {t} : p[u] = o[u],
           QueuesExact(kk, qu, Waited(o), Threads, "WTEXIT", FALSE)
    PROVE  QueuesExact(kk, qu, Waited(p), Threads, "WTEXIT", FALSE)
<1>1. \A u \in Threads : Waited(p)[u] = p[u].tp /\ Waited(o)[u] = o[u].tp
  BY DEF Waited
<1>2. DOMAIN Waited(p) = Threads
  BY DEF Waited
<1>3. ASSUME NEW s \in Threads
      PROVE  {u \in Threads : kk.state[u] = "WTEXIT" /\ Waited(p)[u] = s}
                 = {u \in Threads : kk.state[u] = "WTEXIT" /\ Waited(o)[u] = s}
  BY <1>1
<1> QED BY <1>2, <1>3 DEF QueuesExact

\* The running thread t goes on to another call; it may give and take
\* references, and other living threads may have been given some.
GoesOn(kk, o, p, h, g, cu, cv, t) ==
    /\ o \in [Threads -> Calls] /\ h \in Holds /\ g \in Holds
    /\ t \in Threads /\ kk.state[t] = "CURRENT" /\ \A u \in Threads : o[u].op # "exit"
    /\ p[t].op \notin {"sync", "wait", "exit"} /\ \A u \in Threads \ {t} : p[u] = o[u]
    /\ \A u \in Threads \ {t} : h[u] \subseteq g[u]
    /\ \A u \in Threads : kk.state[u] = "FINAL" => g[u] = h[u]
    /\ \A u \in Threads \ {t} : cv[u] = cu[u]

LEMMA QuietParts ==
    ASSUME NEW kk, NEW qu, NEW o, NEW h, NEW cu, KernelPart(kk, qu, o, h, cu),
           NEW p, NEW g, NEW cv, NEW t \in Threads, GoesOn(kk, o, p, h, g, cu, cv, t)
    PROVE  KernelPart(kk, qu, p, g, cv)
<1>1. /\ o \in [Threads -> Calls] /\ h \in Holds /\ g \in Holds
      /\ t \in Threads /\ kk.state[t] = "CURRENT" /\ \A u \in Threads : o[u].op # "exit"
      /\ p[t].op \notin {"sync", "wait", "exit"} /\ \A u \in Threads \ {t} : p[u] = o[u]
      /\ \A u \in Threads \ {t} : h[u] \subseteq g[u]
      /\ \A u \in Threads : kk.state[u] = "FINAL" => g[u] = h[u]
      /\ \A u \in Threads \ {t} : cv[u] = cu[u]
  BY DEF GoesOn
<1>2. \A u \in Threads : p[u].op # "exit"
  BY <1>1
<1>3. Sound(kk, Busy(kk, o))
  BY DEF KernelPart
<1>4. Busy(kk, o) = {} /\ Busy(kk, p) = {}
  BY <1>1, <1>2, <1>3, NobodyBusy
<1>5. QueuesExact(kk, qu, Waited(p), Threads, "WTEXIT", FALSE)
  <2>1. kk.state[t] # "WTEXIT" /\ QueuesExact(kk, qu, Waited(o), Threads, "WTEXIT", FALSE)
    BY <1>1 DEF KernelPart
  <2> QED BY <1>1, <2>1, QuietQueues
<1>6. OpsOK(kk, p, g)
  BY <1>1 DEF OpsOK, KernelPart
<1>7. FinalOK(kk, g, cv, qu)
  <2>1. kk.state[t] # "FINAL"
    BY <1>1
  <2> QED BY <1>1, <2>1 DEF FinalOK, KernelPart
<1>8. ExitOK(kk, p, g, cv)
  BY <1>2 DEF ExitOK
<1>9. CodesOK(kk, p)
  <2>1. CodesOK(kk, o)
    BY DEF KernelPart
  <2>2. ASSUME NEW u \in Threads, p[u].op \in {"sync", "wait"}, kk.state[u] # "WTEXIT"
        PROVE  /\ kk.rdymsg[p[u].tp] = "EXIT"
               /\ \/ kk.state[p[u].tp] = "FINAL"
                  \/ p[p[u].tp].op = "exit" /\ kk.state[u] = "READY"
    <3>1. u # t /\ p[u] = o[u]
      BY <1>1, <2>2
    <3>2. /\ kk.rdymsg[o[u].tp] = "EXIT"
          /\ \/ kk.state[o[u].tp] = "FINAL"
             \/ o[o[u].tp].op = "exit" /\ kk.state[u] = "READY"
      BY <2>1, <2>2, <3>1 DEF CodesOK
    <3>3. o[u].tp \in Threads
      <4>1. o[u].tp \in h[u]
        BY <2>2, <3>1 DEF KernelPart, OpsOK
      <4> QED BY <1>1, <4>1 DEF Holds
    <3> QED BY <1>1, <3>1, <3>2, <3>3
  <2> QED BY <2>2 DEF CodesOK
<1> QED BY <1>3, <1>4, <1>5, <1>6, <1>7, <1>8, <1>9 DEF KernelPart

\* Who owns a reference keeps the thread registered.
LEMMA OwnedCounts ==
    ASSUME NEW rf, NEW h, NEW cu, NEW o, Counted(rf, h, cu, o),
           NEW t \in Threads, NEW tp \in Threads,
           tp \in h[t] \/ cu[t] = tp \/ o[t] = Release(tp)
    PROVE  rf[tp] >= 1 + Base(tp) /\ rf[tp] >= 1
<1>1. /\ Cardinality(HeldBy(h, tp)) \in Nat /\ Cardinality(ScannedBy(cu, tp)) \in Nat
      /\ Cardinality(ReleasedBy(o, tp)) \in Nat
  BY CountTypes
<1>2. \/ Cardinality(HeldBy(h, tp)) >= 1 \/ Cardinality(ScannedBy(cu, tp)) >= 1
      \/ Cardinality(ReleasedBy(o, tp)) >= 1
  <2>1. /\ HeldBy(h, tp) \in SUBSET Threads /\ ScannedBy(cu, tp) \in SUBSET Threads
        /\ ReleasedBy(o, tp) \in SUBSET Threads
    BY DEF HeldBy, ScannedBy, ReleasedBy
  <2>2. t \in HeldBy(h, tp) \/ t \in ScannedBy(cu, tp) \/ t \in ReleasedBy(o, tp)
    BY DEF HeldBy, ScannedBy, ReleasedBy
  <2> QED BY <2>1, <2>2, CardinalityPositive
<1>3. Base(tp) \in {0, 1}
  BY DEF Base
<1>4. rf[tp] = Cardinality(HeldBy(h, tp)) + Cardinality(ScannedBy(cu, tp))
                 + Cardinality(ReleasedBy(o, tp)) + Base(tp)
  BY DEF Counted
<1> QED BY <1>1, <1>2, <1>3, <1>4

LEMMA OwnedRegistered ==
    ASSUME NEW kk, NEW rf, NEW h, NEW cu, NEW o, Counted(rf, h, cu, o),
           NEW reg, RegistryOK(kk, rf, reg),
           NEW t \in Threads, NEW tp \in Threads,
           tp \in h[t] \/ cu[t] = tp \/ o[t] = Release(tp)
    PROVE  tp \in ToSet(reg)
<1>1. rf[tp] >= 1
  BY OwnedCounts
<1> QED BY <1>1 DEF RegistryOK

-----------------------------------------------------------------------------
(* The kernel part, when threads begin or stop waiting                      *)

\* Who has been woken waited for a thread that has ended, or is in its exit.
Finds(kk, o, u) ==
    /\ o[u].tp \in Threads /\ kk.rdymsg[o[u].tp] = "EXIT"
    /\ \/ kk.state[o[u].tp] = "FINAL"
       \/ o[o[u].tp].op = "exit" /\ kk.state[u] = "READY"

LEMMA WokenFinds ==
    ASSUME NEW kk, NEW qu, NEW o, NEW h \in Holds, NEW cu, KernelPart(kk, qu, o, h, cu),
           NEW u \in Threads, o[u].op \in {"sync", "wait"}, kk.state[u] # "WTEXIT"
    PROVE  Finds(kk, o, u)
<1>1. o[u].tp \in h[u]
  BY DEF KernelPart, OpsOK
<1>2. o[u].tp \in Threads
  BY <1>1 DEF Holds
<1> QED BY <1>2 DEF KernelPart, CodesOK, Finds

\* No thread begins or stops waiting.
LEMMA StillParts ==
    ASSUME NEW kk, NEW qu, NEW o, NEW h \in Holds, NEW cu, KernelPart(kk, qu, o, h, cu),
           \A u \in Threads : o[u].op # "exit",
           NEW r, Sound(r, {}), Still(kk, r)
    PROVE  KernelPart(r, qu, o, h, cu)
<1>1. Others(kk, r, {}) /\ r.rdymsg = kk.rdymsg /\ Pending(r) \subseteq Pending(kk)
  BY DEF Still
<1>2. \A u \in Threads :
         \/ r.state[u] = kk.state[u]
         \/ kk.state[u] \in {"READY", "CURRENT"} /\ r.state[u] \in {"READY", "CURRENT"}
  BY <1>1 DEF Others
<1>3. Sound(r, Busy(r, o))
  BY NobodyBusy
<1>4. Pending(r) = {} /\ r.prio = Prio
  BY <1>1 DEF KernelPart, Others
<1>5. QueuesExact(r, qu, Waited(o), Threads, "WTEXIT", FALSE)
  <2>1. QueuesExact(kk, qu, Waited(o), Threads, "WTEXIT", FALSE)
    BY DEF KernelPart
  <2> QED BY <1>1, <2>1, QueueSame
<1>6. OpsOK(r, o, h)
  BY <1>2 DEF KernelPart, OpsOK
<1>7. FinalOK(r, h, cu, qu)
  BY <1>2 DEF KernelPart, FinalOK
<1>8. ExitOK(r, o, h, cu)
  BY DEF ExitOK
<1>9. CodesOK(r, o)
  <2>1. ASSUME NEW u \in Threads, o[u].op \in {"sync", "wait"}, r.state[u] # "WTEXIT"
        PROVE  r.rdymsg[o[u].tp] = "EXIT" /\ r.state[o[u].tp] = "FINAL"
    <3>1. kk.state[u] # "WTEXIT"
      BY <1>2, <2>1
    <3>2. o[u].tp \in Threads /\ kk.rdymsg[o[u].tp] = "EXIT" /\ kk.state[o[u].tp] = "FINAL"
      BY <2>1, <3>1, WokenFinds DEF Finds
    <3> QED BY <1>1, <1>2, <3>2
  <2> QED BY <2>1 DEF CodesOK
<1> QED BY <1>3, <1>4, <1>5, <1>6, <1>7, <1>8, <1>9 DEF KernelPart

\* A new thread is started.
LEMMA StartParts ==
    ASSUME NEW kk, NEW qu, NEW o, NEW h \in Holds, NEW cu, KernelPart(kk, qu, o, h, cu),
           \A u \in Threads : o[u].op # "exit",
           NEW t \in Threads, kk.state[t] = "WTSTART",
           NEW r, Sound(r, {}), Roused(kk, r, t, "OK")
    PROVE  KernelPart(r, qu, o, h, cu)
<1>1. /\ Others(kk, r, {t}) /\ r.state[t] \in {"READY", "CURRENT"}
      /\ r.rdymsg = [kk.rdymsg EXCEPT ![t] = "OK"] /\ Pending(r) \subseteq Pending(kk)
  BY DEF Roused, Woken
<1>2. \A u \in Threads \ {t} :
         \/ r.state[u] = kk.state[u]
         \/ kk.state[u] \in {"READY", "CURRENT"} /\ r.state[u] \in {"READY", "CURRENT"}
  BY <1>1 DEF Others
<1>3. Sound(r, Busy(r, o))
  BY NobodyBusy
<1>4. Pending(r) = {} /\ r.prio = Prio
  BY <1>1 DEF KernelPart, Others
<1>5. QueuesExact(r, qu, Waited(o), Threads, "WTEXIT", FALSE)
  <2>1. QueuesExact(kk, qu, Waited(o), Threads, "WTEXIT", FALSE)
    BY DEF KernelPart
  <2>2. \A u \in Threads \intersect {t} : kk.state[u] # "WTEXIT" /\ r.state[u] # "WTEXIT"
    BY <1>1
  <2> QED BY <1>1, <2>1, <2>2, QueueSame
<1>6. OpsOK(r, o, h)
  BY <1>1, <1>2 DEF KernelPart, OpsOK
<1>7. FinalOK(r, h, cu, qu)
  BY <1>1, <1>2 DEF KernelPart, FinalOK
<1>8. ExitOK(r, o, h, cu)
  BY DEF ExitOK
<1>9. CodesOK(r, o)
  <2>1. ASSUME NEW u \in Threads, o[u].op \in {"sync", "wait"}, r.state[u] # "WTEXIT"
        PROVE  r.rdymsg[o[u].tp] = "EXIT" /\ r.state[o[u].tp] = "FINAL"
    <3>1. kk.state[u] # "WTEXIT"
      BY <1>2, <2>1
    <3>2. o[u].tp \in Threads /\ kk.rdymsg[o[u].tp] = "EXIT" /\ kk.state[o[u].tp] = "FINAL"
      BY <2>1, <3>1, WokenFinds DEF Finds
    <3>3. r.rdymsg[o[u].tp] = kk.rdymsg[o[u].tp] /\ o[u].tp # t
      BY <1>1, <3>2
    <3> QED BY <1>2, <3>2, <3>3
  <2> QED BY <2>1 DEF CodesOK
<1> QED BY <1>3, <1>4, <1>5, <1>6, <1>7, <1>8, <1>9 DEF KernelPart

\* A thread is created in the memory of one that has ended, which nobody can
\* be waiting for.
Newborn(kk, t, m) ==
    [kk EXCEPT !.state[t] = "WTSTART", !.prio[t] = Prio[t], !.ticks[t] = Quantum, !.rdymsg[t] = m]

LEMMA NewbornSound ==
    ASSUME NEW kk, Sound(kk, {}), Pending(kk) = {}, kk.prio = Prio, NEW t \in Threads,
           kk.state[t] = "FINAL", NEW m \in Messages, NEW r, r = Newborn(kk, t, m)
    PROVE  /\ Sound(r, {}) /\ Pending(r) = {} /\ r.prio = Prio
           /\ r.state = [kk.state EXCEPT ![t] = "WTSTART"]
           /\ r.rdymsg = [kk.rdymsg EXCEPT ![t] = m]
           /\ r.isr = kk.isr /\ r.current = kk.current
<1>1. kk \in KernelType
  BY SoundFacts
<1>2. /\ r \in KernelType
      /\ r.current = kk.current /\ r.ready = kk.ready /\ r.armed = kk.armed
      /\ r.firing = kk.firing /\ r.isr = kk.isr /\ r.notified = kk.notified
      /\ r.state = [kk.state EXCEPT ![t] = "WTSTART"]
      /\ r.rdymsg = [kk.rdymsg EXCEPT ![t] = m]
      /\ r.prio = [kk.prio EXCEPT ![t] = Prio[t]]
  <2>1. Quantum \in 0 .. Quantum /\ "WTSTART" \in States /\ Prio[t] \in Prios
    BY KernelAssumption, LifeAssumption DEF States
  <2> QED BY <1>1, <2>1 DEF Newborn, KernelType
<1>3. r.prio = Prio
  BY <1>2, LifeAssumption
<1>4. kk.armed = {} /\ \A c \in Cores : kk.firing[c] = NoThread
  <2>1. kk.armed \subseteq Threads /\ \A c \in Cores : kk.firing[c] \in Threads \union {NoThread}
    BY <1>1 DEF KernelType
  <2> QED BY <2>1 DEF Pending
<1>5. Pending(r) = {}
  BY <1>2, <1>4, KernelAssumption DEF Pending
<1>6. \A u \in Threads : r.state[u] = IF u = t THEN "WTSTART" ELSE kk.state[u]
  BY <1>1, <1>2 DEF KernelType
<1>7. KInv(kk) /\ OrderedBut(kk, {})
  BY DEF Sound
<1>8. KInv(r)
  <2>1. ASSUME NEW c \in Cores
        PROVE  ToSet(r.ready[c]) = {u \in Threads \ {} : r.state[u] = "READY" /\ Owner[u] = c}
    <3>1. ToSet(kk.ready[c]) = {u \in Threads \ {} : kk.state[u] = "READY" /\ Owner[u] = c}
      BY <1>7 DEF KInv, KInvX
    <3>2. \A u \in Threads : r.state[u] = "READY" <=> kk.state[u] = "READY"
      BY <1>6
    <3> QED BY <1>2, <3>1, <3>2
  <2>2. \A c \in Cores : NoDuplicates(r.ready[c]) /\ SortedByPrio(r.ready[c], r.prio)
    BY <1>2, <1>3, <1>7 DEF KInv, KInvX
  <2>3. \A c \in Cores :
          /\ Owner[r.current[c]] = c
          /\ r.state[r.current[c]] = "CURRENT"
    <3>1. \A c \in Cores : kk.current[c] \in Threads
      BY <1>1 DEF KernelType
    <3> QED BY <1>2, <1>6, <1>7, <3>1 DEF KInv, KInvX
  <2>4. \A u \in Threads : r.state[u] = "CURRENT" => r.current[Owner[u]] = u
    BY <1>2, <1>6, <1>7 DEF KInv, KInvX
  <2>5. \A c \in Cores : r.state[Idle[c]] \in {"READY", "CURRENT"}
    <3>1. \A c \in Cores : Idle[c] \in Threads
      BY KernelAssumption
    <3> QED BY <1>6, <1>7, <3>1 DEF KInv, KInvX
  <2>6. r \in KernelType /\ r.armed = {} /\ \A c \in Cores : r.firing[c] = NoThread
    BY <1>2, <1>4
  <2>7. /\ \A u \in r.armed \ {} : r.state[u] \in TimedStates
        /\ \A c \in Cores :
              r.firing[c] # NoThread =>
                  /\ Owner[r.firing[c]] = c /\ c \in r.isr
                  /\ r.firing[c] \notin {} => r.state[r.firing[c]] \in TimedStates
    BY <2>6
  <2>8. \A u \in Threads \ {} : r.state[u] = "CURRENT" => r.current[Owner[u]] = u
    BY <2>4
  <2>9. KInvX(r, {})
    BY <2>1, <2>2, <2>3, <2>5, <2>6, <2>7, <2>8 DEF KInvX
  <2> QED BY <2>9 DEF KInv
<1>9. OrderedBut(r, {})
  <2>1. \A c \in Cores : kk.current[c] \in Threads
    BY <1>1 DEF KernelType
  <2> QED BY <1>2, <1>3, <1>6, <1>7, <2>1 DEF OrderedBut, Ordered
<1> QED BY <1>2, <1>3, <1>5, <1>8, <1>9 DEF Sound

LEMMA NewbornParts ==
    ASSUME NEW kk, NEW qu, NEW o, NEW h \in Holds, NEW cu, KernelPart(kk, qu, o, h, cu),
           \A u \in Threads : o[u].op # "exit",
           NEW t \in Threads, kk.state[t] = "FINAL",
           \A u \in Threads : t \notin h[u], NEW m \in Messages, NEW r, r = Newborn(kk, t, m)
    PROVE  KernelPart(r, qu, o, h, cu)
<1>0. Sound(kk, {}) /\ Pending(kk) = {} /\ kk.prio = Prio
  <2>1. Sound(kk, Busy(kk, o)) /\ Pending(kk) = {} /\ kk.prio = Prio
    BY DEF KernelPart
  <2> QED BY <2>1, NobodyBusy
<1>1. /\ Sound(r, {}) /\ Pending(r) = {} /\ r.prio = Prio
      /\ r.state = [kk.state EXCEPT ![t] = "WTSTART"]
      /\ r.rdymsg = [kk.rdymsg EXCEPT ![t] = m]
  BY <1>0, NewbornSound
<1>2. kk.state \in [Threads -> States] /\ kk.rdymsg \in [Threads -> Messages]
  BY <1>0, SoundFacts
<1>3. \A u \in Threads : r.state[u] = IF u = t THEN "WTSTART" ELSE kk.state[u]
  BY <1>1, <1>2
<1>4. Sound(r, Busy(r, o))
  BY <1>1, NobodyBusy
<1>5. QueuesExact(r, qu, Waited(o), Threads, "WTEXIT", FALSE)
  <2>1. QueuesExact(kk, qu, Waited(o), Threads, "WTEXIT", FALSE)
    BY DEF KernelPart
  <2>2. Others(kk, r, {t})
    BY <1>0, <1>1, <1>3 DEF Others
  <2>3. \A u \in Threads \intersect {t} : kk.state[u] # "WTEXIT" /\ r.state[u] # "WTEXIT"
    BY <1>3
  <2> QED BY <2>1, <2>2, <2>3, QueueSame
<1>6. OpsOK(r, o, h)
  BY <1>3 DEF KernelPart, OpsOK
<1>7. FinalOK(r, h, cu, qu)
  BY <1>3 DEF KernelPart, FinalOK
<1>8. ExitOK(r, o, h, cu)
  BY DEF ExitOK
<1>9. CodesOK(r, o)
  <2>1. ASSUME NEW u \in Threads, o[u].op \in {"sync", "wait"}, r.state[u] # "WTEXIT"
        PROVE  r.rdymsg[o[u].tp] = "EXIT" /\ r.state[o[u].tp] = "FINAL"
    <3>1. kk.state[u] # "WTEXIT"
      BY <1>3, <2>1
    <3>2. o[u].tp \in Threads /\ kk.rdymsg[o[u].tp] = "EXIT" /\ kk.state[o[u].tp] = "FINAL"
      BY <2>1, <3>1, WokenFinds DEF Finds
    <3>3. o[u].tp # t
      BY <2>1 DEF KernelPart, OpsOK
    <3> QED BY <1>1, <1>2, <1>3, <3>2, <3>3
  <2> QED BY <2>1 DEF CodesOK
<1> QED BY <1>1, <1>4, <1>5, <1>6, <1>7, <1>8, <1>9 DEF KernelPart

\* A thread in front of a list it was not in.
LEMMA PushFront ==
    ASSUME NEW kk, NEW q \in Seq(Threads), NoDuplicates(q), NEW t \in Threads, t \notin ToSet(q)
    PROVE  QueueMore(kk, q, <<t>> \o q, t, FALSE)
<1> DEFINE r == <<t>> \o q
<1>1. /\ r \in Seq(Threads) /\ Len(q) \in Nat /\ Len(r) = Len(q) + 1
      /\ DOMAIN q = 1 .. Len(q) /\ DOMAIN r = 1 .. Len(q) + 1
  OBVIOUS
<1>2. \A j \in 1 .. Len(q) + 1 : r[j] = IF j = 1 THEN t ELSE q[j - 1]
  OBVIOUS
<1> HIDE DEF r
<1>3. ToSet(r) = ToSet(q) \union {t}
  <2>1. \A j \in 1 .. Len(q) : j + 1 \in 1 .. Len(q) + 1 /\ r[j + 1] = q[j]
    BY <1>1, <1>2
  <2>2. 1 \in 1 .. Len(q) + 1 /\ r[1] = t
    BY <1>1, <1>2
  <2>3. ToSet(q) \union {t} \subseteq ToSet(r)
    BY <1>1, <2>1, <2>2 DEF ToSet
  <2>4. \A j \in 1 .. Len(q) + 1 : r[j] \in ToSet(q) \union {t}
    BY <1>1, <1>2 DEF ToSet
  <2> QED BY <1>1, <2>3, <2>4 DEF ToSet
<1>4. NoDuplicates(r)
  <2>1. \A i, j \in 1 .. Len(q) : i < j => q[i] # q[j]
    BY DEF NoDuplicates, IsSorted
  <2>2. ASSUME NEW i \in 1 .. Len(q) + 1, NEW j \in 1 .. Len(q) + 1, i < j
        PROVE  r[i] # r[j]
    <3>1. r[j] = q[j - 1] /\ j - 1 \in 1 .. Len(q)
      BY <1>1, <1>2, <2>2
    <3>2. CASE i = 1
      <4>1. q[j - 1] \in ToSet(q)
        BY <1>1, <3>1 DEF ToSet
      <4> QED BY <1>2, <3>1, <3>2, <4>1
    <3>3. CASE i # 1
      <4>1. r[i] = q[i - 1] /\ i - 1 \in 1 .. Len(q) /\ i - 1 < j - 1
        BY <1>1, <1>2, <2>2, <3>3
      <4> QED BY <2>1, <3>1, <4>1
    <3> QED BY <3>2, <3>3
  <2> QED BY <1>1, <2>2 DEF NoDuplicates, IsSorted
<1>5. r \in Seq(Threads)
  BY <1>1
<1> QED BY <1>3, <1>4, <1>5 DEF QueueMore, r

\* The others that have been woken, when t goes to sleep.
LEMMA SleepCodes ==
    ASSUME NEW kk, NEW qu, NEW o, NEW h \in Holds, NEW cu,
           KernelPart(kk, qu, o, h, cu), \A u \in Threads : o[u].op # "exit",
           NEW t \in Threads, kk.state[t] = "CURRENT",
           NEW r, Asleep(kk, r, t, "WTEXIT"), r.rdymsg = kk.rdymsg,
           NEW p, \A u \in Threads \ {t} : p[u] = o[u]
    PROVE  CodesOK(r, p)
<1>0. /\ r.state[t] = "WTEXIT"
      /\ \A u \in Threads \ {t} :
            \/ r.state[u] = kk.state[u]
            \/ kk.state[u] \in {"READY", "CURRENT"} /\ r.state[u] \in {"READY", "CURRENT"}
  BY DEF Asleep, Others
<1>1. ASSUME NEW u \in Threads, p[u].op \in {"sync", "wait"}, r.state[u] # "WTEXIT"
      PROVE  r.rdymsg[p[u].tp] = "EXIT" /\ r.state[p[u].tp] = "FINAL"
  <2>1. u # t /\ kk.state[u] # "WTEXIT" /\ p[u] = o[u]
    BY <1>0, <1>1
  <2>2. o[u].tp \in Threads /\ kk.rdymsg[o[u].tp] = "EXIT" /\ kk.state[o[u].tp] = "FINAL"
    <3>1. o[u].op \in {"sync", "wait"} /\ kk.state[u] # "WTEXIT"
      BY <1>1, <2>1
    <3> QED BY <3>1, WokenFinds DEF Finds
  <2> QED BY <1>0, <2>1, <2>2
<1> QED BY <1>1 DEF CodesOK

\* The running thread t waits for the exit of tp, to which it owns a reference.
LEMMA SleepParts ==
    ASSUME NEW kk, NEW qu, NEW o \in [Threads -> Calls], NEW h \in Holds, NEW cu,
           KernelPart(kk, qu, o, h, cu), \A u \in Threads : o[u].op # "exit",
           NEW t \in Threads, kk.state[t] = "CURRENT", NEW tp, tp \in h[t], tp # t,
           kk.state[tp] # "FINAL",
           NEW w \in {"sync", "wait"}, NEW p, p[t] = [op |-> w, tp |-> tp],
           \A u \in Threads \ {t} : p[u] = o[u],
           NEW qv, qv = [qu EXCEPT ![tp] = <<t>> \o @],
           NEW r, Sound(r, {}), Rested(kk, r, t, "WTEXIT"), Untimed(kk, r)
    PROVE  KernelPart(r, qv, p, h, cu)
<1>1. /\ Others(kk, r, {t}) /\ r.state[t] = "WTEXIT"
      /\ r.rdymsg = kk.rdymsg /\ Pending(r) \subseteq Pending(kk) /\ Asleep(kk, r, t, "WTEXIT")
  BY DEF Rested, Asleep, Untimed
<1>2. \A u \in Threads \ {t} :
         \/ r.state[u] = kk.state[u]
         \/ kk.state[u] \in {"READY", "CURRENT"} /\ r.state[u] \in {"READY", "CURRENT"}
  BY <1>1 DEF Others
<1>3. p[t] = [op |-> w, tp |-> tp] /\ \A u \in Threads \ {t} : p[u] = o[u]
  OBVIOUS
<1>4. \A u \in Threads : p[u].op # "exit"
  BY <1>3
<1>13. Asleep(kk, r, t, "WTEXIT") /\ r.rdymsg = kk.rdymsg
  BY <1>1
<1>5. Sound(r, Busy(r, p))
  BY <1>4, NobodyBusy
<1>6. Pending(r) = {} /\ r.prio = Prio
  BY <1>1 DEF KernelPart, Others
<1>7. tp \in Threads
  BY DEF Holds
<1>8. QueuesExact(r, qv, Waited(p), Threads, "WTEXIT", FALSE)
  <2>1. QueuesExact(kk, qu, Waited(o), Threads, "WTEXIT", FALSE)
    BY DEF KernelPart
  <2>2. qu[tp] \in Seq(Threads) /\ NoDuplicates(qu[tp]) /\ t \notin ToSet(qu[tp])
    BY <1>7, <2>1 DEF QueuesExact
  <2>3. QueueMore(kk, qu[tp], <<t>> \o qu[tp], t, FALSE)
    BY <2>2, PushFront
  <2>4. PICK q : q = <<t>> \o qu[tp]
    OBVIOUS
  <2>5. QueueMore(kk, qu[tp], q, t, FALSE)
    BY <2>3, <2>4
  <2>6. QueuesExact(r, [qu EXCEPT ![tp] = q], [Waited(o) EXCEPT ![t] = tp], Threads, "WTEXIT", FALSE)
    BY <1>1, <1>7, <2>1, <2>5, QueueIn
  <2>7. [Waited(o) EXCEPT ![t] = tp] = Waited(p)
    <3>1. \A u \in Threads : p[u].tp = IF u = t THEN tp ELSE o[u].tp
      BY <1>3
    <3> QED BY <3>1 DEF Waited
  <2> QED BY <2>4, <2>6, <2>7
<1>9. OpsOK(r, p, h)
  BY <1>1, <1>2, <1>3 DEF KernelPart, OpsOK
<1>10. FinalOK(r, h, cu, qv)
  <2>1. ASSUME NEW u \in Threads, r.state[u] = "FINAL"
        PROVE  h[u] = {} /\ cu[u] = NoThread /\ qv[u] = <<>>
    <3>1. u # t /\ kk.state[u] = "FINAL"
      BY <1>1, <1>2, <2>1
    <3>2. h[u] = {} /\ cu[u] = NoThread /\ qu[u] = <<>>
      BY <3>1 DEF KernelPart, FinalOK
    <3>3. u # tp /\ DOMAIN qu = Threads
      BY <3>1 DEF KernelPart, QueuesExact
    <3> QED BY <3>2, <3>3
  <2> QED BY <2>1 DEF FinalOK
<1>11. ExitOK(r, p, h, cu)
  BY <1>4 DEF ExitOK
<1>12. CodesOK(r, p)
  BY <1>13, SleepCodes
<1> QED BY <1>5, <1>6, <1>8, <1>9, <1>10, <1>11, <1>12 DEF KernelPart

\* The running thread t begins to exit.
LEMMA ExitStartParts ==
    ASSUME NEW kk, NEW qu, NEW o \in [Threads -> Calls], NEW h \in Holds, NEW cu,
           KernelPart(kk, qu, o, h, cu),
           \A c \in Cores : o[kk.current[c]].op \notin {"sync", "wait", "exit"},
           NEW c \in Cores, InThread(kk, c), NEW t, t = kk.current[c],
           h[t] = {}, cu[t] = NoThread,
           NEW p, p = [o EXCEPT ![t] = [op |-> "exit", tp |-> t]],
           NEW r, r = [kk EXCEPT !.rdymsg[t] = "EXIT"]
    PROVE  KernelPart(r, qu, p, h, cu)
<1>0. (\A u \in Threads : o[u].op # "exit") /\ Busy(kk, o) = {}
  <2>1. ExitOK(kk, o, h, cu) /\ Sound(kk, Busy(kk, o))
    BY DEF KernelPart
  <2>2. \A u \in Threads : o[u].op # "exit"
    BY <2>1, NobodyExits
  <2> QED BY <2>1, <2>2, NobodyBusy
<1>1. Sound(kk, {}) /\ Pending(kk) = {} /\ kk.prio = Prio
  BY <1>0 DEF KernelPart
<1>2. kk \in KernelType /\ t \in Threads /\ kk.state[t] = "CURRENT" /\ t \in UserThreads
  BY <1>1, SoundFacts DEF InThread
<1>3. /\ r \in KernelType /\ r.current = kk.current /\ r.ready = kk.ready
      /\ r.state = kk.state /\ r.prio = kk.prio /\ r.armed = kk.armed
      /\ r.firing = kk.firing /\ r.isr = kk.isr /\ r.notified = kk.notified
      /\ r.rdymsg = [kk.rdymsg EXCEPT ![t] = "EXIT"]
  BY <1>2, LifeAssumption DEF KernelType
<1>4. Sound(r, {})
  <2>1. KInv(r)
    <3>1. KInvX(kk, {})
      BY <1>1 DEF Sound, KInv
    <3>2. r.armed \subseteq kk.armed /\ kk.isr \subseteq r.isr
          /\ \A d \in Cores : r.firing[d] \in {kk.firing[d], NoThread}
      BY <1>3
    <3>3. KInvX(r, {})
      BY <1>3, <3>1, <3>2, Frame
    <3> QED BY <3>3 DEF KInv
  <2>2. OrderedBut(r, {})
    BY <1>1, <1>3 DEF Sound, OrderedBut, Ordered
  <2> QED BY <2>1, <2>2 DEF Sound
<1>5. Sound(r, Busy(r, p))
  BY <1>4, SoundMore
<1>6. Pending(r) = {} /\ r.prio = Prio
  BY <1>1, <1>3 DEF Pending
<1>7. p[t] = [op |-> "exit", tp |-> t] /\ \A u \in Threads \ {t} : p[u] = o[u]
  BY <1>2
<1>8. QueuesExact(r, qu, Waited(p), Threads, "WTEXIT", FALSE)
  <2>1. QueuesExact(kk, qu, Waited(o), Threads, "WTEXIT", FALSE)
    BY DEF KernelPart
  <2>2. QueuesExact(kk, qu, Waited(p), Threads, "WTEXIT", FALSE)
    BY <1>2, <1>7, <2>1, QuietQueues
  <2>3. Others(kk, r, {})
    BY <1>3 DEF Others
  <2> QED BY <2>2, <2>3, QueueSame
<1>9. OpsOK(r, p, h)
  <2>1. o[t].op \notin {"sync", "wait"}
    OBVIOUS
  <2> QED BY <1>2, <1>3, <1>7, <2>1 DEF KernelPart, OpsOK
<1>10. FinalOK(r, h, cu, qu)
  BY <1>3 DEF KernelPart, FinalOK
<1>11. ExitOK(r, p, h, cu)
  <2>1. ASSUME NEW u \in Threads, p[u].op = "exit"
        PROVE  u = t
    BY <1>0, <1>7, <2>1
  <2>2. Owner[t] = c
    BY <1>1 DEF Sound, KInv, KInvX
  <2>3. r.rdymsg[t] = "EXIT" /\ r.current[c] = t /\ InThread(r, c)
    <3>1. kk.rdymsg \in [Threads -> Messages]
      BY <1>1, SoundFacts
    <3> QED BY <1>2, <1>3, <3>1 DEF InThread
  <2>4. ASSUME NEW d \in Cores \ {c}
        PROVE  p[r.current[d]].op \notin {"sync", "wait", "exit"}
    <3>1. kk.current[d] \in Threads /\ Owner[kk.current[d]] = d
      BY <1>1, <1>2 DEF Sound, KInv, KInvX, KernelType
    <3>2. kk.current[d] # t
      BY <2>2, <3>1
    <3> QED BY <1>3, <1>7, <3>1, <3>2
  <2> QED BY <2>1, <2>2, <2>3, <2>4 DEF ExitOK
<1>12. CodesOK(r, p)
  <2>1. ASSUME NEW u \in Threads, p[u].op \in {"sync", "wait"}, r.state[u] # "WTEXIT"
        PROVE  r.rdymsg[p[u].tp] = "EXIT" /\ r.state[p[u].tp] = "FINAL"
    <3>1. u # t /\ kk.state[u] # "WTEXIT" /\ p[u] = o[u]
      BY <1>3, <1>7, <2>1
    <3>2. o[u].tp \in Threads /\ kk.rdymsg[o[u].tp] = "EXIT" /\ kk.state[o[u].tp] = "FINAL"
      BY <1>0, <2>1, <3>1, WokenFinds DEF Finds
    <3> QED BY <1>2, <1>3, <3>1, <3>2
  <2> QED BY <2>1 DEF CodesOK
<1> QED BY <1>5, <1>6, <1>8, <1>9, <1>10, <1>11, <1>12 DEF KernelPart

\* The running thread t of c is in its exit.
Leaving(kk, o, h, cu, c, t) ==
    /\ t \in Threads /\ kk.state[t] = "CURRENT" /\ Owner[t] = c /\ InThread(kk, c)
    /\ h[t] = {} /\ cu[t] = NoThread /\ kk.rdymsg[t] = "EXIT"
    /\ \A u \in Threads \ {t} : o[u].op # "exit"
    /\ \A d \in Cores \ {c} : o[kk.current[d]].op \notin {"sync", "wait", "exit"}
    /\ Busy(kk, o) = {c}

LEMMA ExitFacts ==
    ASSUME NEW kk, NEW qu, NEW o, NEW h \in Holds, NEW cu, KernelPart(kk, qu, o, h, cu),
           NEW c \in Cores, NEW t, t = kk.current[c], o[t].op = "exit"
    PROVE  Leaving(kk, o, h, cu, c, t)
<1>1. Sound(kk, Busy(kk, o)) /\ ExitOK(kk, o, h, cu)
  BY DEF KernelPart
<1>2. t \in Threads /\ kk.state[t] = "CURRENT"
  BY <1>1, SoundFacts
<1>3. Owner[t] = c
  BY <1>1 DEF Sound, KInv, KInvX
<1>4. /\ h[t] = {} /\ cu[t] = NoThread /\ kk.rdymsg[t] = "EXIT" /\ InThread(kk, c)
      /\ \A d \in Cores \ {c} : o[kk.current[d]].op \notin {"sync", "wait", "exit"}
  BY <1>1, <1>2, <1>3 DEF ExitOK
<1>5. ASSUME NEW u \in Threads \ {t} PROVE o[u].op # "exit"
  <2> SUFFICES ASSUME o[u].op = "exit" PROVE FALSE
    OBVIOUS
  <2>1. kk.current[Owner[u]] = u /\ Owner[u] \in Cores
    BY <1>1, KernelAssumption DEF ExitOK
  <2> QED BY <1>4, <2>1
<1>6. Busy(kk, o) = {c}
  BY <1>4 DEF Busy
<1> QED BY <1>2, <1>3, <1>4, <1>5, <1>6 DEF Leaving

\* Without a switch the same threads run.
LEMMA NoSwitchStates ==
    ASSUME NEW kk, NEW X, Sound(kk, X), NEW r, NEW Y, Sound(r, Y), NoSwitch(kk, r),
           NEW u \in Threads
    PROVE  r.state[u] = "CURRENT" <=> kk.state[u] = "CURRENT"
<1>1. CurrentExact(kk) /\ CurrentExact(r)
  BY SoundImplies
<1>2. Owner[u] \in Cores
  BY KernelAssumption
<1>3. r.current = kk.current
  BY DEF NoSwitch
<1> QED BY <1>1, <1>2, <1>3 DEF CurrentExact

\* The queue of t without its first thread hd, which is made ready.
Iterated(kk, qu, wt, c, t, hd, qv, r) ==
    /\ hd \in Threads /\ kk.state[hd] = "WTEXIT" /\ wt[hd] = t
    /\ Sound(r, {c}) /\ Roused(kk, r, hd, "OK") /\ NoSwitch(kk, r)
    /\ QueuesExact(r, qv, wt, Threads, "WTEXIT", FALSE)
    /\ \A u \in Threads \ {t} : qv[u] = qu[u]

LEMMA IterationQueues ==
    ASSUME NEW kk, NEW c \in Cores, Sound(kk, {c}), NEW qu, NEW wt,
           wt = [u \in Threads |-> wt[u]],
           QueuesExact(kk, qu, wt, Threads, "WTEXIT", FALSE), NEW t \in Threads, qu[t] # <<>>,
           NEW hd, hd = Head(qu[t]), NEW q, q = ch_queue_fifo_remove(qu[t]),
           NEW r, r = ReadyWithMsg(kk, c, hd, "OK")
    PROVE  Iterated(kk, qu, wt, c, t, hd, [qu EXCEPT ![t] = q], r)
<1>1. kk \in KernelType
  BY SoundFacts
<1>10. /\ qu[t] \in Seq(Threads) /\ NoDuplicates(qu[t])
       /\ ToSet(qu[t]) = {u \in Threads : kk.state[u] = "WTEXIT" /\ wt[u] = t}
  BY DEF QueuesExact
<1>11. Head(qu[t]) \in ToSet(qu[t])
  BY <1>10, FifoRemoveSet
<1>2. hd \in ToSet(qu[t]) /\ hd \in Threads
  BY <1>10, <1>11
<1>3. kk.state[hd] = "WTEXIT" /\ wt[hd] = t
  BY <1>10, <1>11
<1>4. QueueLess(kk, qu[t], q, hd, FALSE)
  BY <1>1, QueueHead
<1>5. "OK" \in Messages /\ kk.state[hd] \notin {"READY", "CURRENT"} /\ {c} \union {c} = {c}
  BY <1>3, KernelAssumption
<1>6. Sound(r, {c}) /\ Roused(kk, r, hd, "OK") /\ NoSwitch(kk, r)
  BY <1>2, <1>5, RunReady
<1>7. Woken(kk, r, hd)
  BY <1>6 DEF Roused
<1>8. QueuesExact(r, [qu EXCEPT ![t] = q], wt, Threads, "WTEXIT", FALSE)
  <2>1. PICK n : n = wt[hd]
    OBVIOUS
  <2>2. QueuesExact(r, [qu EXCEPT ![t] = q], [wt EXCEPT ![hd] = n], Threads, "WTEXIT", FALSE)
    BY <1>2, <1>4, <1>7, QueueOut
  <2>3. [wt EXCEPT ![hd] = n] = wt
    BY <1>2, <2>1
  <2> QED BY <2>2, <2>3
<1>9. \A u \in Threads \ {t} : [qu EXCEPT ![t] = q][u] = qu[u]
  BY DEF QueuesExact
<1> QED BY <1>2, <1>3, <1>6, <1>8, <1>9 DEF Iterated

\* The exiting thread t wakes the first thread hd of those that wait for it.
LEMMA IterationParts ==
    ASSUME NEW kk, NEW qu, NEW o, NEW h \in Holds, NEW cu, KernelPart(kk, qu, o, h, cu),
           NEW c \in Cores, NEW t, Leaving(kk, o, h, cu, c, t), o[t].op = "exit",
           NEW hd, NEW qv, NEW r, Iterated(kk, qu, Waited(o), c, t, hd, qv, r)
    PROVE  KernelPart(r, qv, o, h, cu)
<1>1. /\ t \in Threads /\ kk.state[t] = "CURRENT" /\ Owner[t] = c /\ InThread(kk, c)
      /\ kk.rdymsg[t] = "EXIT"
      /\ \A u \in Threads \ {t} : o[u].op # "exit"
      /\ Busy(kk, o) = {c}
  BY DEF Leaving
<1>2. /\ Sound(kk, {c}) /\ QueuesExact(kk, qu, Waited(o), Threads, "WTEXIT", FALSE)
      /\ Pending(kk) = {} /\ kk.prio = Prio
  BY <1>1 DEF KernelPart
<1>3. kk \in KernelType /\ kk.rdymsg \in [Threads -> Messages]
  BY <1>2, SoundFacts
<1>5. hd \in Threads /\ kk.state[hd] = "WTEXIT" /\ Waited(o)[hd] = t
  BY DEF Iterated
<1>7. Sound(r, {c}) /\ Roused(kk, r, hd, "OK") /\ NoSwitch(kk, r)
  BY DEF Iterated
<1>8. /\ Woken(kk, r, hd) /\ Others(kk, r, {hd}) /\ r.state[hd] \in {"READY", "CURRENT"}
      /\ r.rdymsg = [kk.rdymsg EXCEPT ![hd] = "OK"] /\ Pending(r) \subseteq Pending(kk)
      /\ r.isr = kk.isr /\ r.current = kk.current
  BY <1>7 DEF Roused, Woken, NoSwitch
<1>9. /\ \A u \in Threads \ {hd} :
            \/ r.state[u] = kk.state[u]
            \/ kk.state[u] \in {"READY", "CURRENT"} /\ r.state[u] \in {"READY", "CURRENT"}
      /\ \A u \in Threads : r.state[u] = "CURRENT" <=> kk.state[u] = "CURRENT"
  <2>1. \A u \in Threads : r.state[u] = "CURRENT" <=> kk.state[u] = "CURRENT"
    <3> TAKE u \in Threads
    <3>1. Sound(kk, {c}) /\ Sound(r, {c}) /\ NoSwitch(kk, r)
      BY <1>2, <1>7
    <3> QED BY <3>1, NoSwitchStates
  <2>2. Others(kk, r, {hd})
    BY <1>8
  <2> QED BY <2>1, <2>2 DEF Others
<1>10. Sound(r, Busy(r, o))
  <2>1. Busy(r, o) = Busy(kk, o)
    BY <1>8 DEF Busy
  <2> QED BY <1>1, <1>7, <2>1
<1>11. Pending(r) = {} /\ r.prio = Prio
  BY <1>2, <1>8 DEF Others
<1>12. QueuesExact(r, qv, Waited(o), Threads, "WTEXIT", FALSE)
  BY DEF Iterated
<1>13. hd # t
  BY <1>1, <1>5
<1>14. o[hd].op \in {"sync", "wait"} /\ o[hd].tp = t
  BY <1>5 DEF KernelPart, OpsOK, Waited
<1>15. OpsOK(r, o, h)
  <2>1. OpsOK(kk, o, h)
    BY DEF KernelPart
  <2> QED BY <1>5, <1>8, <1>9, <2>1 DEF OpsOK
<1>16. FinalOK(r, h, cu, qv)
  <2>1. ASSUME NEW u \in Threads, r.state[u] = "FINAL"
        PROVE  h[u] = {} /\ cu[u] = NoThread /\ qv[u] = <<>>
    <3>1. u # t /\ kk.state[u] = "FINAL"
      BY <1>1, <1>8, <1>9, <2>1
    <3>2. h[u] = {} /\ cu[u] = NoThread /\ qu[u] = <<>>
      BY <3>1 DEF KernelPart, FinalOK
    <3>3. qv[u] = qu[u]
      BY <3>1 DEF Iterated
    <3> QED BY <3>1, <3>2, <3>3
  <2> QED BY <2>1 DEF FinalOK
<1>17. ExitOK(r, o, h, cu)
  <2>1. ExitOK(kk, o, h, cu)
    BY DEF KernelPart
  <2>2. r.rdymsg[t] = "EXIT"
    BY <1>1, <1>3, <1>8, <1>13
  <2>3. \A u \in Threads : o[u].op = "exit" => u = t
    BY <1>1
  <2>4. \A d \in Cores : InThread(kk, d) => InThread(r, d)
    BY <1>8 DEF InThread
  <2>5. Owner[t] \in Cores
    BY <1>1
  <2> QED BY <1>8, <2>1, <2>2, <2>3, <2>4, <2>5 DEF ExitOK
<1>18. CodesOK(r, o)
  <2>1. ASSUME NEW u \in Threads, o[u].op \in {"sync", "wait"}, r.state[u] # "WTEXIT"
        PROVE  /\ r.rdymsg[o[u].tp] = "EXIT"
               /\ \/ r.state[o[u].tp] = "FINAL"
                  \/ o[o[u].tp].op = "exit" /\ r.state[u] = "READY"
    <3>1. CASE u = hd
      <4>1. r.rdymsg[t] = "EXIT"
        BY <1>1, <1>3, <1>8, <1>13
      <4>2. r.state[hd] = "READY"
        BY <1>5, <1>8, <1>9
      <4> QED BY <1>14, <3>1, <4>1, <4>2
    <3>2. CASE u # hd
      <4>1. kk.state[u] # "WTEXIT"
        BY <1>9, <2>1, <3>2
      <4>2. /\ o[u].tp \in Threads /\ kk.rdymsg[o[u].tp] = "EXIT"
            /\ \/ kk.state[o[u].tp] = "FINAL"
               \/ o[o[u].tp].op = "exit" /\ kk.state[u] = "READY"
        BY <2>1, <4>1, WokenFinds DEF Finds
      <4>3. o[u].tp # hd
        BY <1>5, <1>14, <4>2
      <4>4. r.rdymsg[o[u].tp] = "EXIT"
        BY <1>3, <1>8, <4>2, <4>3
      <4>5. kk.state[o[u].tp] = "FINAL" => r.state[o[u].tp] = "FINAL"
        BY <1>9, <4>2, <4>3
      <4>6. kk.state[u] = "READY" => r.state[u] = "READY"
        BY <1>9, <3>2
      <4> QED BY <4>2, <4>4, <4>5, <4>6
    <3> QED BY <3>1, <3>2
  <2> QED BY <2>1 DEF CodesOK
<1> QED BY <1>10, <1>11, <1>12, <1>15, <1>16, <1>17, <1>18 DEF KernelPart

\* The exiting thread t ends.
LEMMA ExitEndParts ==
    ASSUME NEW kk, NEW qu, NEW o, NEW h \in Holds, NEW cu,
           KernelPart(kk, qu, o, h, cu),
           NEW c \in Cores, NEW t, Leaving(kk, o, h, cu, c, t), qu[t] = <<>>,
           NEW p, p[t] = NoOp, \A u \in Threads \ {t} : p[u] = o[u],
           NEW r, Sound(r, {}), Rested(kk, r, t, "FINAL"), Untimed(kk, r)
    PROVE  KernelPart(r, qu, p, h, cu)
<1>1. /\ t \in Threads /\ kk.state[t] = "CURRENT" /\ InThread(kk, c)
      /\ h[t] = {} /\ cu[t] = NoThread /\ kk.rdymsg[t] = "EXIT"
      /\ \A u \in Threads \ {t} : o[u].op # "exit"
      /\ Busy(kk, o) = {c}
  BY DEF Leaving
<1>2. /\ Sound(kk, {c}) /\ QueuesExact(kk, qu, Waited(o), Threads, "WTEXIT", FALSE)
      /\ Pending(kk) = {} /\ kk.prio = Prio
  BY <1>1 DEF KernelPart
<1>5. /\ Others(kk, r, {t}) /\ r.state[t] = "FINAL" /\ r.rdymsg = kk.rdymsg
      /\ Pending(r) \subseteq Pending(kk)
  BY DEF Rested, Asleep, Untimed
<1>6. \A u \in Threads \ {t} :
         \/ r.state[u] = kk.state[u]
         \/ kk.state[u] \in {"READY", "CURRENT"} /\ r.state[u] \in {"READY", "CURRENT"}
  BY <1>5 DEF Others
<1>7. p[t] = NoOp /\ \A u \in Threads \ {t} : p[u] = o[u]
  OBVIOUS
<1>8. \A u \in Threads : p[u].op # "exit"
  BY <1>1, <1>7 DEF NoOp
<1>9. Sound(r, Busy(r, p))
  BY <1>8, NobodyBusy
<1>10. Pending(r) = {} /\ r.prio = Prio
  BY <1>2, <1>5 DEF Others
<1>11. QueuesExact(r, qu, Waited(p), Threads, "WTEXIT", FALSE)
  <2>1. kk.state[t] # "WTEXIT"
    BY <1>1
  <2>2. QueuesExact(kk, qu, Waited(p), Threads, "WTEXIT", FALSE)
    BY <1>2, <1>7, <2>1, QuietQueues
  <2>3. \A u \in Threads \intersect {t} : kk.state[u] # "WTEXIT" /\ r.state[u] # "WTEXIT"
    BY <1>1, <1>5
  <2>4. Others(kk, r, {t})
    BY <1>5
  <2> QED BY <2>2, <2>3, <2>4, QueueSame
<1>12. OpsOK(r, p, h)
  <2>1. NoOp.op \notin {"sync", "wait"}
    BY DEF NoOp
  <2> QED BY <1>5, <1>6, <1>7, <2>1 DEF KernelPart, OpsOK
<1>13. FinalOK(r, h, cu, qu)
  BY <1>1, <1>5, <1>6 DEF KernelPart, FinalOK
<1>14. ExitOK(r, p, h, cu)
  BY <1>8 DEF ExitOK
<1>15. CodesOK(r, p)
  <2>1. ASSUME NEW u \in Threads, p[u].op \in {"sync", "wait"}, r.state[u] # "WTEXIT"
        PROVE  r.rdymsg[p[u].tp] = "EXIT" /\ r.state[p[u].tp] = "FINAL"
    <3>1. u # t /\ kk.state[u] # "WTEXIT" /\ p[u] = o[u]
      BY <1>6, <1>7, <2>1 DEF NoOp
    <3>2. /\ o[u].tp \in Threads /\ kk.rdymsg[o[u].tp] = "EXIT"
          /\ \/ kk.state[o[u].tp] = "FINAL"
             \/ o[o[u].tp].op = "exit" /\ kk.state[u] = "READY"
      <4>1. o[u].op \in {"sync", "wait"} /\ kk.state[u] # "WTEXIT"
        BY <2>1, <3>1
      <4>2. Finds(kk, o, u)
        BY <4>1, WokenFinds
      <4> QED BY <4>2 DEF Finds
    <3>3. kk.state[o[u].tp] = "FINAL" \/ o[u].tp = t
      BY <1>1, <3>2
    <3>4. r.state[o[u].tp] = "FINAL"
      BY <1>5, <1>6, <3>2, <3>3
    <3> QED BY <1>5, <3>1, <3>2, <3>4
  <2> QED BY <2>1 DEF CodesOK
<1> QED BY <1>9, <1>10, <1>11, <1>12, <1>13, <1>14, <1>15 DEF KernelPart

-----------------------------------------------------------------------------
(* The books: what a step has to balance                                     *)

\* References: a thread goes from z to n and its scan from i to m, another
\* owns the references y instead of x, which differ in a, and the counters
\* follow.
CountBalance(rf, sf, x, y, a, i, m, z, n) ==
    \A q \in Threads :
        sf[q] = rf[q] + (IF q = a THEN One(a \in y) - One(a \in x) ELSE 0)
                  + One(q = m) - One(q = i) + One(n = Release(q)) - One(z = Release(q))

LEMMA CountedMove ==
    ASSUME NEW rf, NEW h \in Holds, NEW cu \in Scans, NEW o \in [Threads -> Calls],
           Counted(rf, h, cu, o),
           NEW u \in Threads, NEW a, NEW g \in Holds, \A v \in Threads \ {u} : g[v] = h[v],
           g[u] \ {a} = h[u] \ {a},
           NEW t \in Threads, NEW m, NEW cv, cv[t] = m, \A v \in Threads \ {t} : cv[v] = cu[v],
           NEW n, NEW p, p[t] = n, \A v \in Threads \ {t} : p[v] = o[v],
           NEW sf, CountBalance(rf, sf, h[u], g[u], a, cu[t], m, o[t], n)
    PROVE  Counted(sf, g, cv, p)
<1> SUFFICES ASSUME NEW q \in Threads
             PROVE  sf[q] = Cardinality(HeldBy(g, q)) + Cardinality(ScannedBy(cv, q))
                              + Cardinality(ReleasedBy(p, q)) + Base(q)
  BY DEF Counted
<1>1. Cardinality(HeldBy(g, q))
          = Cardinality(HeldBy(h, q)) + (IF q = a THEN One(a \in g[u]) - One(a \in h[u]) ELSE 0)
  <2>1. h \in [Threads -> SUBSET Threads] /\ g \in [Threads -> SUBSET Threads]
    BY DEF Holds
  <2>2. HeldMoved(h, g, u, a, q)
    BY <2>1, HeldMove
  <2> QED BY <2>2 DEF HeldMoved
<1>2. Cardinality(ScannedBy(cv, q))
          = Cardinality(ScannedBy(cu, q)) + One(q = m) - One(q = cu[t])
  <2>1. cv[t] = m /\ \A v \in Threads \ {t} : cv[v] = cu[v]
    OBVIOUS
  <2>2. Cardinality(ScannedBy(cv, q))
            = Cardinality(ScannedBy(cu, q)) + One(q = cv[t]) - One(q = cu[t])
    <3>1. CursorMoved(cu, cv, t, q)
      BY <2>1, CursorMove
    <3> QED BY <3>1 DEF CursorMoved
  <2> QED BY <2>1, <2>2
<1>3. Cardinality(ReleasedBy(p, q))
          = Cardinality(ReleasedBy(o, q)) + One(n = Release(q)) - One(o[t] = Release(q))
  <2>1. p[t] = n /\ \A v \in Threads \ {t} : p[v] = o[v]
    OBVIOUS
  <2>2. Cardinality(ReleasedBy(p, q))
            = Cardinality(ReleasedBy(o, q)) + One(p[t] = Release(q)) - One(o[t] = Release(q))
    <3>1. ReleasedMoved(o, p, t, q)
      BY <2>1, ReleasedMove
    <3> QED BY <3>1 DEF ReleasedMoved
  <2> QED BY <2>1, <2>2
<1>4. rf[q] = Cardinality(HeldBy(h, q)) + Cardinality(ScannedBy(cu, q))
                + Cardinality(ReleasedBy(o, q)) + Base(q)
  BY DEF Counted
<1>5. sf[q] = rf[q] + (IF q = a THEN One(a \in g[u]) - One(a \in h[u]) ELSE 0)
                + One(q = m) - One(q = cu[t])
                + One(n = Release(q)) - One(o[t] = Release(q))
  BY DEF CountBalance
<1>6. /\ Cardinality(HeldBy(h, q)) \in Nat /\ Cardinality(ScannedBy(cu, q)) \in Nat
      /\ Cardinality(ReleasedBy(o, q)) \in Nat
  BY CountTypes
<1>7. Base(q) \in {0, 1}
  BY DEF Base
<1> QED BY <1>1, <1>2, <1>3, <1>4, <1>5, <1>6, <1>7 DEF One

\* The references do not depend on calls that release none.
LEMMA CountedSame ==
    ASSUME NEW rf, NEW h, NEW cu, NEW o, Counted(rf, h, cu, o), NEW t \in Threads,
           NEW p, \A u \in Threads \ {t} : p[u] = o[u],
           p[t].op # "release", o[t].op # "release"
    PROVE  Counted(rf, h, cu, p)
<1>1. p[t].op # "release" /\ o[t].op # "release" /\ \A u \in Threads \ {t} : p[u] = o[u]
  OBVIOUS
<1>2. \A q \in Threads : Release(q).op = "release"
  BY DEF Release
<1>3. \A q \in Threads : ReleasedBy(p, q) = ReleasedBy(o, q)
  BY <1>1, <1>2 DEF ReleasedBy
<1> QED BY <1>3 DEF Counted

\* Objects of the allocators change hands: a thread goes from x to n, the
\* free objects and the registry follow.
MemoryBalance(x, n, mf, nf, reg, seg) ==
    \A q \in Dynamic :
        One(Handles(n, q)) + One(q \in nf) + One(q \in ToSet(seg))
            = One(Handles(x, q)) + One(q \in mf) + One(q \in ToSet(reg))

LEMMA MemoryMove ==
    ASSUME NEW reg, NEW mf, NEW o \in [Threads -> Calls], MemoryOK(reg, mf, o),
           NEW t \in Threads, NEW n, NEW p, p = [o EXCEPT ![t] = n], NEW seg, NEW nf,
           MemoryBalance(o[t], n, mf, nf, reg, seg)
    PROVE  MemoryOK(seg, nf, p)
<1> SUFFICES ASSUME NEW q \in Dynamic
             PROVE  Cardinality(Handlers(p, q)) + One(q \in nf) + One(q \in ToSet(seg)) = 1
  BY DEF MemoryOK
<1>1. q \in Threads
  BY LifeAssumption DEF UserThreads
<1>2. Cardinality(Handlers(p, q))
          = Cardinality(Handlers(o, q)) + One(Handles(n, q)) - One(Handles(o[t], q))
  <2>1. p[t] = n /\ \A v \in Threads \ {t} : p[v] = o[v]
    OBVIOUS
  <2>2. Cardinality(Handlers(p, q))
            = Cardinality(Handlers(o, q)) + One(Handles(p[t], q)) - One(Handles(o[t], q))
    <3>1. HandlersMoved(o, p, t, q)
      BY <1>1, <2>1, HandlersMove
    <3> QED BY <3>1 DEF HandlersMoved
  <2> QED BY <2>1, <2>2
<1>3. Cardinality(Handlers(o, q)) + One(q \in mf) + One(q \in ToSet(reg)) = 1
  BY DEF MemoryOK
<1>4. Cardinality(Handlers(o, q)) \in Nat
  BY CountTypes
<1>5. One(Handles(n, q)) + One(q \in nf) + One(q \in ToSet(seg))
          = One(Handles(o[t], q)) + One(q \in mf) + One(q \in ToSet(reg))
  BY DEF MemoryBalance
<1>6. /\ One(Handles(n, q)) \in Int /\ One(Handles(o[t], q)) \in Int /\ One(q \in nf) \in Int
      /\ One(q \in mf) \in Int /\ One(q \in ToSet(seg)) \in Int /\ One(q \in ToSet(reg)) \in Int
  BY DEF One
<1> QED BY <1>2, <1>3, <1>4, <1>5, <1>6

\* Who handles an object has it for itself.
LEMMA HandlerAlone ==
    ASSUME NEW reg, NEW mf, NEW o, MemoryOK(reg, mf, o), NEW t \in Threads, NEW q \in Dynamic,
           Handles(o[t], q)
    PROVE  q \notin mf /\ q \notin ToSet(reg) /\ \A u \in Threads \ {t} : ~ Handles(o[u], q)
<1>1. Handlers(o, q) \in SUBSET Threads /\ t \in Handlers(o, q)
  BY DEF Handlers
<1>2. Cardinality(Handlers(o, q)) >= 1 /\ Cardinality(Handlers(o, q)) \in Nat
  BY <1>1, CardinalityPositive, FiniteThreads
<1>3. Cardinality(Handlers(o, q)) + One(q \in mf) + One(q \in ToSet(reg)) = 1
  BY DEF MemoryOK
<1>4. q \notin mf /\ q \notin ToSet(reg) /\ Cardinality(Handlers(o, q)) = 1
  BY <1>2, <1>3 DEF One
<1>5. IsFiniteSet(Handlers(o, q))
  BY <1>1, FiniteThreads
<1>6. PICK x : Handlers(o, q) = {x}
  BY <1>4, <1>5, FS_Singleton
<1> QED BY <1>1, <1>4, <1>6 DEF Handlers

LEMMA FreeAlone ==
    ASSUME NEW reg, NEW mf, NEW o, MemoryOK(reg, mf, o), NEW q \in Dynamic,
           q \in mf \/ q \in ToSet(reg)
    PROVE  /\ ~ (q \in mf /\ q \in ToSet(reg))
           /\ \A u \in Threads : ~ Handles(o[u], q)
<1>1. Cardinality(Handlers(o, q)) + One(q \in mf) + One(q \in ToSet(reg)) = 1
  BY DEF MemoryOK
<1>2. Cardinality(Handlers(o, q)) \in Nat
  BY CountTypes
<1>3. ~ (q \in mf /\ q \in ToSet(reg)) /\ Cardinality(Handlers(o, q)) = 0
  BY <1>1, <1>2 DEF One
<1>4. IsFiniteSet(Handlers(o, q))
  <2>1. Handlers(o, q) \in SUBSET Threads
    BY DEF Handlers
  <2> QED BY <2>1, FiniteThreads
<1>5. Handlers(o, q) = {}
  BY <1>3, <1>4, FS_EmptySet
<1> QED BY <1>3, <1>5 DEF Handlers

\* Stacks change hands: a thread goes from z to n, the thread x enters or
\* leaves the registry, and the free stacks follow.
StackBalance(z, n, x, reg, d, st, seg, e, su) ==
    su = st + One(x \in InUse(reg, d)) - One(x \in InUse(seg, e))
           + One(z.op = "spawned") - One(n.op = "spawned")
           + One(z.op = "dispose" /\ d[z.tp] = "spawnfree")
           - One(n.op = "dispose" /\ e[n.tp] = "spawnfree")

LEMMA StacksMove ==
    ASSUME NEW reg, NEW d, NEW o \in [Threads -> Calls], NEW st \in Nat, StacksOK(reg, d, o, st),
           NEW t \in Threads, NEW n, NEW p, p = [o EXCEPT ![t] = n],
           NEW seg, NEW e, NEW x, InUse(seg, e) \ {x} = InUse(reg, d) \ {x},
           \A u \in Threads \ {t} : o[u].op = "dispose" => e[o[u].tp] = d[o[u].tp],
           NEW su \in Int,
           StackBalance(o[t], n, x, reg, d, st, seg, e, su)
    PROVE  StacksOK(seg, e, p, su)
<1>0. p[t] = n /\ \A u \in Threads \ {t} : p[u] = o[u]
  OBVIOUS
<1>1. InUse(seg, e) \in SUBSET Threads /\ InUse(reg, d) \in SUBSET Threads
  BY LifeAssumption DEF InUse, UserThreads
<1>2. Cardinality(InUse(seg, e))
          = Cardinality(InUse(reg, d)) + One(x \in InUse(seg, e)) - One(x \in InUse(reg, d))
  BY <1>1, CardinalityMove
<1>3. Cardinality(Given(p)) = Cardinality(Given(o)) + One(n.op = "spawned") - One(o[t].op = "spawned")
  <2>1. Cardinality(Given(p))
            = Cardinality(Given(o)) + One(p[t].op = "spawned") - One(o[t].op = "spawned")
    <3>1. GivenMoved(o, p, t)
      BY <1>0, GivenMove
    <3> QED BY <3>1 DEF GivenMoved
  <2> QED BY <1>0, <2>1
<1>4. Cardinality(Returning(p, e))
          = Cardinality(Returning(o, d)) + One(n.op = "dispose" /\ e[n.tp] = "spawnfree")
              - One(o[t].op = "dispose" /\ d[o[t].tp] = "spawnfree")
  <2>1. Returning(o, d) \in SUBSET Threads /\ Returning(p, e) \in SUBSET Threads
    BY DEF Returning
  <2>2. Returning(o, d) \ {t} = Returning(p, e) \ {t}
    BY <1>0 DEF Returning
  <2>3. Cardinality(Returning(p, e))
            = Cardinality(Returning(o, d)) + One(t \in Returning(p, e)) - One(t \in Returning(o, d))
    BY <2>1, <2>2, CardinalityMove
  <2>4. /\ t \in Returning(p, e) <=> n.op = "dispose" /\ e[n.tp] = "spawnfree"
        /\ t \in Returning(o, d) <=> o[t].op = "dispose" /\ d[o[t].tp] = "spawnfree"
    BY <1>0 DEF Returning
  <2> QED BY <2>3, <2>4 DEF One
<1>5. /\ Cardinality(InUse(reg, d)) \in Nat /\ Cardinality(Given(o)) \in Nat
      /\ Cardinality(Returning(o, d)) \in Nat /\ Stacks \in Nat
  BY CountTypes, LifeAssumption
<1>6. st = Stacks - Cardinality(InUse(reg, d)) - Cardinality(Given(o)) - Cardinality(Returning(o, d))
  BY DEF StacksOK
<1>7. su = Stacks - Cardinality(InUse(seg, e)) - Cardinality(Given(p)) - Cardinality(Returning(p, e))
  BY <1>2, <1>3, <1>4, <1>5, <1>6 DEF One, StackBalance
<1> QED BY <1>7 DEF StacksOK

\* The stacks around are never more than there are.
LEMMA StacksBound ==
    ASSUME NEW reg, NEW d, NEW o, NEW st, StacksOK(reg, d, o, st)
    PROVE  st <= Stacks /\ st \in Int
<1>1. /\ Cardinality(InUse(reg, d)) \in Nat /\ Cardinality(Given(o)) \in Nat
      /\ Cardinality(Returning(o, d)) \in Nat /\ Stacks \in Nat
  BY CountTypes, LifeAssumption
<1> QED BY <1>1 DEF StacksOK

-----------------------------------------------------------------------------
(* Steps of a thread that goes on running, and of its books                  *)

\* t runs on c, inside no exit.
Runs(c, t) ==
    /\ t \in Threads /\ t = k.current[c] /\ k.state[t] = "CURRENT" /\ Owner[t] = c
    /\ Sound(k, {}) /\ \A u \in Threads : op[u].op # "exit"
    /\ t \in ToSet(registry)

LEMMA TypeParts ==
    ASSUME TypeOK
    PROVE  /\ op \in [Threads -> Calls] /\ held \in Holds /\ cursor \in Scans
           /\ refs \in [Threads -> 0 .. MaxRefs] /\ refs \in [Threads -> Nat]
           /\ stacks \in Nat /\ registry \in Seq(Threads)
<1>1. MaxRefs \in Nat /\ Stacks \in Nat
  BY LifeAssumption
<1>2. refs \in [Threads -> Nat]
  BY <1>1 DEF TypeOK
<1> QED BY <1>1, <1>2 DEF TypeOK, Calls, Holds, Scans

\* A thread in the middle of a call that is not about to exit.
LEMMA RunningThread ==
    ASSUME IInv, NEW c \in Cores, NEW t, t = k.current[c],
           \/ \A d \in Cores : op[k.current[d]].op # "exit"
           \/ op[t].op \in {"sync", "wait"}
    PROVE  Runs(c, t)
<1>1. KernelPart(k, waiting, op, held, cursor) /\ RegistryOK(k, refs, registry)
  BY DEF IInv, BookPart
<1>2. ExitOK(k, op, held, cursor) /\ Sound(k, Busy(k, op))
  BY <1>1 DEF KernelPart
<1>3. \A u \in Threads : op[u].op # "exit"
  BY <1>2, NobodyExits
<1>4. Sound(k, {})
  BY <1>2, <1>3, NobodyBusy
<1>5. t \in Threads /\ k.state[t] = "CURRENT"
  BY <1>4, SoundFacts
<1>6. Owner[t] = c
  BY <1>4 DEF Sound, KInv, KInvX
<1>7. t \in ToSet(registry)
  BY <1>1, <1>5 DEF RegistryOK
<1> QED BY <1>3, <1>4, <1>5, <1>6, <1>7 DEF Runs

LEMMA CallerRuns ==
    ASSUME IInv, NEW c \in Cores, NEW w, At(c, w), NEW t, t = k.current[c]
    PROVE  Runs(c, t) /\ op[t].op = w /\ InThread(k, c)
BY RunningThread DEF At, Unlocked, Exiting

\* The kernel part, when the running thread goes on to n.
LEMMA QuietStep ==
    ASSUME IInv, NEW c \in Cores, NEW t, Runs(c, t), NEW n \in Calls,
           n.op \notin {"sync", "wait", "exit"}, op' = [op EXCEPT ![t] = n],
           UNCHANGED <<k, waiting>>,
           held' \in Holds, \A u \in Threads \ {t} : held[u] \subseteq held'[u],
           \A u \in Threads : k.state[u] = "FINAL" => held'[u] = held[u],
           cursor' \in Scans, \A u \in Threads \ {t} : cursor'[u] = cursor[u]
    PROVE  KernelPart(k', waiting', op', held', cursor')
<1>1. op \in [Threads -> Calls] /\ held \in Holds /\ cursor \in Scans
  BY TypeParts DEF IInv
<1>2. /\ KernelPart(k, waiting, op, held, cursor)
      /\ \A u \in Threads : op[u].op # "exit"
      /\ t \in Threads /\ k.state[t] = "CURRENT"
  BY DEF IInv, Runs
<1>3. PICK p, g, cv : p = op' /\ g = held' /\ cv = cursor'
  OBVIOUS
<1>4. GoesOn(k, op, p, held, g, cursor, cv, t)
  <2>1. p[t] = n /\ \A u \in Threads \ {t} : p[u] = op[u]
    BY <1>1, <1>2, <1>3
  <2> QED BY <1>1, <1>2, <1>3, <2>1 DEF GoesOn
<1>5. KernelPart(k, waiting, op, held, cursor) /\ t \in Threads
  BY <1>2
<1>6. KernelPart(k, waiting, p, g, cv)
  BY <1>4, <1>5, QuietParts
<1> QED BY <1>3, <1>6

\* Calls that neither own a reference nor hold memory.
Plain(x) == x.op \in {"none", "sync", "wait", "exit"}

\* The books on memory.
MemoryBooks(reg, mf, d, st, o) ==
    MemoryOK(reg, mf, o) /\ DisposeOK(reg, d, o) /\ StacksOK(reg, d, o, st)

\* Calls that have no memory in their hands.
Empty(x) == x.op \in {"none", "release", "sync", "wait", "exit"}

\* The books on memory, when t goes on to a call that may still own a
\* reference but has no memory in its hands, and had none.
LEMMA MemorySame ==
    ASSUME NEW reg, NEW mf, NEW d, NEW st, NEW o \in [Threads -> Calls], NEW t \in Threads,
           MemoryBooks(reg, mf, d, st, o), NEW n, Empty(n), Empty(o[t]),
           NEW p, p[t] = n, \A u \in Threads \ {t} : p[u] = o[u]
    PROVE  MemoryBooks(reg, mf, d, st, p)
<1>1. p[t] = n /\ \A u \in Threads \ {t} : p[u] = o[u]
  OBVIOUS
<1>2. \A q : Handlers(p, q) = Handlers(o, q)
  BY <1>1 DEF Handlers, Handles, Empty
<1>3. Given(p) = Given(o) /\ Returning(p, d) = Returning(o, d)
  BY <1>1 DEF Given, Returning, Empty
<1>4. MemoryOK(reg, mf, p)
  BY <1>2 DEF MemoryOK, MemoryBooks
<1>5. DisposeOK(reg, d, p)
  BY <1>1 DEF DisposeOK, MemoryBooks, Empty
<1>6. StacksOK(reg, d, p, st)
  BY <1>3 DEF StacksOK, MemoryBooks
<1> QED BY <1>4, <1>5, <1>6 DEF MemoryBooks

\* A step that only allocates or frees memory.
LEMMA AllocStep ==
    ASSUME IInv, NEW c \in Cores, NEW t, Runs(c, t), NEW n \in Calls,
           n.op \notin {"sync", "wait", "exit", "release"}, op[t].op # "release",
           op' = [op EXCEPT ![t] = n],
           UNCHANGED <<k, refs, registry, waiting, dispose, held, cursor>>,
           memfree' \in SUBSET Dynamic, stacks' \in Nat,
           MemoryBalance(op[t], n, memfree, memfree', registry, registry),
           StackBalance(op[t], n, t, registry, dispose, stacks, registry, dispose, stacks'),
           n.op = "dispose" => n.tp \notin Dynamic,
           n.op \in {"create", "spawn", "spawned", "freeobj"} => n.tp \in Dynamic
    PROVE  IInv'
<1>1. /\ op \in [Threads -> Calls] /\ held \in Holds /\ cursor \in Scans
      /\ stacks \in Nat /\ t \in Threads
  BY TypeParts DEF IInv, Runs
<1>2. KernelPart(k', waiting', op', held', cursor')
  <2>1. held' \in Holds /\ cursor' \in Scans
    BY <1>1
  <2>2. /\ \A u \in Threads \ {t} : held[u] \subseteq held'[u]
        /\ \A u \in Threads : k.state[u] = "FINAL" => held'[u] = held[u]
        /\ \A u \in Threads \ {t} : cursor'[u] = cursor[u]
    OBVIOUS
  <2> QED BY <2>1, <2>2, QuietStep
<1>3. /\ Counted(refs, held, cursor, op) /\ RegistryOK(k, refs, registry)
      /\ MemoryOK(registry, memfree, op) /\ DisposeOK(registry, dispose, op)
      /\ StacksOK(registry, dispose, op, stacks)
  BY DEF IInv, BookPart
<1>4. PICK p : p = op'
  OBVIOUS
<1>5. Counted(refs, held, cursor, p)
  <2>1. p[t].op # "release" /\ op[t].op # "release" /\ \A u \in Threads \ {t} : p[u] = op[u]
    BY <1>1, <1>4
  <2> QED BY <1>1, <1>3, <2>1, CountedSame
<1>6. MemoryOK(registry, memfree', p)
  <2>1. PICK nf : nf = memfree'
    OBVIOUS
  <2>2. MemoryBalance(op[t], n, memfree, nf, registry, registry) /\ MemoryOK(registry, memfree, op)
    BY <1>3, <2>1
  <2>3. MemoryOK(registry, nf, p)
    BY <1>1, <1>4, <2>2, MemoryMove
  <2> QED BY <2>1, <2>3
<1>7. DisposeOK(registry, dispose, p)
  <2>1. p[t] = n /\ \A u \in Threads \ {t} : p[u] = op[u]
    BY <1>1, <1>4
  <2> QED BY <1>3, <2>1 DEF DisposeOK
<1>8. StacksOK(registry, dispose, p, stacks')
  <2>1. PICK su : su = stacks'
    OBVIOUS
  <2>2. /\ su \in Int /\ StackBalance(op[t], n, t, registry, dispose, stacks, registry, dispose, su)
        /\ StacksOK(registry, dispose, op, stacks)
    BY <1>3, <2>1
  <2>3. PICK x : x = t
    OBVIOUS
  <2>4. InUse(registry, dispose) \ {x} = InUse(registry, dispose) \ {x}
    OBVIOUS
  <2>5. StackBalance(op[t], n, x, registry, dispose, stacks, registry, dispose, su)
    BY <2>2, <2>3
  <2>6. StacksOK(registry, dispose, p, su)
    BY <1>1, <1>4, <2>2, <2>4, <2>5, StacksMove
  <2> QED BY <2>1, <2>6
<1>9. stacks' \in 0 .. Stacks
  <2>1. stacks' <= Stacks
    BY <1>8, StacksBound
  <2> QED BY <2>1, LifeAssumption
<1>10. TypeOK'
  <2>1. op' \in [Threads -> Calls]
    BY <1>1
  <2> QED BY <1>9, <2>1 DEF IInv, TypeOK, Calls
<1>11. RegistryOK(k', refs', registry')
  BY <1>3
<1>12. BookPart(k', refs', registry', dispose', memfree', stacks', op', held', cursor')
  BY <1>4, <1>5, <1>6, <1>7, <1>8, <1>11 DEF BookPart
<1> QED BY <1>2, <1>10, <1>12 DEF IInv

\* A step that moves references: t goes on to n and its scan to m, and the
\* thread u, which lives, gets or loses the reference to a.
RefMove(t, n, u, a, m) ==
    /\ n \in Calls /\ n.op \notin {"sync", "wait", "exit"} /\ op' = [op EXCEPT ![t] = n]
    /\ UNCHANGED <<k, waiting>>
    /\ u \in Threads /\ k.state[u] # "FINAL" /\ a \in Threads /\ m \in Threads \union {NoThread}
    /\ held' \in Holds /\ \A v \in Threads \ {u} : held'[v] = held[v]
    /\ held'[u] \ {a} = held[u] \ {a} /\ (u = t \/ held[u] \subseteq held'[u])
    /\ cursor' = [cursor EXCEPT ![t] = m]
    /\ CountBalance(refs, refs', held[u], held'[u], a, cursor[t], m, op[t], n)

LEMMA RefParts ==
    ASSUME IInv, NEW c \in Cores, NEW t, Runs(c, t), NEW n, NEW u, NEW a, NEW m,
           RefMove(t, n, u, a, m)
    PROVE  /\ KernelPart(k', waiting', op', held', cursor')
           /\ Counted(refs', held', cursor', op')
           /\ op' \in [Threads -> Calls] /\ held' \in Holds /\ cursor' \in Scans
<1>1. /\ op \in [Threads -> Calls] /\ held \in Holds /\ cursor \in Scans /\ t \in Threads
  BY TypeParts DEF IInv, Runs
<1>2. /\ n \in Calls /\ n.op \notin {"sync", "wait", "exit"} /\ op' = [op EXCEPT ![t] = n]
      /\ UNCHANGED <<k, waiting>>
      /\ u \in Threads /\ k.state[u] # "FINAL" /\ a \in Threads /\ m \in Threads \union {NoThread}
      /\ held' \in Holds /\ \A v \in Threads \ {u} : held'[v] = held[v]
      /\ held'[u] \ {a} = held[u] \ {a} /\ (u = t \/ held[u] \subseteq held'[u])
      /\ cursor' = [cursor EXCEPT ![t] = m]
  BY DEF RefMove
<1>3. op' \in [Threads -> Calls] /\ cursor' \in Scans
  BY <1>1, <1>2 DEF Scans
<1>4. cursor'[t] = m /\ \A v \in Threads \ {t} : cursor'[v] = cursor[v]
  BY <1>1, <1>2 DEF Scans
<1>5. KernelPart(k', waiting', op', held', cursor')
  <2>1. /\ \A v \in Threads \ {t} : held[v] \subseteq held'[v]
        /\ \A v \in Threads : k.state[v] = "FINAL" => held'[v] = held[v]
        /\ \A v \in Threads \ {t} : cursor'[v] = cursor[v]
    BY <1>2, <1>4
  <2>2. held' \in Holds /\ cursor' \in Scans /\ n \in Calls /\ n.op \notin {"sync", "wait", "exit"}
    BY <1>2, <1>3
  <2>3. op' = [op EXCEPT ![t] = n] /\ UNCHANGED <<k, waiting>>
    BY <1>2
  <2> QED BY <2>1, <2>2, <2>3, QuietStep
<1>6. Counted(refs', held', cursor', op')
  <2>1. PICK p, g, cv, sf : p = op' /\ g = held' /\ cv = cursor' /\ sf = refs'
    OBVIOUS
  <2>2. Counted(refs, held, cursor, op)
    BY DEF IInv, BookPart
  <2>3. g \in Holds /\ (\A v \in Threads \ {u} : g[v] = held[v]) /\ g[u] \ {a} = held[u] \ {a}
    BY <1>2, <2>1
  <2>4. cv[t] = m /\ \A v \in Threads \ {t} : cv[v] = cursor[v]
    BY <1>4, <2>1
  <2>5. p[t] = n /\ \A v \in Threads \ {t} : p[v] = op[v]
    BY <1>1, <1>2, <2>1
  <2>6. CountBalance(refs, sf, held[u], g[u], a, cursor[t], m, op[t], n)
    BY <2>1 DEF RefMove
  <2>7. Counted(sf, g, cv, p)
    BY <1>1, <1>2, <2>2, <2>3, <2>4, <2>5, <2>6, CountedMove
  <2> QED BY <2>1, <2>7
<1> QED BY <1>2, <1>3, <1>5, <1>6

LEMMA RefStep ==
    ASSUME IInv, NEW c \in Cores, NEW t, Runs(c, t), NEW n, NEW u, NEW a, NEW m,
           RefMove(t, n, u, a, m), n.op \in {"none", "release"},
           op[t].op \in {"none", "release", "sync", "wait"},
           UNCHANGED <<registry, dispose, memfree, stacks>>, refs' \in [Threads -> 0 .. MaxRefs],
           \A q \in Threads \ ToSet(registry) : refs'[q] = 0
    PROVE  IInv'
<1>1. op \in [Threads -> Calls] /\ t \in Threads
  BY TypeParts DEF IInv, Runs
<1>2. /\ KernelPart(k', waiting', op', held', cursor')
      /\ Counted(refs', held', cursor', op')
      /\ op' \in [Threads -> Calls] /\ held' \in Holds /\ cursor' \in Scans
  BY RefParts
<1>3. k' = k /\ waiting' = waiting /\ op' = [op EXCEPT ![t] = n]
  BY DEF RefMove
<1>4. RegistryOK(k', refs', registry')
  <2>1. RegistryOK(k, refs, registry)
    BY DEF IInv, BookPart
  <2> QED BY <1>3, <2>1 DEF RegistryOK
<1>5. MemoryOK(registry, memfree, op') /\ DisposeOK(registry, dispose, op')
      /\ StacksOK(registry, dispose, op', stacks)
  <2>1. PICK p : p = op'
    OBVIOUS
  <2>2. MemoryBooks(registry, memfree, dispose, stacks, op)
    BY DEF IInv, BookPart, MemoryBooks
  <2>3. p[t] = n /\ \A v \in Threads \ {t} : p[v] = op[v]
    BY <1>1, <1>3, <2>1
  <2>4. Empty(n) /\ Empty(op[t])
    BY DEF Empty
  <2>5. MemoryBooks(registry, memfree, dispose, stacks, p)
    BY <1>1, <2>2, <2>3, <2>4, MemorySame
  <2> QED BY <2>1, <2>5 DEF MemoryBooks
<1>6. TypeOK'
  BY <1>2, <1>3 DEF IInv, TypeOK, Calls, Holds, Scans
<1>7. BookPart(k', refs', registry', dispose', memfree', stacks', op', held', cursor')
  BY <1>2, <1>4, <1>5 DEF BookPart
<1> QED BY <1>2, <1>6, <1>7 DEF IInv

\* A call that has not begun.
LEMMA NoCall ==
    ASSUME NEW o \in [Threads -> Calls], NEW t \in Threads, o[t].op = "none"
    PROVE  o[t] = NoOp /\ o = [o EXCEPT ![t] = NoOp]
<1>1. o[t] = NoOp
  <2>1. o[t] \in Calls
    OBVIOUS
  <2>2. \A x \in Ops : x.op # "none"
    BY DEF Ops
  <2> QED BY <2>1, <2>2 DEF Calls
<1> QED BY <1>1

LEMMA CallTypes ==
    ASSUME NEW tp \in Threads
    PROVE  /\ NoOp \in Calls /\ NoOp.op = "none" /\ NoThread \notin Threads
           /\ Release(tp) \in Calls /\ Release(tp).op = "release" /\ Release(tp).tp = tp
           /\ [op |-> "dispose", tp |-> tp] \in Calls
           /\ \A q \in Threads : NoOp # Release(q) /\ [op |-> "dispose", tp |-> tp] # Release(q)
           /\ \A q \in Threads : Release(tp) = Release(q) <=> tp = q
<1>1. NoThread \notin Threads
  BY KernelAssumption
<1> QED BY <1>1 DEF Calls, Ops, NoOp, Release

\* The last reference to a thread that has ended: it leaves the registry and
\* is in the hands of the thread that has released it.
LEMMA LastStep ==
    ASSUME IInv, NEW c \in Cores, NEW t, Runs(c, t), NEW tp \in Threads, NEW n, NEW m,
           n = [op |-> "dispose", tp |-> tp], RefMove(t, n, t, tp, m),
           op[t].op \in {"none", "release"},
           refs[tp] = 1, tp \in held[t] \/ cursor[t] = tp \/ op[t] = Release(tp),
           k.state[tp] = "FINAL", refs' = [refs EXCEPT ![tp] = 0],
           registry' = ch_queue_dequeue(registry, tp),
           UNCHANGED <<dispose, memfree, stacks>>
    PROVE  IInv'
<1>1. /\ op \in [Threads -> Calls] /\ t \in Threads /\ registry \in Seq(Threads) /\ stacks \in Nat
      /\ refs \in [Threads -> 0 .. MaxRefs] /\ refs \in [Threads -> Nat]
  BY TypeParts DEF IInv, Runs
<1>2. /\ KernelPart(k', waiting', op', held', cursor')
      /\ Counted(refs', held', cursor', op')
      /\ op' \in [Threads -> Calls] /\ held' \in Holds /\ cursor' \in Scans
  BY RefParts
<1>3. k' = k /\ waiting' = waiting /\ op' = [op EXCEPT ![t] = n]
  BY DEF RefMove
<1>4. /\ Counted(refs, held, cursor, op) /\ RegistryOK(k, refs, registry)
      /\ MemoryOK(registry, memfree, op) /\ DisposeOK(registry, dispose, op)
      /\ StacksOK(registry, dispose, op, stacks)
  BY DEF IInv, BookPart
<1>5. tp \in ToSet(registry) /\ NoDuplicates(registry)
  <2>1. tp \in ToSet(registry)
    BY <1>1, <1>4, OwnedRegistered
  <2> QED BY <1>4, <2>1 DEF RegistryOK
<1>6. PICK p, seg : p = op' /\ seg = registry'
  OBVIOUS
<1>7. /\ seg \in Seq(Threads) /\ ToSet(seg) = ToSet(registry) \ {tp} /\ NoDuplicates(seg)
  BY <1>1, <1>5, <1>6, DequeueSet
<1>8. p = [op EXCEPT ![t] = n] /\ p[t] = n /\ \A v \in Threads \ {t} : p[v] = op[v]
  BY <1>1, <1>3, <1>6
<1>9. RegistryOK(k, refs', seg)
  <2>1. \A q \in Threads : refs'[q] = IF q = tp THEN 0 ELSE refs[q]
    BY <1>1
  <2> QED BY <1>4, <1>7, <2>1 DEF RegistryOK
<1>10. MemoryOK(seg, memfree, p)
  <2>1. \A q : ~ Handles(op[t], q) /\ (Handles(n, q) <=> q = tp)
    BY DEF Handles
  <2>2. MemoryBalance(op[t], n, memfree, memfree, registry, seg)
    BY <1>5, <1>7, <2>1 DEF MemoryBalance, One
  <2> QED BY <1>1, <1>4, <1>8, <2>2, MemoryMove
<1>11. DisposeOK(seg, dispose, p)
  BY <1>4, <1>5, <1>7, <1>8 DEF DisposeOK
<1>12. StacksOK(seg, dispose, p, stacks)
  <2>1. \A q \in Dynamic : q \in InUse(registry, dispose)
                             <=> q \in ToSet(registry) /\ dispose[q] = "spawnfree"
    BY DEF InUse
  <2>2. tp \notin InUse(seg, dispose)
        /\ InUse(seg, dispose) \ {tp} = InUse(registry, dispose) \ {tp}
    BY <1>7 DEF InUse
  <2>3. tp \in InUse(registry, dispose) <=> dispose[tp] = "spawnfree"
    BY <1>4, <1>5 DEF InUse, DisposeOK
  <2>4. StackBalance(op[t], n, tp, registry, dispose, stacks, seg, dispose, stacks)
    BY <1>1, <2>2, <2>3 DEF StackBalance, One
  <2>5. stacks \in Int
    BY <1>1
  <2>6. \A u \in Threads \ {t} : op[u].op = "dispose" => dispose[op[u].tp] = dispose[op[u].tp]
    OBVIOUS
  <2>7. InUse(seg, dispose) \ {tp} = InUse(registry, dispose) \ {tp}
    BY <2>2
  <2> QED BY <1>1, <1>4, <1>8, <2>4, <2>5, <2>6, <2>7, StacksMove
<1>13. TypeOK'
  <2>1. refs' \in [Threads -> 0 .. MaxRefs]
    BY <1>1, LifeAssumption
  <2> QED BY <1>2, <1>3, <1>6, <1>7, <2>1 DEF IInv, TypeOK, Calls, Holds, Scans
<1>14. BookPart(k', refs', registry', dispose', memfree', stacks', op', held', cursor')
  BY <1>2, <1>3, <1>6, <1>9, <1>10, <1>11, <1>12 DEF BookPart
<1> QED BY <1>2, <1>13, <1>14 DEF IInv

\* The critical section of chThdRelease(), by the owner of the reference.
LEMMA DropStep ==
    ASSUME IInv, NEW c \in Cores, NEW t, Runs(c, t), NEW tp \in Threads, NEW n, NEW m,
           n = IF LastRef(tp) THEN [op |-> "dispose", tp |-> tp] ELSE NoOp,
           DropRef(t, tp), RefMove(t, n, t, tp, m),
           op[t].op \in {"none", "release"},
           tp \in held[t] \/ cursor[t] = tp \/ op[t] = Release(tp)
    PROVE  IInv'
<1>1. /\ t \in Threads /\ refs \in [Threads -> 0 .. MaxRefs] /\ refs \in [Threads -> Nat]
  BY TypeParts DEF IInv, Runs
<1>2. Counted(refs, held, cursor, op) /\ RegistryOK(k, refs, registry)
  BY DEF IInv, BookPart
<1>3. refs[tp] >= 1
  BY <1>1, <1>2, OwnedCounts
<1>4. tp \in ToSet(registry)
  BY <1>1, <1>2, OwnedRegistered
<1>5. /\ refs' = [refs EXCEPT ![tp] = @ - 1]
      /\ UNCHANGED <<dispose, memfree, stacks>>
  BY DEF DropRef, mem
<1>6. CASE LastRef(tp)
  <2>1. /\ refs[tp] = 1 /\ k.state[tp] = "FINAL" /\ registry' = ch_queue_dequeue(registry, tp)
        /\ n = [op |-> "dispose", tp |-> tp]
    BY <1>6 DEF LastRef, DropRef
  <2>2. refs' = [refs EXCEPT ![tp] = 0]
    BY <1>1, <1>5, <2>1
  <2> QED BY <1>5, <2>1, <2>2, LastStep
<1>7. CASE ~ LastRef(tp)
  <2>1. registry' = registry /\ n = NoOp
    BY <1>7 DEF DropRef
  <2>2. refs' \in [Threads -> 0 .. MaxRefs]
    <3>1. refs[tp] - 1 \in 0 .. MaxRefs
      BY <1>1, <1>3, LifeAssumption
    <3> QED BY <1>1, <1>5, <3>1
  <2>3. \A q \in Threads \ ToSet(registry) : refs'[q] = 0
    BY <1>1, <1>2, <1>4, <1>5 DEF RegistryOK
  <2>4. n.op \in {"none", "release"} /\ op[t].op \in {"none", "release", "sync", "wait"}
    BY <2>1 DEF NoOp
  <2>5. UNCHANGED <<registry, dispose, memfree, stacks>>
    BY <1>5, <2>1
  <2> QED BY <2>2, <2>3, <2>4, <2>5, RefStep
<1> QED BY <1>6, <1>7

-----------------------------------------------------------------------------
(* The actions on references                                                 *)

LEMMA AddRefAct ==
    ASSUME IInv, NEW c \in Cores, NEW tp \in UserThreads, NEW u \in UserThreads, chThdAddRef(c, tp, u)
    PROVE  IInv'
<1>1. PICK t : t = k.current[c]
  OBVIOUS
<1>2. Runs(c, t) /\ op[t].op = "none"
  BY <1>1, CallerRuns DEF chThdAddRef, Caller
<1>3. /\ op \in [Threads -> Calls] /\ held \in Holds /\ cursor \in Scans /\ t \in Threads
      /\ refs \in [Threads -> 0 .. MaxRefs] /\ refs \in [Threads -> Nat]
  BY <1>2, TypeParts DEF IInv, Runs
<1>4. /\ tp \in held[t] /\ refs[tp] < MaxRefs /\ k.state[u] # "FINAL" /\ tp \notin held[u]
      /\ refs' = [refs EXCEPT ![tp] = @ + 1]
      /\ held' = [held EXCEPT ![u] = @ \union {tp}]
      /\ UNCHANGED <<k, registry, waiting, dispose, op, cursor, memfree, stacks>>
  BY <1>1 DEF chThdAddRef, mem
<1>5. op[t] = NoOp /\ op = [op EXCEPT ![t] = NoOp]
  BY <1>2, <1>3, NoCall
<1>6. tp \in Threads /\ u \in Threads
  BY DEF UserThreads
<1>7. NoOp \in Calls /\ NoOp.op = "none" /\ \A q \in Threads : NoOp # Release(q)
  BY <1>6, CallTypes
<1>8. held' \in Holds /\ held'[u] = held[u] \union {tp} /\ \A v \in Threads \ {u} : held'[v] = held[v]
  BY <1>3, <1>4, <1>6 DEF Holds
<1>9. PICK m : m = cursor[t]
  OBVIOUS
<1>10. m \in Threads \union {NoThread} /\ cursor' = [cursor EXCEPT ![t] = m]
  BY <1>3, <1>4, <1>9 DEF Scans
<1>11. CountBalance(refs, refs', held[u], held'[u], tp, cursor[t], m, op[t], NoOp)
  <2>1. \A q \in Threads : refs'[q] = IF q = tp THEN refs[q] + 1 ELSE refs[q]
    BY <1>3, <1>4, <1>6
  <2> QED BY <1>3, <1>4, <1>5, <1>8, <1>9, <2>1 DEF CountBalance, One
<1>12. RefMove(t, NoOp, u, tp, m)
  BY <1>4, <1>5, <1>6, <1>7, <1>8, <1>10, <1>11 DEF RefMove
<1>13. refs' \in [Threads -> 0 .. MaxRefs]
  BY <1>3, <1>4, <1>6, LifeAssumption
<1>14. \A q \in Threads \ ToSet(registry) : refs'[q] = 0
  <2>1. Counted(refs, held, cursor, op) /\ RegistryOK(k, refs, registry)
    BY DEF IInv, BookPart
  <2>2. tp \in ToSet(registry)
    BY <1>3, <1>4, <1>6, <2>1, OwnedRegistered
  <2> QED BY <1>3, <1>4, <2>1, <2>2 DEF RegistryOK
<1>15. UNCHANGED <<registry, dispose, memfree, stacks>>
  BY <1>4
<1>16. NoOp.op \in {"none", "release"} /\ op[t].op \in {"none", "release", "sync", "wait"}
  BY <1>2, <1>7
<1> QED BY <1>2, <1>12, <1>13, <1>14, <1>15, <1>16, RefStep

\* What chThdRelease() drops, as a move of references.
LEMMA DropMove ==
    ASSUME IInv, NEW c \in Cores, NEW t, Runs(c, t), NEW tp \in Threads,
           op[t].op \in {"none", "release"}, DropRef(t, tp), NEW n,
           n = IF LastRef(tp) THEN [op |-> "dispose", tp |-> tp] ELSE NoOp,
           \/ /\ op[t].op = "none" /\ tp \in held[t] /\ held' = [held EXCEPT ![t] = @ \ {tp}]
              /\ UNCHANGED cursor
           \/ /\ op[t].op = "none" /\ tp = cursor[t] /\ cursor' = [cursor EXCEPT ![t] = NoThread]
              /\ UNCHANGED held
           \/ op[t] = Release(tp) /\ UNCHANGED <<held, cursor>>
    PROVE  \E m : RefMove(t, n, t, tp, m)
<1>1. /\ op \in [Threads -> Calls] /\ held \in Holds /\ cursor \in Scans /\ t \in Threads
      /\ refs \in [Threads -> 0 .. MaxRefs] /\ refs \in [Threads -> Nat] /\ k.state[t] # "FINAL"
  BY TypeParts DEF IInv, Runs
<1>2. /\ refs' = [refs EXCEPT ![tp] = @ - 1] /\ op' = [op EXCEPT ![t] = n] /\ UNCHANGED <<k, waiting>>
  BY DEF DropRef, Goto, Finish
<1>3. /\ n \in Calls /\ n.op \notin {"sync", "wait", "exit"} /\ \A q \in Threads : n # Release(q)
  BY CallTypes DEF NoOp
<1>4. \A q \in Threads : refs'[q] = IF q = tp THEN refs[q] - 1 ELSE refs[q]
  BY <1>1, <1>2
<1>5. \A q \in Threads : refs[q] \in Nat
  BY <1>1
<1>6. CASE /\ op[t].op = "none" /\ tp \in held[t] /\ held' = [held EXCEPT ![t] = @ \ {tp}]
           /\ UNCHANGED cursor
  <2>1. PICK m : m = cursor[t]
    OBVIOUS
  <2>2. m \in Threads \union {NoThread} /\ cursor' = [cursor EXCEPT ![t] = m]
    BY <1>1, <1>6, <2>1 DEF Scans
  <2>3. held' \in Holds /\ held'[t] = held[t] \ {tp} /\ \A v \in Threads \ {t} : held'[v] = held[v]
    BY <1>1, <1>6 DEF Holds
  <2>4. \A q \in Threads : op[t] # Release(q)
    BY <1>6 DEF Release
  <2>5. CountBalance(refs, refs', held[t], held'[t], tp, cursor[t], m, op[t], n)
    BY <1>3, <1>4, <1>5, <1>6, <2>1, <2>3, <2>4 DEF CountBalance, One
  <2> QED BY <1>1, <1>2, <1>3, <2>2, <2>3, <2>5 DEF RefMove
<1>7. CASE /\ op[t].op = "none" /\ tp = cursor[t] /\ cursor' = [cursor EXCEPT ![t] = NoThread]
           /\ UNCHANGED held
  <2>1. held' \in Holds /\ held'[t] = held[t] /\ \A v \in Threads \ {t} : held'[v] = held[v]
    BY <1>1, <1>7
  <2>2. \A q \in Threads : op[t] # Release(q)
    BY <1>7 DEF Release
  <2>3. NoThread \notin Threads
    BY CallTypes
  <2>4. CountBalance(refs, refs', held[t], held'[t], tp, cursor[t], NoThread, op[t], n)
    BY <1>3, <1>4, <1>5, <1>7, <2>1, <2>2, <2>3 DEF CountBalance, One
  <2> QED BY <1>1, <1>2, <1>3, <1>7, <2>1, <2>4 DEF RefMove
<1>8. CASE op[t] = Release(tp) /\ UNCHANGED <<held, cursor>>
  <2>1. PICK m : m = cursor[t]
    OBVIOUS
  <2>2. m \in Threads \union {NoThread} /\ cursor' = [cursor EXCEPT ![t] = m]
    BY <1>1, <1>8, <2>1 DEF Scans
  <2>3. held' \in Holds /\ held'[t] = held[t] /\ \A v \in Threads \ {t} : held'[v] = held[v]
    BY <1>1, <1>8
  <2>4. \A q \in Threads : op[t] = Release(q) <=> q = tp
    BY <1>8 DEF Release
  <2>5. CountBalance(refs, refs', held[t], held'[t], tp, cursor[t], m, op[t], n)
    BY <1>3, <1>4, <1>5, <2>1, <2>3, <2>4 DEF CountBalance, One
  <2> QED BY <1>1, <1>2, <1>3, <2>2, <2>3, <2>5 DEF RefMove
<1> QED BY <1>6, <1>7, <1>8

LEMMA ReleaseAct ==
    ASSUME IInv, NEW c \in Cores, NEW tp \in Threads, chThdRelease(c, tp)
    PROVE  IInv'
<1>1. PICK t : t = k.current[c]
  OBVIOUS
<1>2. Runs(c, t) /\ op[t].op = "none"
  BY <1>1, CallerRuns DEF chThdRelease, Caller
<1>3. PICK n : n = IF LastRef(tp) THEN [op |-> "dispose", tp |-> tp] ELSE NoOp
  OBVIOUS
<1>4. /\ DropRef(t, tp) /\ (tp \in held[t] \/ cursor[t] = tp)
      /\ \/ tp \in held[t] /\ held' = [held EXCEPT ![t] = @ \ {tp}] /\ UNCHANGED cursor
         \/ tp = cursor[t] /\ cursor' = [cursor EXCEPT ![t] = NoThread] /\ UNCHANGED held
  BY <1>1 DEF chThdRelease
<1>5. PICK m : RefMove(t, n, t, tp, m)
  BY <1>2, <1>3, <1>4, DropMove
<1> QED BY <1>2, <1>3, <1>4, <1>5, DropStep

LEMMA ReleaseAfterAct ==
    ASSUME IInv, NEW c \in Cores, ReleaseAfter(c)
    PROVE  IInv'
<1>1. PICK t : t = k.current[c]
  OBVIOUS
<1>2. Runs(c, t) /\ op[t].op = "release"
  BY <1>1, CallerRuns DEF ReleaseAfter
<1>3. PICK tp : tp = op[t].tp
  OBVIOUS
<1>4. tp \in Threads /\ op[t] = Release(tp)
  <2>1. op[t] \in Calls
    BY <1>2, TypeParts DEF IInv, Runs
  <2> QED BY <1>2, <1>3, <2>1 DEF Calls, Ops, NoOp, Release
<1>5. PICK n : n = IF LastRef(tp) THEN [op |-> "dispose", tp |-> tp] ELSE NoOp
  OBVIOUS
<1>6. DropRef(t, tp) /\ UNCHANGED <<held, cursor>>
  BY <1>1, <1>3 DEF ReleaseAfter
<1>7. PICK m : RefMove(t, n, t, tp, m)
  BY <1>2, <1>4, <1>5, <1>6, DropMove
<1> QED BY <1>2, <1>4, <1>5, <1>6, <1>7, DropStep

\* A move of references by t alone, that leaves the registered threads with
\* counters in range.
LEMMA OwnStep ==
    ASSUME IInv, NEW c \in Cores, NEW t, Runs(c, t), op[t].op \in {"none", "sync", "wait"},
           NEW n, n = NoOp \/ \E tp \in Threads : n = Release(tp),
           op' = [op EXCEPT ![t] = n],
           NEW a \in Threads, NEW H \in SUBSET Threads, H \ {a} = held[t] \ {a},
           held' = [held EXCEPT ![t] = H],
           NEW m \in Threads \union {NoThread}, cursor' = [cursor EXCEPT ![t] = m],
           CountBalance(refs, refs', held[t], H, a, cursor[t], m, op[t], n),
           UNCHANGED <<k, registry, waiting, dispose, memfree, stacks>>,
           refs' \in [Threads -> 0 .. MaxRefs],
           \A q \in Threads \ ToSet(registry) : refs'[q] = refs[q]
    PROVE  IInv'
<1>1. /\ op \in [Threads -> Calls] /\ held \in Holds /\ cursor \in Scans /\ t \in Threads
      /\ k.state[t] # "FINAL"
  BY TypeParts DEF IInv, Runs
<1>2. n \in Calls /\ n.op \in {"none", "release"}
  BY DEF Calls, Ops, NoOp, Release
<1>3. held' \in Holds /\ held'[t] = H /\ \A v \in Threads \ {t} : held'[v] = held[v]
  BY <1>1 DEF Holds
<1>4. RefMove(t, n, t, a, m)
  BY <1>1, <1>2, <1>3 DEF RefMove
<1>5. \A q \in Threads \ ToSet(registry) : refs'[q] = 0
  BY DEF IInv, BookPart, RegistryOK
<1> QED BY <1>2, <1>4, <1>5, RefStep

LEMMA FirstAct ==
    ASSUME IInv, NEW c \in Cores, chRegFirstThread(c)
    PROVE  IInv'
<1>1. PICK t, tp : t = k.current[c] /\ tp = Head(registry)
  OBVIOUS
<1>2. Runs(c, t) /\ op[t].op = "none"
  BY <1>1, CallerRuns DEF chRegFirstThread, Caller
<1>3. /\ op \in [Threads -> Calls] /\ held \in Holds /\ cursor \in Scans /\ t \in Threads
      /\ refs \in [Threads -> 0 .. MaxRefs] /\ refs \in [Threads -> Nat]
      /\ registry \in Seq(Threads) /\ t \in ToSet(registry)
  BY <1>2, TypeParts DEF IInv, Runs
<1>4. tp \in Threads /\ tp \in ToSet(registry)
  <2>1. registry # <<>>
    BY <1>3 DEF ToSet
  <2> QED BY <1>1, <1>3, <2>1 DEF ToSet
<1>5. /\ cursor[t] = NoThread /\ refs[tp] < MaxRefs
      /\ refs' = [refs EXCEPT ![tp] = @ + 1]
      /\ cursor' = [cursor EXCEPT ![t] = tp]
      /\ UNCHANGED <<k, registry, waiting, dispose, op, held, memfree, stacks>>
  BY <1>1 DEF chRegFirstThread, mem
<1>6. op[t] = NoOp /\ op = [op EXCEPT ![t] = NoOp]
  BY <1>2, <1>3, NoCall
<1>7. NoThread \notin Threads /\ \A q \in Threads : NoOp # Release(q)
  BY <1>3, CallTypes
<1>8. \A q \in Threads : refs'[q] = IF q = tp THEN refs[q] + 1 ELSE refs[q]
  BY <1>3, <1>4, <1>5
<1>9. CountBalance(refs, refs', held[t], held[t], tp, cursor[t], tp, op[t], NoOp)
  BY <1>3, <1>5, <1>6, <1>7, <1>8 DEF CountBalance, One
<1>10. refs' \in [Threads -> 0 .. MaxRefs]
  BY <1>3, <1>4, <1>5, LifeAssumption
<1>11. PICK H : H = held[t]
  OBVIOUS
<1>12. H \in SUBSET Threads /\ held' = [held EXCEPT ![t] = H]
  BY <1>3, <1>5, <1>11 DEF Holds
<1>13. \A q \in Threads \ ToSet(registry) : refs'[q] = refs[q]
  BY <1>4, <1>8
<1>14. CountBalance(refs, refs', held[t], H, tp, cursor[t], tp, op[t], NoOp)
       /\ H \ {tp} = held[t] \ {tp}
  BY <1>9, <1>11
<1>15. op' = [op EXCEPT ![t] = NoOp] /\ op[t].op \in {"none", "sync", "wait"}
       /\ UNCHANGED <<k, registry, waiting, dispose, memfree, stacks>>
  BY <1>2, <1>5, <1>6
<1>16. cursor' = [cursor EXCEPT ![t] = tp]
  BY <1>5
<1> QED BY <1>2, <1>4, <1>10, <1>12, <1>13, <1>14, <1>15, <1>16, OwnStep

LEMMA NextAct ==
    ASSUME IInv, NEW c \in Cores, chRegNextThread(c)
    PROVE  IInv'
<1>1. PICK t, tp : t = k.current[c] /\ tp = cursor[t]
  OBVIOUS
<1>2. Runs(c, t) /\ op[t].op = "none"
  BY <1>1, CallerRuns DEF chRegNextThread, Caller
<1>3. /\ op \in [Threads -> Calls] /\ held \in Holds /\ cursor \in Scans /\ t \in Threads
      /\ refs \in [Threads -> 0 .. MaxRefs] /\ refs \in [Threads -> Nat]
      /\ registry \in Seq(Threads)
  BY <1>2, TypeParts DEF IInv, Runs
<1>4. tp \in Threads
  BY <1>1, <1>3 DEF chRegNextThread, Scans
<1>5. /\ op' = [op EXCEPT ![t] = Release(tp)]
      /\ UNCHANGED <<k, registry, waiting, dispose, held, memfree, stacks>>
  BY <1>1 DEF chRegNextThread, Goto, Release, mem
<1>6. op[t] = NoOp
  BY <1>2, <1>3, NoCall
<1>7. NoThread \notin Threads /\ \A q \in Threads : NoOp # Release(q)
  BY <1>3, CallTypes
<1>8. PICK H : H = held[t]
  OBVIOUS
<1>9. H \in SUBSET Threads /\ held' = [held EXCEPT ![t] = H] /\ H \ {tp} = held[t] \ {tp}
  BY <1>3, <1>5, <1>8 DEF Holds
<1>10. \A q \in Threads : Release(tp) = Release(q) <=> tp = q
  BY DEF Release
<1>11. /\ op[t].op \in {"none", "sync", "wait"} /\ \E x \in Threads : Release(tp) = Release(x)
       /\ UNCHANGED <<k, registry, waiting, dispose, memfree, stacks>>
  BY <1>2, <1>4, <1>5
<1>12. CASE cursor' = [cursor EXCEPT ![t] = NoThread] /\ UNCHANGED refs
  <2>1. CountBalance(refs, refs', held[t], H, tp, cursor[t], NoThread, op[t], Release(tp))
    BY <1>1, <1>3, <1>6, <1>7, <1>8, <1>10, <1>12 DEF CountBalance, One
  <2>2. refs' \in [Threads -> 0 .. MaxRefs] /\ \A q \in Threads \ ToSet(registry) : refs'[q] = refs[q]
    BY <1>3, <1>12
  <2> QED BY <1>2, <1>4, <1>5, <1>9, <1>11, <1>12, <2>1, <2>2, OwnStep
<1>13. CASE \E i \in DOMAIN registry :
              /\ i < Len(registry)
              /\ refs[registry[i + 1]] < MaxRefs
              /\ refs' = NextRef(registry[i + 1])
              /\ cursor' = [cursor EXCEPT ![t] = registry[i + 1]]
  <2>1. PICK i \in DOMAIN registry :
              /\ i < Len(registry)
              /\ refs[registry[i + 1]] < MaxRefs
              /\ refs' = NextRef(registry[i + 1])
              /\ cursor' = [cursor EXCEPT ![t] = registry[i + 1]]
    BY <1>13
  <2>2. PICK ntp : ntp = registry[i + 1]
    OBVIOUS
  <2>3. ntp \in Threads /\ ntp \in ToSet(registry)
    <3>1. DOMAIN registry = 1 .. Len(registry) /\ Len(registry) \in Nat
      BY <1>3
    <3>2. i + 1 \in DOMAIN registry
      BY <2>1, <3>1
    <3> QED BY <1>3, <2>2, <3>2 DEF ToSet
  <2>4. refs' = [refs EXCEPT ![ntp] = @ + 1] /\ refs[ntp] < MaxRefs
        /\ cursor' = [cursor EXCEPT ![t] = ntp]
    BY <2>1, <2>2 DEF NextRef
  <2>5. \A q \in Threads : refs'[q] = IF q = ntp THEN refs[q] + 1 ELSE refs[q]
    BY <1>3, <2>3, <2>4
  <2>6. CountBalance(refs, refs', held[t], H, tp, cursor[t], ntp, op[t], Release(tp))
    BY <1>1, <1>3, <1>6, <1>7, <1>8, <1>10, <2>5 DEF CountBalance, One
  <2>7. refs' \in [Threads -> 0 .. MaxRefs]
    BY <1>3, <2>3, <2>4, LifeAssumption
  <2>8. \A q \in Threads \ ToSet(registry) : refs'[q] = refs[q]
    BY <2>3, <2>5
  <2>9. ntp \in Threads \union {NoThread} /\ cursor' = [cursor EXCEPT ![t] = ntp]
    BY <2>3, <2>4
  <2> QED BY <1>2, <1>4, <1>5, <1>9, <1>11, <2>6, <2>7, <2>8, <2>9, OwnStep
<1>14. \/ cursor' = [cursor EXCEPT ![t] = NoThread] /\ UNCHANGED refs
       \/ \E i \in DOMAIN registry :
              /\ i < Len(registry)
              /\ refs[registry[i + 1]] < MaxRefs
              /\ refs' = NextRef(registry[i + 1])
              /\ cursor' = [cursor EXCEPT ![t] = registry[i + 1]]
  BY <1>1 DEF chRegNextThread
<1> QED BY <1>12, <1>13, <1>14

LEMMA FindAct ==
    ASSUME IInv, NEW c \in Cores, FindThread(c)
    PROVE  IInv'
<1>1. PICK t, a : t = k.current[c] /\ a = cursor[t]
  OBVIOUS
<1>2. Runs(c, t) /\ op[t].op = "none"
  BY <1>1, CallerRuns DEF FindThread, Caller
<1>3. /\ op \in [Threads -> Calls] /\ held \in Holds /\ cursor \in Scans /\ t \in Threads
      /\ refs \in [Threads -> 0 .. MaxRefs] /\ refs \in [Threads -> Nat]
  BY <1>2, TypeParts DEF IInv, Runs
<1>4. /\ a \in Threads /\ a \notin held[t]
      /\ held' = [held EXCEPT ![t] = @ \union {a}]
      /\ cursor' = [cursor EXCEPT ![t] = NoThread]
      /\ UNCHANGED <<k, refs, registry, waiting, dispose, op, memfree, stacks>>
  BY <1>1 DEF FindThread, UserThreads, mem
<1>5. op[t] = NoOp /\ op = [op EXCEPT ![t] = NoOp]
  BY <1>2, <1>3, NoCall
<1>6. NoThread \notin Threads /\ \A q \in Threads : NoOp # Release(q)
  BY <1>3, CallTypes
<1>7. PICK H : H = held[t] \union {a}
  OBVIOUS
<1>8. H \in SUBSET Threads /\ held' = [held EXCEPT ![t] = H] /\ H \ {a} = held[t] \ {a}
  BY <1>3, <1>4, <1>7 DEF Holds
<1>9. CountBalance(refs, refs', held[t], H, a, cursor[t], NoThread, op[t], NoOp)
  BY <1>1, <1>3, <1>4, <1>5, <1>6, <1>7 DEF CountBalance, One
<1>10. refs' \in [Threads -> 0 .. MaxRefs] /\ \A q \in Threads \ ToSet(registry) : refs'[q] = refs[q]
  BY <1>3, <1>4
<1>11. op' = [op EXCEPT ![t] = NoOp] /\ op[t].op \in {"none", "sync", "wait"}
       /\ UNCHANGED <<k, registry, waiting, dispose, memfree, stacks>>
  BY <1>2, <1>4, <1>5
<1>12. cursor' = [cursor EXCEPT ![t] = NoThread] /\ a \in Threads
  BY <1>4
<1> QED BY <1>2, <1>8, <1>9, <1>10, <1>11, <1>12, OwnStep

\* The end of chThdSync() and chThdWait(): the reference is kept, or about to
\* be released.
LEMMA SyncDoneStep ==
    ASSUME IInv, NEW c \in Cores, NEW t, Runs(c, t), op[t].op \in {"none", "sync", "wait"},
           NEW tp \in held[t], NEW w \in BOOLEAN, SyncDone(t, tp, w),
           UNCHANGED <<k, refs, registry, waiting, dispose, cursor, memfree, stacks>>
    PROVE  IInv'
<1>1. /\ op \in [Threads -> Calls] /\ held \in Holds /\ cursor \in Scans /\ t \in Threads
      /\ refs \in [Threads -> 0 .. MaxRefs] /\ refs \in [Threads -> Nat]
  BY TypeParts DEF IInv, Runs
<1>2. tp \in Threads
  BY <1>1 DEF Holds
<1>3. PICK m : m = cursor[t]
  OBVIOUS
<1>4. m \in Threads \union {NoThread} /\ cursor' = [cursor EXCEPT ![t] = m]
  BY <1>1, <1>3 DEF Scans
<1>5. \A q \in Threads : op[t] # Release(q) /\ NoOp # Release(q) /\ (Release(tp) = Release(q) <=> tp = q)
  BY DEF Release, NoOp
<1>6. refs' \in [Threads -> 0 .. MaxRefs] /\ \A q \in Threads \ ToSet(registry) : refs'[q] = refs[q]
  BY <1>1
<1>7. UNCHANGED <<k, registry, waiting, dispose, memfree, stacks>>
  OBVIOUS
<1>8. CASE w
  <2>1. op' = [op EXCEPT ![t] = Release(tp)] /\ held' = [held EXCEPT ![t] = @ \ {tp}]
    BY <1>8 DEF SyncDone, Goto, Release
  <2>2. PICK H : H = held[t] \ {tp}
    OBVIOUS
  <2>3. H \in SUBSET Threads /\ held' = [held EXCEPT ![t] = H] /\ H \ {tp} = held[t] \ {tp}
    BY <1>1, <2>1, <2>2 DEF Holds
  <2>4. CountBalance(refs, refs', held[t], H, tp, cursor[t], m, op[t], Release(tp))
    BY <1>1, <1>3, <1>5, <2>2 DEF CountBalance, One
  <2>5. op' = [op EXCEPT ![t] = Release(tp)] /\ \E x \in Threads : Release(tp) = Release(x)
    BY <1>2, <2>1
  <2> QED BY <1>2, <1>4, <1>6, <1>7, <2>3, <2>4, <2>5, OwnStep
<1>9. CASE ~ w
  <2>1. op' = [op EXCEPT ![t] = NoOp] /\ held' = held
    BY <1>9 DEF SyncDone, Finish
  <2>2. PICK H : H = held[t]
    OBVIOUS
  <2>3. H \in SUBSET Threads /\ held' = [held EXCEPT ![t] = H] /\ H \ {tp} = held[t] \ {tp}
    BY <1>1, <2>1, <2>2 DEF Holds
  <2>4. CountBalance(refs, refs', held[t], H, tp, cursor[t], m, op[t], NoOp)
    BY <1>1, <1>3, <1>5, <2>2 DEF CountBalance, One
  <2>5. op' = [op EXCEPT ![t] = NoOp]
    BY <2>1
  <2> QED BY <1>2, <1>4, <1>6, <1>7, <2>3, <2>4, <2>5, OwnStep
<1> QED BY <1>8, <1>9

LEMMA SyncReturnAct ==
    ASSUME IInv, NEW c \in Cores, SyncReturn(c)
    PROVE  IInv'
<1>1. PICK t, tp : t = k.current[c] /\ tp = op[t].tp
  OBVIOUS
<1>2. op[t].op \in {"sync", "wait"}
  BY <1>1 DEF SyncReturn, Resuming
<1>3. Runs(c, t)
  BY <1>1, <1>2, RunningThread
<1>4. tp \in held[t]
  <2>1. t \in Threads
    BY <1>3 DEF Runs
  <2> QED BY <1>1, <1>2, <2>1 DEF IInv, KernelPart, OpsOK
<1>5. PICK w \in BOOLEAN : w = (op[t].op = "wait")
  OBVIOUS
<1>6. SyncDone(t, tp, w)
  BY <1>1, <1>5 DEF SyncReturn
<1>7. UNCHANGED <<k, refs, registry, waiting, dispose, cursor, memfree, stacks>>
  BY DEF SyncReturn, mem
<1> QED BY <1>2, <1>3, <1>4, <1>6, <1>7, SyncDoneStep

-----------------------------------------------------------------------------
(* The actions on memory                                                     *)

LEMMA AllocObjectAct ==
    ASSUME IInv, NEW c \in Cores, NEW tp \in Dynamic, NEW w \in {"create", "spawn"},
           AllocObject(c, tp, w)
    PROVE  IInv'
<1>1. PICK t : t = k.current[c]
  OBVIOUS
<1>2. Runs(c, t) /\ op[t].op = "none"
  BY <1>1, CallerRuns DEF AllocObject, Caller
<1>3. op \in [Threads -> Calls] /\ t \in Threads /\ memfree \subseteq Dynamic /\ stacks \in Nat
  BY <1>2, TypeParts DEF IInv, Runs, TypeOK
<1>4. tp \in Threads
  BY LifeAssumption DEF UserThreads
<1>5. PICK n : n = [op |-> w, tp |-> tp]
  OBVIOUS
<1>6. n \in Calls /\ n.op = w /\ n.tp = tp
  BY <1>4, <1>5 DEF Calls, Ops
<1>7. /\ tp \in memfree /\ memfree' = memfree \ {tp} /\ op' = [op EXCEPT ![t] = n]
      /\ UNCHANGED <<k, refs, registry, waiting, dispose, held, cursor>> /\ stacks' = stacks
  BY <1>1, <1>5 DEF AllocObject, Goto
<1>8. MemoryBalance(op[t], n, memfree, memfree', registry, registry)
  <2>1. \A q : ~ Handles(op[t], q) /\ (Handles(n, q) <=> q = tp)
    BY <1>2, <1>6 DEF Handles
  <2> QED BY <1>7, <2>1 DEF MemoryBalance, One
<1>9. StackBalance(op[t], n, t, registry, dispose, stacks, registry, dispose, stacks')
  BY <1>2, <1>3, <1>6, <1>7 DEF StackBalance, One
<1>10. memfree' \in SUBSET Dynamic /\ stacks' \in Nat
  BY <1>3, <1>7
<1>11. /\ n.op \notin {"sync", "wait", "exit", "release"} /\ op[t].op # "release"
       /\ n.op = "dispose" => n.tp \notin Dynamic
       /\ n.op \in {"create", "spawn", "spawned", "freeobj"} => n.tp \in Dynamic
  BY <1>2, <1>6
<1> QED BY <1>2, <1>6, <1>7, <1>8, <1>9, <1>10, <1>11, AllocStep

\* What a thread handles.
LEMMA HandledObject ==
    ASSUME IInv, NEW c \in Cores, NEW t, Runs(c, t), NEW tp, tp = op[t].tp,
           op[t].op \in {"create", "spawn", "spawned", "dispose", "freeobj"}
    PROVE  /\ tp \in Threads /\ (op[t].op # "dispose" => tp \in Dynamic)
           /\ \A q : Handles(op[t], q) <=> q = tp
           /\ tp \in Dynamic => tp \notin memfree /\ tp \notin ToSet(registry)
           /\ dispose[tp] # "none" => tp \in Dynamic
<1>1. op[t] \in Calls /\ t \in Threads
  BY TypeParts DEF IInv, Runs
<1>2. tp \in Threads
  BY <1>1 DEF Calls, Ops, NoOp
<1>3. MemoryOK(registry, memfree, op) /\ DisposeOK(registry, dispose, op)
  BY DEF IInv, BookPart
<1>4. Handles(op[t], tp)
  BY DEF Handles
<1>5. tp \in Dynamic => tp \notin memfree /\ tp \notin ToSet(registry)
  BY <1>1, <1>3, <1>4, HandlerAlone
<1>6. \A q : Handles(op[t], q) <=> q = tp
  BY DEF Handles
<1>7. op[t].op # "dispose" => tp \in Dynamic
  BY <1>1, <1>3 DEF DisposeOK
<1>8. dispose[tp] # "none" => tp \in Dynamic
  BY <1>2, <1>3 DEF DisposeOK
<1> QED BY <1>2, <1>5, <1>6, <1>7, <1>8

LEMMA AllocStackAct ==
    ASSUME IInv, NEW c \in Cores, AllocStack(c)
    PROVE  IInv'
<1>1. PICK t, tp : t = k.current[c] /\ tp = op[t].tp
  OBVIOUS
<1>2. Runs(c, t) /\ op[t].op = "spawn"
  BY <1>1, CallerRuns DEF AllocStack
<1>3. op \in [Threads -> Calls] /\ t \in Threads /\ memfree \subseteq Dynamic /\ stacks \in Nat
  BY <1>2, TypeParts DEF IInv, Runs, TypeOK
<1>4. tp \in Threads /\ tp \in Dynamic /\ tp \notin memfree /\ \A q : Handles(op[t], q) <=> q = tp
  BY <1>1, <1>2, HandledObject
<1>5. UNCHANGED <<k, refs, registry, waiting, dispose, held, cursor>>
  BY DEF AllocStack
<1>6. CASE stacks > 0 /\ stacks' = stacks - 1 /\ Goto(t, "spawned", tp) /\ UNCHANGED memfree
  <2>1. PICK n : n = [op |-> "spawned", tp |-> tp]
    OBVIOUS
  <2>2. n \in Calls /\ n.op = "spawned" /\ n.tp = tp /\ op' = [op EXCEPT ![t] = n]
    BY <1>4, <1>6, <2>1 DEF Calls, Ops, Goto
  <2>3. \A q : Handles(n, q) <=> q = tp
    BY <2>2 DEF Handles
  <2>4. MemoryBalance(op[t], n, memfree, memfree', registry, registry)
    BY <1>4, <1>6, <2>3 DEF MemoryBalance, One
  <2>5. StackBalance(op[t], n, t, registry, dispose, stacks, registry, dispose, stacks')
    BY <1>2, <1>3, <1>6, <2>2 DEF StackBalance, One
  <2>6. memfree' \in SUBSET Dynamic /\ stacks' \in Nat
    BY <1>3, <1>6
  <2>7. /\ n.op \notin {"sync", "wait", "exit", "release"} /\ op[t].op # "release"
        /\ n.op = "dispose" => n.tp \notin Dynamic
        /\ n.op \in {"create", "spawn", "spawned", "freeobj"} => n.tp \in Dynamic
    BY <1>2, <1>4, <2>2
  <2> QED BY <1>2, <1>5, <2>2, <2>4, <2>5, <2>6, <2>7, AllocStep
<1>7. CASE memfree' = memfree \union {tp} /\ Finish(t) /\ UNCHANGED stacks
  <2>2. NoOp \in Calls /\ NoOp.op = "none" /\ op' = [op EXCEPT ![t] = NoOp]
    BY <1>7 DEF Calls, NoOp, Finish
  <2>3. \A q : ~ Handles(NoOp, q)
    BY <2>2 DEF Handles
  <2>4. MemoryBalance(op[t], NoOp, memfree, memfree', registry, registry)
    BY <1>4, <1>7, <2>3 DEF MemoryBalance, One
  <2>5. StackBalance(op[t], NoOp, t, registry, dispose, stacks, registry, dispose, stacks')
    BY <1>2, <1>3, <1>7, <2>2 DEF StackBalance, One
  <2>6. memfree' \in SUBSET Dynamic /\ stacks' \in Nat
    BY <1>3, <1>4, <1>7
  <2>7. /\ NoOp.op \notin {"sync", "wait", "exit", "release"} /\ op[t].op # "release"
        /\ NoOp.op = "dispose" => NoOp.tp \notin Dynamic
        /\ NoOp.op \in {"create", "spawn", "spawned", "freeobj"} => NoOp.tp \in Dynamic
    BY <1>2, <2>2
  <2> QED BY <1>2, <1>5, <2>2, <2>4, <2>5, <2>6, <2>7, AllocStep
<1> QED BY <1>1, <1>6, <1>7 DEF AllocStack

\* The object goes back to its allocator.
LEMMA FreeStep ==
    ASSUME IInv, NEW c \in Cores, NEW t, Runs(c, t), NEW tp \in Dynamic, tp = op[t].tp,
           op[t].op = "freeobj" \/ (op[t].op = "dispose" /\ dispose[tp] = "free"),
           memfree' = memfree \union {tp}, Finish(t),
           UNCHANGED <<k, refs, registry, waiting, dispose, stacks, held, cursor>>
    PROVE  IInv'
<1>3. op \in [Threads -> Calls] /\ t \in Threads /\ memfree \subseteq Dynamic /\ stacks \in Nat
  BY TypeParts DEF IInv, Runs, TypeOK
<1>4. op[t].op \in {"create", "spawn", "spawned", "dispose", "freeobj"}
  OBVIOUS
<1>5. tp \notin memfree /\ \A q : Handles(op[t], q) <=> q = tp
  BY <1>4, HandledObject
<1>12. NoOp \in Calls /\ NoOp.op = "none" /\ op' = [op EXCEPT ![t] = NoOp]
  BY DEF Calls, NoOp, Finish
<1>13. \A q : ~ Handles(NoOp, q)
  BY <1>12 DEF Handles
<1>14. MemoryBalance(op[t], NoOp, memfree, memfree', registry, registry)
  BY <1>5, <1>13 DEF MemoryBalance, One
<1>15. StackBalance(op[t], NoOp, t, registry, dispose, stacks, registry, dispose, stacks')
  BY <1>3, <1>12 DEF StackBalance, One
<1>16. memfree' \in SUBSET Dynamic /\ stacks' \in Nat
  BY <1>3
<1>17. /\ NoOp.op \notin {"sync", "wait", "exit", "release"} /\ op[t].op # "release"
       /\ NoOp.op = "dispose" => NoOp.tp \notin Dynamic
       /\ NoOp.op \in {"create", "spawn", "spawned", "freeobj"} => NoOp.tp \in Dynamic
  BY <1>12
<1>18. UNCHANGED <<k, refs, registry, waiting, dispose, held, cursor>>
  OBVIOUS
<1> QED BY <1>12, <1>14, <1>15, <1>16, <1>17, <1>18, AllocStep

LEMMA FreeObjectAct ==
    ASSUME IInv, NEW c \in Cores, FreeObject(c)
    PROVE  IInv'
<1>1. PICK t, tp : t = k.current[c] /\ tp = op[t].tp
  OBVIOUS
<1>2. Runs(c, t) /\ op[t].op = "freeobj"
  BY <1>1, CallerRuns DEF FreeObject
<1>3. tp \in Dynamic
  BY <1>1, <1>2, HandledObject
<1>4. /\ memfree' = memfree \union {tp} /\ Finish(t)
      /\ UNCHANGED <<k, refs, registry, waiting, dispose, stacks, held, cursor>>
  BY <1>1 DEF FreeObject
<1> QED BY <1>1, <1>2, <1>3, <1>4, FreeStep

LEMMA DisposeAct ==
    ASSUME IInv, NEW c \in Cores, Dispose(c)
    PROVE  IInv'
<1>1. PICK t, tp : t = k.current[c] /\ tp = op[t].tp
  OBVIOUS
<1>2. Runs(c, t) /\ op[t].op = "dispose"
  BY <1>1, CallerRuns DEF Dispose
<1>3. op \in [Threads -> Calls] /\ t \in Threads /\ memfree \subseteq Dynamic /\ stacks \in Nat
  BY <1>2, TypeParts DEF IInv, Runs, TypeOK
<1>4. /\ tp \in Threads /\ \A q : Handles(op[t], q) <=> q = tp
      /\ dispose[tp] # "none" => tp \in Dynamic
  BY <1>1, <1>2, HandledObject
<1>5. UNCHANGED <<k, refs, registry, waiting, dispose, held, cursor>>
  BY DEF Dispose
<1>6. CASE dispose[tp] = "none" /\ Finish(t) /\ UNCHANGED mem
  <2>1. tp \notin Dynamic
    BY <1>1, <1>2, <1>3, <1>6 DEF IInv, BookPart, DisposeOK
  <2>2. NoOp \in Calls /\ NoOp.op = "none" /\ op' = [op EXCEPT ![t] = NoOp]
    BY <1>6 DEF Calls, NoOp, Finish
  <2>3. \A q : ~ Handles(NoOp, q)
    BY <2>2 DEF Handles
  <2>4. MemoryBalance(op[t], NoOp, memfree, memfree', registry, registry)
    BY <1>4, <1>6, <2>1, <2>3 DEF MemoryBalance, One, mem
  <2>5. StackBalance(op[t], NoOp, t, registry, dispose, stacks, registry, dispose, stacks')
    BY <1>1, <1>2, <1>3, <1>6, <2>2 DEF StackBalance, One, mem
  <2>6. memfree' \in SUBSET Dynamic /\ stacks' \in Nat
    BY <1>3, <1>6 DEF mem
  <2>7. /\ NoOp.op \notin {"sync", "wait", "exit", "release"} /\ op[t].op # "release"
        /\ NoOp.op = "dispose" => NoOp.tp \notin Dynamic
        /\ NoOp.op \in {"create", "spawn", "spawned", "freeobj"} => NoOp.tp \in Dynamic
    BY <1>2, <2>2
  <2> QED BY <1>2, <1>5, <2>2, <2>4, <2>5, <2>6, <2>7, AllocStep
<1>7. CASE /\ dispose[tp] = "free" /\ memfree' = memfree \union {tp} /\ Finish(t)
           /\ UNCHANGED stacks
  <2>1. tp \in Dynamic
    BY <1>4, <1>7
  <2>2. /\ memfree' = memfree \union {tp} /\ Finish(t)
        /\ UNCHANGED <<k, refs, registry, waiting, dispose, stacks, held, cursor>>
    BY <1>5, <1>7
  <2>3. op[t].op = "freeobj" \/ (op[t].op = "dispose" /\ dispose[tp] = "free")
    BY <1>2, <1>7
  <2> QED BY <1>1, <1>2, <2>1, <2>2, <2>3, FreeStep
<1>8. CASE /\ dispose[tp] = "spawnfree" /\ stacks' = stacks + 1 /\ Goto(t, "freeobj", tp)
           /\ UNCHANGED memfree
  <2>1. PICK n : n = [op |-> "freeobj", tp |-> tp]
    OBVIOUS
  <2>2. n \in Calls /\ n.op = "freeobj" /\ n.tp = tp /\ op' = [op EXCEPT ![t] = n]
    BY <1>4, <1>8, <2>1 DEF Calls, Ops, Goto
  <2>3. \A q : Handles(n, q) <=> q = tp
    BY <2>2 DEF Handles
  <2>4. MemoryBalance(op[t], n, memfree, memfree', registry, registry)
    BY <1>4, <1>8, <2>3 DEF MemoryBalance, One
  <2>5. StackBalance(op[t], n, t, registry, dispose, stacks, registry, dispose, stacks')
    BY <1>1, <1>2, <1>3, <1>8, <2>2 DEF StackBalance, One
  <2>6. memfree' \in SUBSET Dynamic /\ stacks' \in Nat
    BY <1>3, <1>8
  <2>7. /\ n.op \notin {"sync", "wait", "exit", "release"} /\ op[t].op # "release"
        /\ n.op = "dispose" => n.tp \notin Dynamic
        /\ n.op \in {"create", "spawn", "spawned", "freeobj"} => n.tp \in Dynamic
    BY <1>2, <1>4, <1>8, <2>2
  <2> QED BY <1>2, <1>5, <2>2, <2>4, <2>5, <2>6, <2>7, AllocStep
<1> QED BY <1>1, <1>6, <1>7, <1>8 DEF Dispose

-----------------------------------------------------------------------------
(* The actions of the kernel: start, exit, synchronisation, interrupts       *)

\* A step that moves neither references nor memory.
LEMMA KernelStep ==
    ASSUME IInv, KernelPart(k', waiting', op', held', cursor'), waiting' \in [Threads -> Seq(Threads)],
           UNCHANGED <<refs, registry, dispose, memfree, stacks, held, cursor>>,
           \/ UNCHANGED op
           \/ \E t \in Threads, n \in Calls :
                 /\ Plain(n) /\ Plain(op[t]) /\ op' = [op EXCEPT ![t] = n],
           \A q \in Threads \ ToSet(registry) : k'.state[q] = "FINAL"
    PROVE  IInv'
<1>1. op \in [Threads -> Calls]
  BY TypeParts DEF IInv
<1>2. k' \in KernelType
  <2>1. PICK r, o : r = k' /\ o = op'
    OBVIOUS
  <2>2. Sound(r, Busy(r, o))
    BY <2>1 DEF KernelPart
  <2> QED BY <2>1, <2>2, SoundFacts
<1>3. /\ Counted(refs, held, cursor, op) /\ RegistryOK(k, refs, registry)
      /\ MemoryBooks(registry, memfree, dispose, stacks, op)
  BY DEF IInv, BookPart, MemoryBooks
<1>4. /\ op' \in [Threads -> Calls] /\ Counted(refs, held, cursor, op')
      /\ MemoryBooks(registry, memfree, dispose, stacks, op')
  <2>1. CASE UNCHANGED op
    BY <1>1, <1>3, <2>1
  <2>2. CASE \E t \in Threads, n \in Calls :
                /\ Plain(n) /\ Plain(op[t]) /\ op' = [op EXCEPT ![t] = n]
    <3>1. PICK t \in Threads, n \in Calls :
                /\ Plain(n) /\ Plain(op[t]) /\ op' = [op EXCEPT ![t] = n]
      BY <2>2
    <3>2. PICK p : p = op'
      OBVIOUS
    <3>3. p = [op EXCEPT ![t] = n] /\ p[t] = n /\ \A u \in Threads \ {t} : p[u] = op[u]
      BY <1>1, <3>1, <3>2
    <3>4. n.op # "release" /\ op[t].op # "release" /\ Empty(n) /\ Empty(op[t])
      BY <3>1 DEF Plain, Empty
    <3>5. Counted(refs, held, cursor, p)
      <4>1. p[t].op # "release" /\ op[t].op # "release" /\ \A u \in Threads \ {t} : p[u] = op[u]
        BY <3>3, <3>4
      <4> QED BY <1>3, <4>1, CountedSame
    <3>6. MemoryBooks(registry, memfree, dispose, stacks, p)
      BY <1>1, <1>3, <3>3, <3>4, MemorySame
    <3> QED BY <1>1, <3>1, <3>2, <3>5, <3>6
  <2> QED BY <2>1, <2>2
<1>5. TypeOK'
  BY <1>2, <1>4 DEF IInv, TypeOK, Calls
<1>6. RegistryOK(k', refs, registry)
  BY <1>3 DEF RegistryOK
<1>7. BookPart(k', refs', registry', dispose', memfree', stacks', op', held', cursor')
  BY <1>3, <1>4, <1>6 DEF BookPart, MemoryBooks
<1> QED BY <1>5, <1>7 DEF IInv

\* What an interrupt finds outside the critical sections.
LEMMA UnlockedFacts ==
    ASSUME IInv, Unlocked
    PROVE  /\ KernelPart(k, waiting, op, held, cursor) /\ Sound(k, {})
           /\ \A u \in Threads : op[u].op # "exit"
           /\ held \in Holds /\ waiting \in [Threads -> Seq(Threads)]
<1>1. KernelPart(k, waiting, op, held, cursor)
  BY DEF IInv
<1>2. ExitOK(k, op, held, cursor) /\ Sound(k, Busy(k, op))
  BY <1>1 DEF KernelPart
<1>3. \A c \in Cores : op[k.current[c]].op # "exit"
  BY DEF Unlocked, Exiting
<1>4. \A u \in Threads : op[u].op # "exit"
  BY <1>2, <1>3, NobodyExits
<1>5. Sound(k, {})
  BY <1>2, <1>4, NobodyBusy
<1> QED BY <1>1, <1>4, <1>5, TypeParts DEF IInv, TypeOK

\* The threads that are not registered stay dead.
LEMMA StillDead ==
    ASSUME IInv, NEW r, NEW Y, Others(k, r, Y), \A u \in Threads \intersect Y : u \in ToSet(registry)
    PROVE  \A q \in Threads \ ToSet(registry) : r.state[q] = "FINAL"
<1>1. \A q \in Threads \ ToSet(registry) : k.state[q] = "FINAL"
  BY DEF IInv, BookPart, RegistryOK
<1> QED BY <1>1 DEF Others

\* Interrupts that start no thread.
LEMMA IrqAct ==
    ASSUME IInv, NEW c \in Cores, Notified(c) \/ ExitIsr(c)
    PROVE  IInv'
<1>1. PICK r : r = k'
  OBVIOUS
<1>2. Unlocked /\ UNCHANGED <<refs, registry, waiting, dispose, op, held, cursor, memfree, stacks>>
  BY DEF Notified, ExitIsr, life, mem
<1>3. /\ KernelPart(k, waiting, op, held, cursor) /\ Sound(k, {})
      /\ \A u \in Threads : op[u].op # "exit"
      /\ held \in Holds /\ waiting \in [Threads -> Seq(Threads)]
  BY <1>2, UnlockedFacts
<1>4. r = NotifyIrq(k, c) \/ (IsrExitEnabled(k, c) /\ r = IsrExit(k, c))
  BY <1>1 DEF Notified, ExitIsr
<1>5. Sound(r, {}) /\ Still(k, r)
  BY <1>3, <1>4, RunIrq
<1>6. KernelPart(r, waiting, op, held, cursor)
  BY <1>3, <1>5, StillParts
<1>7. \A q \in Threads \ ToSet(registry) : r.state[q] = "FINAL"
  <2>1. Others(k, r, {})
    BY <1>5 DEF Still
  <2> QED BY <2>1, StillDead
<1> QED BY <1>1, <1>2, <1>3, <1>6, <1>7, KernelStep

\* A thread is started, by a thread or by an interrupt.
LEMMA StartStep ==
    ASSUME IInv, Unlocked, NEW tp \in Threads, k.state[tp] = "WTSTART", NEW r, r = k',
           Sound(r, {}), Roused(k, r, tp, "OK"),
           UNCHANGED <<refs, registry, waiting, dispose, op, held, cursor, memfree, stacks>>
    PROVE  IInv'
<1>1. /\ KernelPart(k, waiting, op, held, cursor)
      /\ \A u \in Threads : op[u].op # "exit"
      /\ held \in Holds /\ waiting \in [Threads -> Seq(Threads)]
  BY UnlockedFacts
<1>2. KernelPart(r, waiting, op, held, cursor)
  BY <1>1, StartParts
<1>3. \A q \in Threads \ ToSet(registry) : r.state[q] = "FINAL"
  <2>1. tp \in ToSet(registry)
    BY DEF IInv, BookPart, RegistryOK
  <2>2. Others(k, r, {tp}) /\ \A u \in Threads \intersect {tp} : u \in ToSet(registry)
    BY <2>1 DEF Roused, Woken
  <2> QED BY <2>2, StillDead
<1> QED BY <1>1, <1>2, <1>3, KernelStep

LEMMA StartAct ==
    ASSUME IInv, NEW c \in Cores, NEW tp \in UserThreads, chThdStart(c, tp)
    PROVE  IInv'
<1>1. PICK r : r = k'
  OBVIOUS
<1>2. /\ Unlocked /\ c \notin k.isr /\ k.state[tp] = "WTSTART" /\ r = chSchWakeupS(k, c, tp, "OK")
      /\ UNCHANGED <<refs, registry, waiting, dispose, op, held, cursor, memfree, stacks>>
  BY <1>1 DEF chThdStart, Caller, At, InThread, life, mem
<1>3. tp \in Threads /\ "OK" \in Messages /\ k.state[tp] \notin {"READY", "CURRENT"}
  BY <1>2, KernelAssumption DEF UserThreads
<1>4. Sound(k, {})
  BY <1>2, UnlockedFacts
<1>5. Sound(r, {}) /\ Roused(k, r, tp, "OK")
  BY <1>2, <1>3, <1>4, RunWakeup
<1> QED BY <1>1, <1>2, <1>3, <1>5, StartStep

LEMMA StartIAct ==
    ASSUME IInv, NEW c \in Cores, NEW tp \in UserThreads, chThdStartI(c, tp)
    PROVE  IInv'
<1>1. PICK r : r = k'
  OBVIOUS
<1>2. /\ Unlocked /\ k.state[tp] = "WTSTART" /\ r = ReadyWithMsg(EnterIsr(k, c), c, tp, "OK")
      /\ UNCHANGED <<refs, registry, waiting, dispose, op, held, cursor, memfree, stacks>>
  BY <1>1 DEF chThdStartI, life, mem
<1>3. tp \in Threads /\ "OK" \in Messages /\ k.state[tp] \notin {"READY", "CURRENT"}
  BY <1>2, KernelAssumption DEF UserThreads
<1>4. Sound(k, {})
  BY <1>2, UnlockedFacts
<1>5. Sound(r, {}) /\ Roused(k, r, tp, "OK")
  BY <1>2, <1>3, <1>4, RunReadyI
<1> QED BY <1>1, <1>2, <1>3, <1>5, StartStep

\* The states a thread can go to sleep in.
LEMMA SleepStates == {"WTEXIT", "FINAL"} \subseteq TimedStates \ {"READY"}
BY DEF TimedStates, States

\* The running thread waits for the exit of tp.
LEMMA AwaitStep ==
    ASSUME IInv, NEW c \in Cores, NEW t, Runs(c, t), InThread(k, c), op[t].op = "none",
           NEW tp \in held[t], tp # t, k.state[tp] # "FINAL", NEW w \in {"sync", "wait"},
           waiting' = [waiting EXCEPT ![tp] = <<t>> \o @], Goto(t, w, tp),
           k' = chSchGoSleepS(k, c, "WTEXIT"),
           UNCHANGED <<refs, registry, dispose, held, cursor, memfree, stacks>>
    PROVE  IInv'
<1>1. /\ op \in [Threads -> Calls] /\ held \in Holds
  BY TypeParts DEF IInv
<1>2. /\ t \in Threads /\ k.state[t] = "CURRENT" /\ t = k.current[c] /\ Sound(k, {})
      /\ \A u \in Threads : op[u].op # "exit"
      /\ KernelPart(k, waiting, op, held, cursor) /\ t \in ToSet(registry)
  BY DEF IInv, Runs
<1>3. tp \in Threads
  BY <1>1, <1>2 DEF Holds
<1>4. PICK n : n = [op |-> w, tp |-> tp]
  OBVIOUS
<1>5. n \in Calls /\ Plain(n) /\ Plain(op[t]) /\ op' = [op EXCEPT ![t] = n]
  BY <1>3, <1>4 DEF Calls, Ops, Goto, Plain
<1>6. PICK r, p, qv : r = k' /\ p = op' /\ qv = waiting'
  OBVIOUS
<1>7. p[t] = [op |-> w, tp |-> tp] /\ \A u \in Threads \ {t} : p[u] = op[u]
  BY <1>1, <1>2, <1>4, <1>5, <1>6
<1>8. Sound(r, {}) /\ Rested(k, r, t, "WTEXIT") /\ Untimed(k, r)
  <2>1. PICK X : X = {}
    OBVIOUS
  <2>2. Sound(k, X) /\ X \subseteq {c} /\ "WTEXIT" \in TimedStates \ {"READY"}
        /\ r = chSchGoSleepS(k, c, "WTEXIT")
    BY <1>2, <1>6, <2>1, SleepStates
  <2>3. Sound(r, {}) /\ Rested(k, r, k.current[c], "WTEXIT") /\ Untimed(k, r)
    BY <2>2, RunSleepS
  <2> QED BY <1>2, <2>3
<1>9. qv = [waiting EXCEPT ![tp] = <<t>> \o @]
  BY <1>6
<1>10. KernelPart(r, qv, p, held, cursor)
  BY <1>1, <1>2, <1>7, <1>8, <1>9, SleepParts
<1>11. qv \in [Threads -> Seq(Threads)]
  BY <1>10 DEF KernelPart, QueuesExact
<1>12. \A q \in Threads \ ToSet(registry) : r.state[q] = "FINAL"
  <2>1. Others(k, r, {t}) /\ \A u \in Threads \intersect {t} : u \in ToSet(registry)
    BY <1>2, <1>8 DEF Rested, Asleep
  <2> QED BY <2>1, StillDead
<1>13. KernelPart(k', waiting', op', held', cursor')
  BY <1>6, <1>10
<1>14. /\ waiting' \in [Threads -> Seq(Threads)]
       /\ \A q \in Threads \ ToSet(registry) : k'.state[q] = "FINAL"
       /\ \E x \in Threads, y \in Calls :
             /\ Plain(y) /\ Plain(op[x]) /\ op' = [op EXCEPT ![x] = y]
  BY <1>2, <1>5, <1>6, <1>11, <1>12
<1> QED BY <1>13, <1>14, KernelStep

LEMMA SyncAct ==
    ASSUME IInv, NEW c \in Cores, NEW tp \in UserThreads, NEW wait \in BOOLEAN,
           chThdSyncS(c, tp, wait)
    PROVE  IInv'
<1>1. PICK t : t = k.current[c]
  OBVIOUS
<1>2. Runs(c, t) /\ op[t].op = "none" /\ InThread(k, c)
  BY <1>1, CallerRuns DEF chThdSyncS, Caller
<1>3. tp \in held[t] /\ tp # t /\ UNCHANGED <<refs, registry, dispose, cursor, memfree, stacks>>
  BY <1>1 DEF chThdSyncS, mem
<1>4. CASE k.state[tp] = "FINAL" /\ SyncDone(t, tp, wait) /\ UNCHANGED <<k, waiting>>
  BY <1>2, <1>3, <1>4, SyncDoneStep
<1>5. CASE /\ k.state[tp] # "FINAL"
           /\ waiting' = [waiting EXCEPT ![tp] = <<t>> \o @]
           /\ Goto(t, IF wait THEN "wait" ELSE "sync", tp)
           /\ k' = chSchGoSleepS(k, c, "WTEXIT")
           /\ UNCHANGED held
  <2>1. PICK w \in {"sync", "wait"} : w = IF wait THEN "wait" ELSE "sync"
    OBVIOUS
  <2>2. Goto(t, w, tp)
    BY <1>5, <2>1
  <2>3. UNCHANGED <<refs, registry, dispose, held, cursor, memfree, stacks>>
    BY <1>3, <1>5
  <2> QED BY <1>2, <1>3, <1>5, <2>2, <2>3, AwaitStep
<1> QED BY <1>1, <1>4, <1>5 DEF chThdSyncS

LEMMA ExitAct ==
    ASSUME IInv, NEW c \in Cores, chThdExitS(c)
    PROVE  IInv'
<1>1. PICK t : t = k.current[c]
  OBVIOUS
<1>2. Runs(c, t) /\ op[t].op = "none" /\ InThread(k, c)
  BY <1>1, CallerRuns DEF chThdExitS, Caller
<1>3. /\ op \in [Threads -> Calls] /\ held \in Holds /\ waiting \in [Threads -> Seq(Threads)]
  BY TypeParts DEF IInv, TypeOK
<1>4. /\ t \in Threads /\ KernelPart(k, waiting, op, held, cursor) /\ Sound(k, {})
  BY <1>2 DEF IInv, Runs
<1>5. /\ held[t] = {} /\ cursor[t] = NoThread /\ k' = [k EXCEPT !.rdymsg[t] = "EXIT"]
      /\ op' = [op EXCEPT ![t] = [op |-> "exit", tp |-> t]]
      /\ UNCHANGED <<refs, registry, waiting, dispose, held, cursor, memfree, stacks>>
      /\ \A d \in Cores : op[k.current[d]].op \notin {"sync", "wait", "exit"}
  BY <1>1 DEF chThdExitS, Goto, mem, Caller, At, Unlocked, Resuming, Exiting
<1>6. PICK r, p : r = k' /\ p = op'
  OBVIOUS
<1>7. /\ r = [k EXCEPT !.rdymsg[t] = "EXIT"] /\ p = [op EXCEPT ![t] = [op |-> "exit", tp |-> t]]
  BY <1>5, <1>6
<1>8. KernelPart(r, waiting, p, held, cursor)
  BY <1>1, <1>2, <1>3, <1>4, <1>5, <1>7, ExitStartParts
<1>9. [op |-> "exit", tp |-> t] \in Calls /\ Plain([op |-> "exit", tp |-> t]) /\ Plain(op[t])
  BY <1>2, <1>4 DEF Calls, Ops, Plain
<1>10. \A q \in Threads \ ToSet(registry) : k'.state[q] = "FINAL"
  <2>1. k'.state = k.state
    <3>1. k \in KernelType
      BY <1>4, SoundFacts
    <3> QED BY <1>5, <3>1 DEF KernelType
  <2> QED BY <2>1 DEF IInv, BookPart, RegistryOK
<1>11. KernelPart(k', waiting', op', held', cursor')
  BY <1>5, <1>6, <1>8
<1>12. \E x \in Threads, y \in Calls :
             /\ Plain(y) /\ Plain(op[x]) /\ op' = [op EXCEPT ![x] = y]
  BY <1>4, <1>5, <1>9
<1>13. waiting' \in [Threads -> Seq(Threads)]
       /\ UNCHANGED <<refs, registry, dispose, memfree, stacks, held, cursor>>
  BY <1>3, <1>5
<1> QED BY <1>10, <1>11, <1>12, <1>13, KernelStep

LEMMA IterationAct ==
    ASSUME IInv, NEW c \in Cores, ExitIteration(c)
    PROVE  IInv'
<1>1. PICK t : t = k.current[c]
  OBVIOUS
<1>2. /\ op[t].op = "exit" /\ waiting[t] # <<>>
      /\ waiting' = [waiting EXCEPT ![t] = ch_queue_fifo_remove(@)]
      /\ k' = ReadyWithMsg(k, c, Head(waiting[t]), "OK")
      /\ UNCHANGED <<refs, registry, dispose, op, held, cursor, memfree, stacks>>
  BY <1>1 DEF ExitIteration, Exiting, mem
<1>3. held \in Holds /\ KernelPart(k, waiting, op, held, cursor)
  BY TypeParts DEF IInv
<1>4. Leaving(k, op, held, cursor, c, t)
  BY <1>1, <1>2, <1>3, ExitFacts
<1>5. PICK r, hd, q, wt : /\ r = k' /\ hd = Head(waiting[t])
                          /\ q = ch_queue_fifo_remove(waiting[t]) /\ wt = Waited(op)
  OBVIOUS
<1>6. t \in Threads /\ Busy(k, op) = {c}
  BY <1>4 DEF Leaving
<1>7. Sound(k, {c}) /\ QueuesExact(k, waiting, wt, Threads, "WTEXIT", FALSE)
  BY <1>3, <1>5, <1>6 DEF KernelPart
<1>8. wt = [u \in Threads |-> wt[u]] /\ r = ReadyWithMsg(k, c, hd, "OK")
  BY <1>2, <1>5 DEF Waited
<1>9. Iterated(k, waiting, wt, c, t, hd, [waiting EXCEPT ![t] = q], r)
  BY <1>2, <1>5, <1>6, <1>7, <1>8, IterationQueues
<1>10. PICK qv : qv = [waiting EXCEPT ![t] = q]
  OBVIOUS
<1>11. Iterated(k, waiting, Waited(op), c, t, hd, qv, r)
  BY <1>5, <1>9, <1>10
<1>12. KernelPart(r, qv, op, held, cursor)
  BY <1>2, <1>3, <1>4, <1>11, IterationParts
<1>13. waiting' = qv
  BY <1>2, <1>5, <1>10
<1>14. qv \in [Threads -> Seq(Threads)]
  BY <1>12 DEF KernelPart, QueuesExact
<1>15. \A u \in Threads \ ToSet(registry) : r.state[u] = "FINAL"
  <2>1. Others(k, r, {hd}) /\ hd \in Threads /\ k.state[hd] = "WTEXIT"
    BY <1>11 DEF Iterated, Roused, Woken
  <2>2. hd \in ToSet(registry)
    BY <2>1 DEF IInv, BookPart, RegistryOK
  <2>3. \A u \in Threads \intersect {hd} : u \in ToSet(registry)
    BY <2>2
  <2> QED BY <2>1, <2>3, StillDead
<1>16. KernelPart(k', waiting', op', held', cursor')
  BY <1>2, <1>5, <1>12, <1>13
<1>17. /\ waiting' \in [Threads -> Seq(Threads)]
       /\ \A u \in Threads \ ToSet(registry) : k'.state[u] = "FINAL"
       /\ UNCHANGED <<refs, registry, dispose, memfree, stacks, held, cursor, op>>
  BY <1>2, <1>5, <1>13, <1>14, <1>15
<1> QED BY <1>16, <1>17, KernelStep

\* The end of the exit: a thread nobody refers to leaves the registry, unless
\* its memory has to be recovered.
LEMMA ExitEndAct ==
    ASSUME IInv, NEW c \in Cores, ExitEnd(c)
    PROVE  IInv'
<1>1. PICK t : t = k.current[c]
  OBVIOUS
<1>2. /\ op[t].op = "exit" /\ waiting[t] = <<>>
      /\ registry' = IF LeavesAtExit(t) THEN ch_queue_dequeue(registry, t) ELSE registry
      /\ k' = chSchGoSleepS(k, c, "FINAL") /\ op' = [op EXCEPT ![t] = NoOp]
      /\ UNCHANGED <<refs, waiting, dispose, held, cursor, memfree, stacks>>
  BY <1>1 DEF ExitEnd, Exiting, Finish, mem
<1>3. /\ op \in [Threads -> Calls] /\ held \in Holds /\ registry \in Seq(Threads)
      /\ KernelPart(k, waiting, op, held, cursor)
  BY TypeParts DEF IInv
<1>4. Leaving(k, op, held, cursor, c, t)
  BY <1>1, <1>2, <1>3, ExitFacts
<1>5. /\ t \in Threads /\ Busy(k, op) = {c} /\ InThread(k, c) /\ k.state[t] = "CURRENT"
  BY <1>4 DEF Leaving
<1>6. PICK r, p, seg : r = k' /\ p = op' /\ seg = registry'
  OBVIOUS
<1>7. p[t] = NoOp /\ \A u \in Threads \ {t} : p[u] = op[u]
  BY <1>2, <1>3, <1>5, <1>6
<1>8. Sound(r, {}) /\ Rested(k, r, t, "FINAL") /\ Untimed(k, r)
  <2>1. PICK X : X = {c}
    OBVIOUS
  <2>2. Sound(k, X) /\ X \subseteq {c} /\ "FINAL" \in TimedStates \ {"READY"}
        /\ r = chSchGoSleepS(k, c, "FINAL")
    BY <1>2, <1>3, <1>5, <1>6, <2>1, SleepStates DEF KernelPart
  <2>3. Sound(r, {}) /\ Rested(k, r, k.current[c], "FINAL") /\ Untimed(k, r)
    BY <1>5, <2>2, RunSleepS
  <2> QED BY <1>1, <2>3
<1>9. KernelPart(r, waiting, p, held, cursor)
  BY <1>2, <1>3, <1>4, <1>7, <1>8, ExitEndParts
<1>10. /\ Counted(refs, held, cursor, op) /\ RegistryOK(k, refs, registry)
       /\ MemoryBooks(registry, memfree, dispose, stacks, op)
       /\ DisposeOK(registry, dispose, op)
  BY DEF IInv, BookPart, MemoryBooks
<1>11. Counted(refs, held, cursor, p)
  <2>1. p[t].op # "release" /\ op[t].op # "release" /\ \A u \in Threads \ {t} : p[u] = op[u]
    BY <1>2, <1>7 DEF NoOp
  <2> QED BY <1>5, <1>10, <2>1, CountedSame
<1>12. MemoryBooks(registry, memfree, dispose, stacks, p)
  <2>1. Empty(NoOp) /\ Empty(op[t])
    BY <1>2 DEF Empty, NoOp
  <2> QED BY <1>3, <1>5, <1>7, <1>10, <2>1, MemorySame
<1>13. t \in ToSet(registry) /\ NoDuplicates(registry)
  BY <1>5, <1>10 DEF RegistryOK
<1>14. \/ seg = registry
       \/ /\ seg \in Seq(Threads) /\ NoDuplicates(seg) /\ ToSet(seg) = ToSet(registry) \ {t}
          /\ refs[t] = 0 /\ t \notin Dynamic
  <2>1. CASE LeavesAtExit(t)
    <3>1. refs[t] = 0 /\ dispose[t] = "none" /\ seg = ch_queue_dequeue(registry, t)
      BY <1>2, <1>6, <2>1 DEF LeavesAtExit
    <3>2. t \notin Dynamic
      BY <1>10, <1>13, <3>1 DEF DisposeOK
    <3>3. seg \in Seq(Threads) /\ NoDuplicates(seg) /\ ToSet(seg) = ToSet(registry) \ {t}
      BY <1>3, <1>13, <3>1, DequeueSet
    <3> QED BY <3>1, <3>2, <3>3
  <2>2. CASE ~ LeavesAtExit(t)
    BY <1>2, <1>6, <2>2
  <2> QED BY <2>1, <2>2
<1>15. /\ seg \in Seq(Threads) /\ NoDuplicates(seg)
       /\ \A q \in Dynamic : q \in ToSet(seg) <=> q \in ToSet(registry)
       /\ \A q \in Threads \ ToSet(seg) : q \notin ToSet(registry) \/ (q = t /\ refs[t] = 0)
  BY <1>3, <1>13, <1>14
<1>16. RegistryOK(r, refs, seg)
  <2>1. r.state[t] = "FINAL" /\ Others(k, r, {t})
    BY <1>8 DEF Rested, Asleep
  <2>2. \A q \in Threads \ ToSet(registry) : r.state[q] = "FINAL" /\ refs[q] = 0
    BY <1>10, <1>13, <2>1 DEF RegistryOK, Others
  <2> QED BY <1>15, <2>1, <2>2 DEF RegistryOK
<1>17. MemoryBooks(seg, memfree, dispose, stacks, p)
  <2>1. MemoryOK(registry, memfree, p) /\ DisposeOK(registry, dispose, p)
        /\ StacksOK(registry, dispose, p, stacks)
    BY <1>12 DEF MemoryBooks
  <2>2. MemoryOK(seg, memfree, p)
    BY <1>15, <2>1 DEF MemoryOK, One
  <2>3. DisposeOK(seg, dispose, p)
    BY <1>15, <2>1 DEF DisposeOK
  <2>4. InUse(seg, dispose) = InUse(registry, dispose)
    BY <1>15 DEF InUse
  <2>5. StacksOK(seg, dispose, p, stacks)
    BY <2>1, <2>4 DEF StacksOK
  <2> QED BY <2>2, <2>3, <2>5 DEF MemoryBooks
<1>18. TypeOK'
  <2>1. k' \in KernelType
    BY <1>6, <1>8, SoundFacts
  <2>2. op' \in [Threads -> Calls]
    BY <1>2, <1>3, <1>5 DEF Calls
  <2> QED BY <1>2, <1>6, <1>15, <2>1, <2>2 DEF IInv, TypeOK, Calls
<1>19. BookPart(k', refs', registry', dispose', memfree', stacks', op', held', cursor')
  BY <1>2, <1>6, <1>11, <1>16, <1>17 DEF BookPart, MemoryBooks
<1>20. KernelPart(k', waiting', op', held', cursor')
  BY <1>2, <1>6, <1>9
<1> QED BY <1>18, <1>19, <1>20 DEF IInv

-----------------------------------------------------------------------------
(* Creation                                                                  *)

\* The memory of tp, which t is about to create, and the callback it gets.
Creates(t, tp, cb) ==
    \/ tp \in Static /\ op[t].op = "none" /\ cb = "none"
    \/ tp \in Dynamic /\ op[t] = [op |-> "create", tp |-> tp] /\ cb = "free"
    \/ tp \in Dynamic /\ op[t] = [op |-> "spawned", tp |-> tp] /\ cb = "spawnfree"

\* Memory that is not registered is nobody's.
Unborn(tp) ==
    /\ refs[tp] = 0 /\ k.state[tp] = "FINAL" /\ held[tp] = {} /\ cursor[tp] = NoThread
    /\ waiting[tp] = <<>> /\ op[tp] = NoOp /\ \A u \in Threads : tp \notin held[u]

LEMMA UnbornFacts ==
    ASSUME IInv, NEW tp \in Threads, tp \notin ToSet(registry)
    PROVE  Unborn(tp)
<1>1. Counted(refs, held, cursor, op) /\ RegistryOK(k, refs, registry)
      /\ OpsOK(k, op, held) /\ FinalOK(k, held, cursor, waiting)
  BY DEF IInv, BookPart, KernelPart
<1>2. refs[tp] = 0 /\ k.state[tp] = "FINAL"
  BY <1>1 DEF RegistryOK
<1>3. held[tp] = {} /\ cursor[tp] = NoThread /\ waiting[tp] = <<>>
  BY <1>1, <1>2 DEF FinalOK
<1>4. op[tp] = NoOp
  BY <1>1, <1>2 DEF OpsOK
<1>5. ASSUME NEW u \in Threads, tp \in held[u] PROVE FALSE
  BY <1>1, <1>5, OwnedRegistered
<1> QED BY <1>2, <1>3, <1>4, <1>5 DEF Unborn

\* The kernel part of a creation.
LEMMA CreateKernel ==
    ASSUME IInv, NEW c \in Cores, NEW t, Runs(c, t), InThread(k, c), NEW tp \in Threads, Unborn(tp),
           NEW k1, k1 = Newborn(k, tp, "OK"),
           NEW run \in BOOLEAN, NEW r, r = IF run THEN chSchWakeupS(k1, c, tp, "OK") ELSE k1,
           NEW p, p[t] = NoOp, \A u \in Threads \ {t} : p[u] = op[u],
           NEW g \in Holds, g[t] = held[t] \union {tp}, \A u \in Threads \ {t} : g[u] = held[u]
    PROVE  /\ KernelPart(r, waiting, p, g, cursor) /\ r \in KernelType
           /\ \A q \in Threads \ {tp} : k.state[q] = "FINAL" => r.state[q] = "FINAL"
<1>1. /\ op \in [Threads -> Calls] /\ held \in Holds
  BY TypeParts DEF IInv
<1>2. /\ t \in Threads /\ k.state[t] = "CURRENT" /\ Sound(k, {}) /\ \A u \in Threads : op[u].op # "exit"
      /\ KernelPart(k, waiting, op, held, cursor)
  BY DEF IInv, Runs
<1>3. /\ k.state[tp] = "FINAL" /\ (\A u \in Threads : tp \notin held[u]) /\ "OK" \in Messages
  BY KernelAssumption DEF Unborn
<1>4. KernelPart(k1, waiting, op, held, cursor)
  BY <1>1, <1>2, <1>3, NewbornParts
<1>5. /\ Sound(k1, {}) /\ k1.state = [k.state EXCEPT ![tp] = "WTSTART"] /\ k1.isr = k.isr
  <2>1. Pending(k) = {} /\ k.prio = Prio
    BY <1>2 DEF KernelPart
  <2>2. Sound(k, {}) /\ k.state[tp] = "FINAL" /\ "OK" \in Messages
    BY <1>2, <1>3
  <2>3. Sound(k1, {})
    BY <2>1, <2>2, NewbornSound
  <2>4. k \in KernelType
    BY <2>2, SoundFacts
  <2>5. k1.state = [k.state EXCEPT ![tp] = "WTSTART"] /\ k1.isr = k.isr
    BY <2>4 DEF Newborn, KernelType
  <2> QED BY <2>3, <2>5
<1>6. \A u \in Threads : k1.state[u] = IF u = tp THEN "WTSTART" ELSE k.state[u]
  <2>1. k.state \in [Threads -> States]
    BY <1>2, SoundFacts
  <2> QED BY <1>5, <2>1
<1>7. GoesOn(k1, op, p, held, g, cursor, cursor, t)
  <2>1. k1.state[t] = "CURRENT" /\ NoOp.op \notin {"sync", "wait", "exit"}
    BY <1>2, <1>3, <1>6 DEF NoOp
  <2>2. /\ \A u \in Threads \ {t} : held[u] \subseteq g[u]
        /\ \A u \in Threads : k1.state[u] = "FINAL" => g[u] = held[u]
    BY <2>1
  <2> QED BY <1>1, <1>2, <2>1, <2>2 DEF GoesOn
<1>8. KernelPart(k1, waiting, p, g, cursor)
  <2>1. KernelPart(k1, waiting, op, held, cursor) /\ t \in Threads
    BY <1>2, <1>4
  <2> QED BY <1>7, <2>1, QuietParts
<1>9. CASE ~ run
  <2>1. r = k1
    BY <1>9
  <2>2. k1 \in KernelType
    BY <1>5, SoundFacts
  <2> QED BY <1>6, <1>8, <2>1, <2>2
<1>10. CASE run
  <2>1. /\ r = chSchWakeupS(k1, c, tp, "OK") /\ c \notin k1.isr
        /\ k1.state[tp] \notin {"READY", "CURRENT"} /\ k1.state[tp] = "WTSTART"
    BY <1>5, <1>6, <1>10 DEF InThread
  <2>2. Sound(r, {}) /\ Roused(k1, r, tp, "OK")
    BY <1>3, <1>5, <2>1, RunWakeup
  <2>3. \A u \in Threads : p[u].op # "exit"
    BY <1>2 DEF NoOp
  <2>4. KernelPart(r, waiting, p, g, cursor)
    BY <1>8, <2>1, <2>2, <2>3, StartParts
  <2>5. Others(k1, r, {tp})
    BY <2>2 DEF Roused, Woken
  <2>6. r \in KernelType
    BY <2>2, SoundFacts
  <2> QED BY <1>6, <2>4, <2>5, <2>6 DEF Others
<1> QED BY <1>9, <1>10

\* The books of a creation: the memory in the hands of t, or the static one,
\* becomes a registered thread, with the reference of t.
LEMMA CreateBooks ==
    ASSUME IInv, NEW c \in Cores, NEW t, Runs(c, t), NEW tp \in Threads, tp \notin ToSet(registry),
           Unborn(tp), NEW cb, Creates(t, tp, cb),
           NEW seg, ToSet(seg) = ToSet(registry) \union {tp},
           NEW d, d = [dispose EXCEPT ![tp] = cb],
           NEW p, p = [op EXCEPT ![t] = NoOp]
    PROVE  MemoryBooks(seg, memfree, d, stacks, p)
<1>1. /\ op \in [Threads -> Calls] /\ t \in Threads /\ stacks \in Nat
  BY TypeParts DEF IInv, Runs
<1>2. dispose \in [Threads -> {"none", "free", "spawnfree"}]
  BY DEF IInv, TypeOK
<1>3. /\ MemoryOK(registry, memfree, op) /\ DisposeOK(registry, dispose, op)
      /\ StacksOK(registry, dispose, op, stacks)
  BY DEF IInv, BookPart
<1>4. p[t] = NoOp /\ NoOp.op = "none" /\ \A u \in Threads \ {t} : p[u] = op[u]
  BY <1>1 DEF NoOp
<1>5. \A q \in Threads : d[q] = IF q = tp THEN cb ELSE dispose[q]
  BY <1>2
<1>6. tp \notin Dynamic => tp \in Static
  BY DEF Creates
<1>7. Static \intersect Dynamic = {} /\ Dynamic \subseteq Threads
  BY LifeAssumption DEF UserThreads
<1>8. \A q \in Dynamic : Handles(op[t], q) <=> q = tp
  BY <1>7 DEF Handles, Creates
<1>9. \A q \in Dynamic : ~ Handles(NoOp, q)
  BY <1>4 DEF Handles
<1>10. MemoryOK(seg, memfree, p)
  <2>1. MemoryBalance(op[t], NoOp, memfree, memfree, registry, seg)
    BY <1>8, <1>9 DEF MemoryBalance, One
  <2> QED BY <1>1, <1>3, <2>1, MemoryMove
<1>11. \A u \in Threads \ {t} : op[u].op = "dispose" => d[op[u].tp] = dispose[op[u].tp]
  <2> SUFFICES ASSUME NEW u \in Threads \ {t}, op[u].op = "dispose", op[u].tp = tp
               PROVE  d[tp] = dispose[tp]
    <3>1. \A u \in Threads : op[u].op = "dispose" => op[u].tp \in Threads
      BY <1>1 DEF Calls, Ops, NoOp
    <3> QED BY <1>5, <3>1
  <2>1. CASE tp \in Dynamic
    <3>1. Handles(op[t], tp) /\ Handles(op[u], tp)
      BY <1>8, <2>1 DEF Handles
    <3> QED BY <1>1, <1>3, <2>1, <3>1, HandlerAlone
  <2>2. CASE tp \notin Dynamic
    <3>1. cb = "none"
      BY <2>2 DEF Creates
    <3>2. dispose[tp] = "none"
      BY <1>3, <2>2 DEF DisposeOK
    <3> QED BY <1>5, <3>1, <3>2
  <2> QED BY <2>1, <2>2
<1>12. DisposeOK(seg, d, p)
  <2>1. \A q \in Threads : d[q] # "none" => q \in Dynamic
    BY <1>3, <1>5 DEF DisposeOK, Creates
  <2>2. \A q \in Dynamic \intersect ToSet(seg) : d[q] # "none"
    BY <1>3, <1>5, <1>7 DEF DisposeOK, Creates
  <2>3. ASSUME NEW u \in Threads
        PROVE  /\ p[u].op = "dispose" /\ p[u].tp \in Dynamic => d[p[u].tp] # "none"
               /\ p[u].op \in {"create", "spawn", "spawned", "freeobj"} => p[u].tp \in Dynamic
    <3>1. CASE u = t
      BY <1>4, <3>1
    <3>2. CASE u # t
      BY <1>3, <1>4, <1>11, <3>2 DEF DisposeOK
    <3> QED BY <3>1, <3>2
  <2> QED BY <2>1, <2>2, <2>3 DEF DisposeOK
<1>13. StacksOK(seg, d, p, stacks)
  <2>1. InUse(seg, d) \ {tp} = InUse(registry, dispose) \ {tp}
    BY <1>5, <1>7 DEF InUse
  <2>2. tp \notin InUse(registry, dispose)
    BY DEF InUse
  <2>3. tp \in InUse(seg, d) <=> op[t].op = "spawned"
    BY <1>5, <1>6, <1>7 DEF InUse, Creates
  <2>4. op[t].op # "dispose"
    BY DEF Creates
  <2>5. StackBalance(op[t], NoOp, tp, registry, dispose, stacks, seg, d, stacks)
    BY <1>1, <1>4, <2>2, <2>3, <2>4 DEF StackBalance, One
  <2>6. stacks \in Int
    BY <1>1
  <2> QED BY <1>1, <1>3, <1>11, <2>1, <2>5, <2>6, StacksMove
<1> QED BY <1>10, <1>12, <1>13 DEF MemoryBooks

LEMMA CreateStep ==
    ASSUME IInv, NEW c \in Cores, NEW t, t = k.current[c], Runs(c, t), InThread(k, c),
           NEW tp \in Threads, tp \notin ToSet(registry), NEW cb, Creates(t, tp, cb),
           NEW run \in BOOLEAN, CreateIn(c, tp, cb, run)
    PROVE  IInv'
<1>1. /\ op \in [Threads -> Calls] /\ held \in Holds /\ cursor \in Scans /\ t \in Threads
      /\ refs \in [Threads -> 0 .. MaxRefs] /\ refs \in [Threads -> Nat]
      /\ registry \in Seq(Threads) /\ k.state[t] = "CURRENT" /\ Sound(k, {})
  BY TypeParts DEF IInv, Runs
<1>2. waiting \in [Threads -> Seq(Threads)] /\ dispose \in [Threads -> {"none", "free", "spawnfree"}]
  BY DEF IInv, TypeOK
<1>3. Unborn(tp)
  BY UnbornFacts
<1>4. /\ refs[tp] = 0 /\ k.state[tp] = "FINAL" /\ held[tp] = {} /\ cursor[tp] = NoThread
      /\ waiting[tp] = <<>> /\ op[tp] = NoOp /\ tp \notin held[t] /\ tp # t
  BY <1>1, <1>3 DEF Unborn
<1>5. PICK k1 : k1 = Newborn(k, tp, "OK")
  OBVIOUS
<1>6. /\ refs' = [refs EXCEPT ![tp] = 1]
      /\ registry' = ch_queue_insert(registry, tp)
      /\ waiting' = waiting
      /\ dispose' = [dispose EXCEPT ![tp] = cb]
      /\ held' = [held EXCEPT ![t] = @ \union {tp}]
      /\ cursor' = cursor
      /\ op' = [op EXCEPT ![t] = NoOp]
      /\ k' = IF run THEN chSchWakeupS(k1, c, tp, "OK") ELSE k1
      /\ UNCHANGED <<memfree, stacks>>
  <2>1. waiting' = waiting
    BY <1>2, <1>4 DEF CreateIn
  <2>2. cursor' = cursor
    BY <1>1, <1>4 DEF CreateIn, Scans
  <2>3. held' = [held EXCEPT ![t] = @ \union {tp}]
    <3>1. held' = [held EXCEPT ![t] = @ \union {tp}, ![tp] = {}]
      BY DEF CreateIn
    <3> QED BY <1>1, <1>4, <3>1 DEF Holds
  <2>4. op' = [op EXCEPT ![t] = NoOp]
    <3>1. op' = [op EXCEPT ![t] = NoOp, ![tp] = NoOp]
      BY DEF CreateIn
    <3> QED BY <1>1, <1>4, <3>1
  <2>5. k' = IF run THEN chSchWakeupS(k1, c, tp, "OK") ELSE k1
    BY <1>5 DEF CreateIn, Newborn
  <2>6. /\ refs' = [refs EXCEPT ![tp] = 1] /\ registry' = ch_queue_insert(registry, tp)
        /\ dispose' = [dispose EXCEPT ![tp] = cb] /\ UNCHANGED <<memfree, stacks>>
    BY DEF CreateIn, mem
  <2> QED BY <2>1, <2>2, <2>3, <2>4, <2>5, <2>6
<1>7. PICK r, p, g, seg, d, sf : /\ r = k' /\ p = op' /\ g = held' /\ seg = registry'
                                 /\ d = dispose' /\ sf = refs'
  OBVIOUS
<1>8. p[t] = NoOp /\ (\A u \in Threads \ {t} : p[u] = op[u]) /\ p \in [Threads -> Calls]
  BY <1>1, <1>6, <1>7 DEF Calls
<1>9. /\ g \in Holds /\ g[t] = held[t] \union {tp} /\ \A u \in Threads \ {t} : g[u] = held[u]
  BY <1>1, <1>6, <1>7 DEF Holds
<1>10. /\ KernelPart(r, waiting, p, g, cursor) /\ r \in KernelType
       /\ \A q \in Threads \ {tp} : k.state[q] = "FINAL" => r.state[q] = "FINAL"
  <2>1. r = IF run THEN chSchWakeupS(k1, c, tp, "OK") ELSE k1
    BY <1>6, <1>7
  <2> QED BY <1>3, <1>5, <1>8, <1>9, <2>1, CreateKernel
<1>11. /\ Counted(refs, held, cursor, op) /\ RegistryOK(k, refs, registry)
  BY DEF IInv, BookPart
<1>12. /\ seg \in Seq(Threads) /\ ToSet(seg) = ToSet(registry) \union {tp} /\ NoDuplicates(seg)
  <2>1. NoDuplicates(registry)
    BY <1>11 DEF RegistryOK
  <2> QED BY <1>1, <1>6, <1>7, <2>1, QueueInsertSet
<1>13. \A q \in Threads : sf[q] = IF q = tp THEN 1 ELSE refs[q]
  BY <1>1, <1>6, <1>7
<1>14. Counted(sf, g, cursor, p)
  <2>1. PICK m : m = cursor[t]
    OBVIOUS
  <2>2. \A q \in Threads : op[t] # Release(q) /\ NoOp # Release(q)
    BY DEF Creates, Release, NoOp
  <2>3. CountBalance(refs, sf, held[t], g[t], tp, cursor[t], m, op[t], NoOp)
    BY <1>1, <1>4, <1>9, <1>13, <2>1, <2>2 DEF CountBalance, One
  <2>4. g[t] \ {tp} = held[t] \ {tp} /\ cursor[t] = m /\ \A v \in Threads \ {t} : cursor[v] = cursor[v]
    BY <1>9, <2>1
  <2> QED BY <1>1, <1>8, <1>9, <1>11, <2>3, <2>4, CountedMove
<1>15. RegistryOK(r, sf, seg)
  BY <1>10, <1>11, <1>12, <1>13 DEF RegistryOK
<1>16. MemoryBooks(seg, memfree, d, stacks, p)
  <2>1. d = [dispose EXCEPT ![tp] = cb] /\ p = [op EXCEPT ![t] = NoOp]
    BY <1>6, <1>7
  <2>2. ToSet(seg) = ToSet(registry) \union {tp}
    BY <1>12
  <2> QED BY <1>3, <2>1, <2>2, CreateBooks
<1>17. TypeOK'
  <2>1. refs' \in [Threads -> 0 .. MaxRefs]
    <3>1. 1 \in 0 .. MaxRefs
      BY LifeAssumption
    <3> QED BY <1>1, <1>6, <3>1
  <2>2. dispose' \in [Threads -> {"none", "free", "spawnfree"}]
    <3>1. cb \in {"none", "free", "spawnfree"}
      BY DEF Creates
    <3> QED BY <1>2, <1>6, <3>1
  <2> QED BY <1>6, <1>7, <1>8, <1>9, <1>10, <1>12, <2>1, <2>2 DEF IInv, TypeOK, Calls, Holds
<1>18. BookPart(k', refs', registry', dispose', memfree', stacks', op', held', cursor')
  BY <1>6, <1>7, <1>14, <1>15, <1>16 DEF BookPart, MemoryBooks
<1>19. KernelPart(k', waiting', op', held', cursor')
  BY <1>6, <1>7, <1>10
<1> QED BY <1>17, <1>18, <1>19 DEF IInv

LEMMA CreateAct ==
    ASSUME IInv, NEW c \in Cores, NEW tp \in Static, NEW run \in BOOLEAN, chThdCreate(c, tp, run)
    PROVE  IInv'
<1>1. PICK t : t = k.current[c]
  OBVIOUS
<1>2. Runs(c, t) /\ op[t].op = "none" /\ InThread(k, c)
  BY <1>1, CallerRuns DEF chThdCreate, Caller
<1>3. tp \in Threads /\ tp \notin ToSet(registry) /\ CreateIn(c, tp, "none", run)
  BY LifeAssumption DEF chThdCreate, InRegistry, UserThreads
<1>4. PICK cb : cb = "none"
  OBVIOUS
<1>5. Creates(t, tp, cb) /\ CreateIn(c, tp, cb, run)
  BY <1>2, <1>3, <1>4 DEF Creates
<1> QED BY <1>1, <1>2, <1>3, <1>5, CreateStep

LEMMA CreateAllocatedAct ==
    ASSUME IInv, NEW c \in Cores, CreateAllocated(c)
    PROVE  IInv'
<1>1. PICK t, tp : t = k.current[c] /\ tp = op[t].tp
  OBVIOUS
<1>2. PICK w, cb : /\ At(c, w) /\ CreateIn(c, tp, cb, TRUE)
                   /\ (w = "create" /\ cb = "free") \/ (w = "spawned" /\ cb = "spawnfree")
  BY <1>1 DEF CreateAllocated
<1>3. Runs(c, t) /\ op[t].op = w /\ InThread(k, c)
  BY <1>1, <1>2, CallerRuns
<1>4. tp \in Threads /\ tp \in Dynamic /\ tp \notin ToSet(registry)
  <2>1. op[t].op \in {"create", "spawn", "spawned", "dispose", "freeobj"} /\ op[t].op # "dispose"
    BY <1>2, <1>3
  <2> QED BY <1>1, <1>3, <2>1, HandledObject
<1>5. op[t] = [op |-> w, tp |-> tp]
  <2>1. op[t] \in Calls
    BY <1>3, TypeParts DEF IInv, Runs
  <2> QED BY <1>1, <1>2, <1>3, <2>1 DEF Calls, Ops, NoOp
<1>6. Creates(t, tp, cb)
  BY <1>2, <1>4, <1>5 DEF Creates
<1>7. PICK run \in BOOLEAN : run = TRUE
  OBVIOUS
<1>8. CreateIn(c, tp, cb, run)
  BY <1>2, <1>7
<1> QED BY <1>1, <1>3, <1>4, <1>6, <1>8, CreateStep

-----------------------------------------------------------------------------
(* The initial states                                                        *)

\* A finite set of threads as a list.
LEMMA SetAsList ==
    ASSUME NEW S \in SUBSET Threads, NEW q, q = SetToSeq(S)
    PROVE  q \in Seq(Threads) /\ NoDuplicates(q) /\ ToSet(q) = S
<1>1. PICK N : N = Cardinality(S)
  OBVIOUS
<1>2. IsFiniteSet(S) /\ N \in Nat /\ ExistsBijection(1 .. N, S)
  BY <1>1, FiniteThreads, FS_CardinalityType
<1>3. \E f \in [1 .. N -> S] : IsInjective(f)
  BY <1>2 DEF ExistsBijection, Bijection, Injection
<1>4. q \in [1 .. N -> S] /\ IsInjective(q)
  BY <1>1, <1>3 DEF SetToSeq
<1>5. q \in Seq(Threads) /\ Len(q) = N /\ DOMAIN q = 1 .. N
  <2>1. q \in [1 .. N -> Threads]
    BY <1>4
  <2> QED BY <1>2, <2>1, LenProperties, SeqDef
<1>6. q \in Surjection(1 .. N, S)
  <2>1. q \in Injection(1 .. N, S)
    BY <1>4 DEF Injection
  <2>2. Cardinality(1 .. N) = Cardinality(S)
    BY <1>1, <1>2, FS_Interval
  <2> QED BY <1>2, <2>1, <2>2, FS_Injection
<1>7. ToSet(q) = S
  <2>1. \A s \in S : \E i \in 1 .. N : q[i] = s
    BY <1>6 DEF Surjection
  <2>2. \A i \in 1 .. N : q[i] \in S
    BY <1>4
  <2> QED BY <1>5, <2>1, <2>2 DEF ToSet
<1>8. NoDuplicates(q)
  <2>1. \A i, j \in 1 .. N : q[i] = q[j] => i = j
    BY <1>4, <1>5 DEF IsInjective
  <2>2. \A i, j \in 1 .. N : i < j => q[i] # q[j]
    BY <1>2, <2>1
  <2> QED BY <1>5, <2>2 DEF NoDuplicates, IsSorted
<1> QED BY <1>5, <1>7, <1>8

\* The kernel when the main thread runs for the first time.
LEMMA BootSound ==
    ASSUME Init
    PROVE  /\ Sound(k, {}) /\ Pending(k) = {} /\ k.prio = Prio
           /\ \A t \in Threads : k.state[t] \notin {"WTEXIT", "WTSTART"}
           /\ \A t \in Threads : k.state[t] = "FINAL" <=> t \in UserThreads \ {Main}
<1> DEFINE cm == Owner[Main]
<1>1. /\ cm \in Cores /\ Main \in Threads /\ Main \in UserThreads /\ Idle[cm] \in Threads
      /\ Idle[cm] # Main
      /\ \A d \in Cores : Idle[d] \in Threads /\ Owner[Idle[d]] = d /\ Idle[d] \notin UserThreads
  BY KernelAssumption, LifeAssumption DEF UserThreads
<1>2. /\ k.current = [Idle EXCEPT ![cm] = Main]
      /\ k.ready = [[c \in Cores |-> <<>>] EXCEPT ![cm] = <<Idle[cm]>>]
      /\ k.state = [t \in Threads |->
                       IF t = Main THEN "CURRENT"
                       ELSE IF t = Idle[cm] THEN "READY"
                       ELSE IF t \in UserThreads THEN "FINAL" ELSE "CURRENT"]
      /\ k.prio = Prio /\ k.armed = {} /\ k.firing = [c \in Cores |-> NoThread]
      /\ k.isr = {} /\ k.notified = {}
  BY DEF Init, KernelInit
<1>3. k \in KernelType
  <2>1. k.current \in [Cores -> Threads]
    BY <1>1, <1>2, KernelAssumption
  <2>2. k.ready \in [Cores -> Seq(Threads)]
    <3>1. <<Idle[cm]>> \in Seq(Threads) /\ <<>> \in Seq(Threads)
      BY <1>1
    <3>2. PICK q, e, S : q = <<Idle[cm]>> /\ e = <<>> /\ S = Seq(Threads)
      OBVIOUS
    <3>3. q \in S /\ e \in S /\ k.ready = [[c \in Cores |-> e] EXCEPT ![cm] = q]
      BY <1>2, <3>1, <3>2
    <3>4. k.ready \in [Cores -> S]
      BY <3>3
    <3> QED BY <3>2, <3>4
  <2>3. k.state \in [Threads -> States]
    BY <1>2 DEF States
  <2>4. /\ k.ticks = [t \in Threads |-> Quantum] /\ k.rdymsg = [t \in Threads |-> "OK"]
        /\ DOMAIN k = {"current", "ready", "state", "prio", "ticks", "rdymsg", "armed", "firing",
                       "isr", "notified"}
    BY DEF Init, KernelInit
  <2>5. k.ticks \in [Threads -> 0 .. Quantum] /\ k.rdymsg \in [Threads -> Messages]
    BY <2>4, KernelAssumption
  <2>6. k.prio \in [Threads -> Prios]
    BY <1>2, LifeAssumption
  <2>7. k.armed \in SUBSET Threads /\ k.firing \in [Cores -> Threads \union {NoThread}]
        /\ k.isr \in SUBSET Cores /\ k.notified \in SUBSET Cores
    BY <1>2
  <2>8. k = [current |-> k.current, ready |-> k.ready, state |-> k.state, prio |-> k.prio,
             ticks |-> k.ticks, rdymsg |-> k.rdymsg, armed |-> k.armed, firing |-> k.firing,
             isr |-> k.isr, notified |-> k.notified]
    BY DEF Init, KernelInit
  <2> QED BY <2>1, <2>2, <2>3, <2>5, <2>6, <2>7, <2>8 DEF KernelType
<1>4. \A t \in Threads : /\ k.state[t] = "CURRENT" <=> (t = Main \/ (t # Idle[cm] /\ t \notin UserThreads))
                         /\ k.state[t] = "READY" <=> t = Idle[cm]
                         /\ k.state[t] = "FINAL" <=> t \in UserThreads \ {Main}
                         /\ k.state[t] \in {"CURRENT", "READY", "FINAL"}
  BY <1>1, <1>2
<1>5. \A d \in Cores : /\ k.current[d] = IF d = cm THEN Main ELSE Idle[d]
                       /\ k.ready[d] = IF d = cm THEN <<Idle[cm]>> ELSE <<>>
                       /\ k.firing[d] = NoThread
  BY <1>1, <1>2, KernelAssumption
<1>6. KInvX(k, {})
  <2>1. ASSUME NEW d \in Cores
        PROVE  /\ NoDuplicates(k.ready[d]) /\ SortedByPrio(k.ready[d], k.prio)
               /\ ToSet(k.ready[d]) = {t \in Threads \ {} : k.state[t] = "READY" /\ Owner[t] = d}
    <3>1. CASE d = cm
      <4>1. PICK q : q = k.ready[d]
        OBVIOUS
      <4>2. q = <<Idle[cm]>> /\ Len(q) = 1 /\ DOMAIN q = {1} /\ q[1] = Idle[cm]
        BY <1>5, <3>1, <4>1
      <4>3. NoDuplicates(q) /\ SortedByPrio(q, k.prio)
        BY <4>2 DEF NoDuplicates, SortedByPrio, IsSorted
      <4>4. ToSet(q) = {Idle[cm]}
        BY <4>2 DEF ToSet
      <4>5. {t \in Threads \ {} : k.state[t] = "READY" /\ Owner[t] = d} = {Idle[cm]}
        BY <1>1, <1>4, <3>1
      <4> QED BY <4>1, <4>3, <4>4, <4>5
    <3>2. CASE d # cm
      <4>1. k.ready[d] = <<>>
        BY <1>5, <3>2
      <4>2. {t \in Threads \ {} : k.state[t] = "READY" /\ Owner[t] = d} = {}
        BY <1>1, <1>4, <3>2
      <4> QED BY <4>1, <4>2 DEF NoDuplicates, SortedByPrio, IsSorted, ToSet
    <3> QED BY <3>1, <3>2
  <2>2. \A d \in Cores : Owner[k.current[d]] = d /\ k.state[k.current[d]] = "CURRENT"
    <3>1. \A d \in Cores : Idle[d] = Idle[cm] => d = cm
      BY <1>1
    <3> QED BY <1>1, <1>4, <1>5, <3>1
  <2>3. \A t \in Threads \ {} : k.state[t] = "CURRENT" => k.current[Owner[t]] = t
    <3>1. ASSUME NEW t \in Threads, k.state[t] = "CURRENT", t # Main
          PROVE  k.current[Owner[t]] = t
      <4>1. t # Idle[cm] /\ t \notin UserThreads
        BY <1>4, <3>1
      <4>2. PICK d \in Cores : t = Idle[d]
        BY <4>1 DEF UserThreads
      <4> QED BY <1>1, <1>5, <4>1, <4>2
    <3> QED BY <1>1, <1>5, <3>1
  <2>4. \A d \in Cores : k.state[Idle[d]] \in {"READY", "CURRENT"}
    BY <1>1, <1>4
  <2> QED BY <1>2, <1>3, <1>5, <2>1, <2>2, <2>3, <2>4 DEF KInvX
<1>7. OrderedBut(k, {})
  <2>1. ASSUME NEW d \in Cores, NEW t \in Threads, k.state[t] = "READY", Owner[t] = d
        PROVE  k.prio[t] <= k.prio[k.current[d]]
    <3>1. t = Idle[cm] /\ d = cm /\ k.current[d] = Main
      BY <1>1, <1>4, <1>5, <2>1
    <3>2. Prio[Idle[cm]] = IDLEPRIO /\ Prio[Main] >= LOWPRIO /\ Prio[Main] \in Nat
      BY <1>1, LifeAssumption DEF Prios
    <3> QED BY <1>2, <3>1, <3>2 DEF IDLEPRIO, LOWPRIO
  <2> QED BY <2>1 DEF OrderedBut, Ordered
<1>8. Pending(k) = {}
  BY <1>2, <1>5, KernelAssumption DEF Pending
<1> QED BY <1>2, <1>4, <1>6, <1>7, <1>8 DEF Sound, KInv

LEMMA InitInv ==
    ASSUME Init
    PROVE  IInv
<1>1. /\ Sound(k, {}) /\ Pending(k) = {} /\ k.prio = Prio
      /\ \A t \in Threads : k.state[t] \notin {"WTEXIT", "WTSTART"}
      /\ \A t \in Threads : k.state[t] = "FINAL" <=> t \in UserThreads \ {Main}
  BY BootSound
<1>2. /\ refs = [t \in Threads |-> IF t \in UserThreads \ {Main} THEN 0 ELSE 1]
      /\ registry = <<Main>> \o SetToSeq(Threads \ UserThreads)
      /\ waiting = [t \in Threads |-> <<>>]
      /\ dispose = [t \in Threads |-> "none"]
      /\ memfree = Dynamic /\ stacks = Stacks
      /\ op = [t \in Threads |-> NoOp]
      /\ held = [t \in Threads |-> {}]
      /\ cursor = [t \in Threads |-> NoThread]
  BY DEF Init
<1>3. \A t \in Threads : /\ op[t] = NoOp /\ op[t].op = "none" /\ held[t] = {} /\ cursor[t] = NoThread
                         /\ waiting[t] = <<>> /\ dispose[t] = "none"
  BY <1>2 DEF NoOp
<1>4. /\ registry \in Seq(Threads) /\ NoDuplicates(registry)
      /\ ToSet(registry) = (Threads \ UserThreads) \union {Main}
  <2>1. PICK q : q = SetToSeq(Threads \ UserThreads)
    OBVIOUS
  <2>2. q \in Seq(Threads) /\ NoDuplicates(q) /\ ToSet(q) = Threads \ UserThreads
    <3>1. PICK S \in SUBSET Threads : S = Threads \ UserThreads
      OBVIOUS
    <3> QED BY <2>1, <3>1, SetAsList
  <2>3. Main \in Threads /\ Main \notin ToSet(q)
    BY <2>2, LifeAssumption DEF UserThreads
  <2>4. QueueMore(k, q, <<Main>> \o q, Main, FALSE)
    BY <2>2, <2>3, PushFront
  <2> QED BY <1>2, <2>1, <2>2, <2>4 DEF QueueMore
<1>5. TypeOK
  <2>1. k \in KernelType
    BY <1>1, SoundFacts
  <2>2. refs \in [Threads -> 0 .. MaxRefs] /\ stacks \in 0 .. Stacks
    BY <1>2, LifeAssumption
  <2>3. waiting \in [Threads -> Seq(Threads)] /\ op \in [Threads -> Ops \union {NoOp}]
    BY <1>2
  <2> QED BY <1>2, <1>4, <2>1, <2>2, <2>3 DEF TypeOK
<1>6. KernelPart(k, waiting, op, held, cursor)
  <2>1. \A u \in Threads : op[u].op # "exit"
    BY <1>3
  <2>2. Sound(k, Busy(k, op))
    BY <1>1, <2>1, NobodyBusy
  <2>3. QueuesExact(k, waiting, Waited(op), Threads, "WTEXIT", FALSE)
    <3>1. waiting \in [Threads -> Seq(Threads)] /\ DOMAIN Waited(op) = Threads
      BY <1>2 DEF Waited
    <3>2. ASSUME NEW s \in Threads
          PROVE  /\ NoDuplicates(waiting[s])
                 /\ ToSet(waiting[s]) = {t \in Threads : k.state[t] = "WTEXIT" /\ Waited(op)[t] = s}
      <4>1. waiting[s] = <<>>
        BY <1>3
      <4>2. NoDuplicates(<<>>) /\ ToSet(<<>>) = {}
        BY DEF NoDuplicates, IsSorted, ToSet
      <4> QED BY <1>1, <4>1, <4>2
    <3> QED BY <3>1, <3>2 DEF QueuesExact
  <2>4. OpsOK(k, op, held) /\ FinalOK(k, held, cursor, waiting) /\ ExitOK(k, op, held, cursor)
        /\ CodesOK(k, op)
    BY <1>1, <1>3 DEF OpsOK, FinalOK, ExitOK, CodesOK
  <2> QED BY <1>1, <2>2, <2>3, <2>4 DEF KernelPart
<1>7. Cardinality({}) = 0
  BY FS_EmptySet
<1>8. Counted(refs, held, cursor, op)
  <2>1. ASSUME NEW q \in Threads
        PROVE  HeldBy(held, q) = {} /\ ScannedBy(cursor, q) = {} /\ ReleasedBy(op, q) = {}
    <3>1. NoThread \notin Threads
      BY KernelAssumption
    <3> QED BY <1>3, <3>1 DEF HeldBy, ScannedBy, ReleasedBy, Release
  <2>2. \A q \in Threads : refs[q] = Base(q)
    BY <1>2 DEF Base
  <2>3. \A q \in Threads : Base(q) \in Nat
    BY DEF Base
  <2> QED BY <1>7, <2>1, <2>2, <2>3 DEF Counted
<1>9. RegistryOK(k, refs, registry)
  BY <1>1, <1>2, <1>4, LifeAssumption DEF RegistryOK, UserThreads
<1>10. Dynamic \subseteq UserThreads \ {Main} /\ Dynamic \subseteq Threads
  BY LifeAssumption DEF UserThreads
<1>11. MemoryOK(registry, memfree, op)
  <2>1. \A q \in Dynamic : Handlers(op, q) = {}
    BY <1>3 DEF Handlers, Handles
  <2>2. \A q \in Dynamic : q \in memfree /\ q \notin ToSet(registry)
    BY <1>2, <1>4, <1>10
  <2> QED BY <1>7, <2>1, <2>2 DEF MemoryOK, One
<1>12. DisposeOK(registry, dispose, op)
  BY <1>3, <1>4, <1>10 DEF DisposeOK
<1>13. StacksOK(registry, dispose, op, stacks)
  <2>1. InUse(registry, dispose) = {} /\ Given(op) = {} /\ Returning(op, dispose) = {}
    BY <1>3, <1>10 DEF InUse, Given, Returning
  <2>2. Stacks \in Nat
    BY LifeAssumption
  <2>3. Stacks = Stacks - 0 - 0 - 0
    BY <2>2
  <2> QED BY <1>2, <1>7, <2>1, <2>3 DEF StacksOK
<1>14. BookPart(k, refs, registry, dispose, memfree, stacks, op, held, cursor)
  BY <1>8, <1>9, <1>11, <1>12, <1>13 DEF BookPart
<1> QED BY <1>5, <1>6, <1>14 DEF IInv

-----------------------------------------------------------------------------
(* The theorems                                                              *)

LEMMA StepInv ==
    ASSUME IInv, [Next]_vars
    PROVE  IInv'
<1>1. CASE UNCHANGED vars
  BY <1>1 DEF IInv, TypeOK, KernelPart, BookPart, vars
<1>2. ASSUME NEW c \in Cores, Creation(c) PROVE IInv'
  <2>1. ASSUME NEW tp \in Static, NEW run \in BOOLEAN, chThdCreate(c, tp, run) PROVE IInv'
    BY <2>1, CreateAct
  <2>2. ASSUME NEW tp \in Dynamic, AllocObject(c, tp, "create") \/ AllocObject(c, tp, "spawn")
        PROVE  IInv'
    BY <2>2, AllocObjectAct
  <2>3. CASE AllocStack(c)
    BY <2>3, AllocStackAct
  <2>4. CASE CreateAllocated(c)
    BY <2>4, CreateAllocatedAct
  <2>5. ASSUME NEW tp \in UserThreads, chThdStart(c, tp) PROVE IInv'
    BY <2>5, StartAct
  <2> QED BY <1>2, <2>1, <2>2, <2>3, <2>4, <2>5 DEF Creation
<1>3. ASSUME NEW c \in Cores, References(c) PROVE IInv'
  <2>1. ASSUME NEW tp \in UserThreads, NEW u \in UserThreads, chThdAddRef(c, tp, u) PROVE IInv'
    BY <2>1, AddRefAct
  <2>2. ASSUME NEW tp \in Threads, chThdRelease(c, tp) PROVE IInv'
    BY <2>2, ReleaseAct
  <2>3. CASE ReleaseAfter(c)
    BY <2>3, ReleaseAfterAct
  <2>4. CASE Dispose(c)
    BY <2>4, DisposeAct
  <2>5. CASE FreeObject(c)
    BY <2>5, FreeObjectAct
  <2>6. CASE chRegFirstThread(c)
    BY <2>6, FirstAct
  <2>7. CASE chRegNextThread(c)
    BY <2>7, NextAct
  <2>8. CASE FindThread(c)
    BY <2>8, FindAct
  <2> QED BY <1>3, <2>1, <2>2, <2>3, <2>4, <2>5, <2>6, <2>7, <2>8 DEF References
<1>4. ASSUME NEW c \in Cores, Termination(c) PROVE IInv'
  <2>1. CASE chThdExitS(c)
    BY <2>1, ExitAct
  <2>2. CASE ExitIteration(c)
    BY <2>2, IterationAct
  <2>3. CASE ExitEnd(c)
    BY <2>3, ExitEndAct
  <2>4. ASSUME NEW tp \in UserThreads, NEW wait \in BOOLEAN, chThdSyncS(c, tp, wait) PROVE IInv'
    BY <2>4, SyncAct
  <2>5. CASE SyncReturn(c)
    BY <2>5, SyncReturnAct
  <2> QED BY <1>4, <2>1, <2>2, <2>3, <2>4, <2>5 DEF Termination
<1>5. ASSUME NEW c \in Cores, KernelIrq(c) PROVE IInv'
  <2>1. ASSUME NEW tp \in UserThreads, chThdStartI(c, tp) PROVE IInv'
    BY <2>1, StartIAct
  <2>2. CASE Notified(c) \/ ExitIsr(c)
    BY <2>2, IrqAct
  <2> QED BY <1>5, <2>1, <2>2 DEF KernelIrq
<1> QED BY <1>1, <1>2, <1>3, <1>4, <1>5 DEF Next

\* The parts of IInv imply the properties the runs check.
LEMMA RefsOwnedIs ==
    ASSUME NEW tp
    PROVE  RefsOwned(tp) = Cardinality(HeldBy(held, tp)) + Cardinality(ScannedBy(cursor, tp))
                             + Cardinality(ReleasedBy(op, tp))
BY DEF RefsOwned, HeldBy, ScannedBy, ReleasedBy, Release

LEMMA ReferencesImplied ==
    ASSUME IInv
    PROVE  ReferencesSafe
<1>1. /\ Counted(refs, held, cursor, op) /\ RegistryOK(k, refs, registry)
      /\ MemoryOK(registry, memfree, op) /\ DisposeOK(registry, dispose, op)
      /\ FinalOK(k, held, cursor, waiting)
  BY DEF IInv, BookPart, KernelPart
<1>2. refs \in [Threads -> Nat] /\ memfree \subseteq Dynamic
  BY TypeParts DEF IInv, TypeOK
<1>3. ASSUME NEW tp \in UserThreads \ {Main}
      PROVE  refs[tp] = RefsOwned(tp)
  <2>1. tp \in Threads /\ Base(tp) = 0
    BY DEF UserThreads, Base
  <2>2. refs[tp] = Cardinality(HeldBy(held, tp)) + Cardinality(ScannedBy(cursor, tp))
                     + Cardinality(ReleasedBy(op, tp)) + Base(tp)
    BY <1>1, <2>1 DEF Counted
  <2>3. /\ Cardinality(HeldBy(held, tp)) \in Nat /\ Cardinality(ScannedBy(cursor, tp)) \in Nat
        /\ Cardinality(ReleasedBy(op, tp)) \in Nat
    BY CountTypes
  <2> QED BY <2>1, <2>2, <2>3, RefsOwnedIs
<1>4. ASSUME NEW tp \in Threads, refs[tp] > 0 \/ k.state[tp] # "FINAL" \/ waiting[tp] # <<>>
      PROVE  InRegistry(tp) /\ tp \notin memfree /\ Building(tp) = {}
  <2>1. k.state[tp] = "FINAL" => waiting[tp] = <<>>
    BY <1>1 DEF FinalOK
  <2>2. tp \in ToSet(registry)
    BY <1>1, <1>2, <1>4, <2>1 DEF RegistryOK
  <2>3. CASE tp \in Dynamic
    <3>1. tp \notin memfree /\ \A u \in Threads : ~ Handles(op[u], tp)
      BY <1>1, <2>2, <2>3, FreeAlone
    <3> QED BY <2>2, <3>1 DEF InRegistry, Building, Handles
  <2>4. CASE tp \notin Dynamic
    <3>1. \A u \in Threads : op[u].op \in {"create", "spawn", "spawned"} => op[u].tp \in Dynamic
      BY <1>1 DEF DisposeOK
    <3> QED BY <1>2, <2>2, <2>4, <3>1 DEF InRegistry, Building
  <2> QED BY <2>3, <2>4
<1>5. NoDuplicates(registry)
  BY <1>1 DEF RegistryOK
<1> QED BY <1>3, <1>4, <1>5 DEF ReferencesSafe

LEMMA MemoryImplied ==
    ASSUME IInv
    PROVE  MemoryAccounted
<1>1. MemoryOK(registry, memfree, op) /\ StacksOK(registry, dispose, op, stacks)
  BY DEF IInv, BookPart
<1>2. ASSUME NEW tp \in Dynamic
      PROVE  Cardinality(Building(tp) \union Disposing(tp))
               + (IF tp \in memfree THEN 1 ELSE 0) + (IF InRegistry(tp) THEN 1 ELSE 0) = 1
  <2>1. Building(tp) \union Disposing(tp) = Handlers(op, tp)
    BY DEF Building, Disposing, Handlers, Handles
  <2>2. Cardinality(Handlers(op, tp)) + One(tp \in memfree) + One(tp \in ToSet(registry)) = 1
    BY <1>1 DEF MemoryOK
  <2> QED BY <2>1, <2>2 DEF One, InRegistry
<1>3. /\ InUse(registry, dispose) = {tp \in Dynamic : InRegistry(tp) /\ dispose[tp] = "spawnfree"}
      /\ Given(op) = {t \in Threads : op[t].op = "spawned"}
      /\ Returning(op, dispose) = {t \in Threads : op[t].op = "dispose"
                                                   /\ dispose[op[t].tp] = "spawnfree"}
  BY DEF InUse, InRegistry, Given, Returning
<1>4. stacks = Stacks - Cardinality(InUse(registry, dispose)) - Cardinality(Given(op))
                 - Cardinality(Returning(op, dispose))
  BY <1>1 DEF StacksOK
<1> QED BY <1>2, <1>3, <1>4 DEF MemoryAccounted

LEMMA ExitImplied ==
    ASSUME IInv
    PROVE  ExitObserved
<1>1. /\ QueuesExact(k, waiting, Waited(op), Threads, "WTEXIT", FALSE)
      /\ FinalOK(k, held, cursor, waiting) /\ CodesOK(k, op)
  BY DEF IInv, KernelPart
<1>2. ASSUME NEW tp \in Threads
      PROVE  /\ NoDuplicates(waiting[tp])
             /\ ToSet(waiting[tp]) = {t \in Threads : k.state[t] = "WTEXIT" /\ op[t].tp = tp}
             /\ k.state[tp] = "FINAL" => waiting[tp] = <<>>
  <2>1. \A t \in Threads : Waited(op)[t] = op[t].tp
    BY DEF Waited
  <2>2. /\ NoDuplicates(waiting[tp])
        /\ ToSet(waiting[tp]) = {t \in Threads : k.state[t] = "WTEXIT" /\ Waited(op)[t] = tp}
    BY <1>1 DEF QueuesExact
  <2>3. k.state[tp] = "FINAL" => waiting[tp] = <<>>
    BY <1>1 DEF FinalOK
  <2> QED BY <2>1, <2>2, <2>3
<1> QED BY <1>1, <1>2 DEF ExitObserved, CodesOK

\* The invariant all four theorems follow from.
LEMMA Inductive == Spec => []IInv
<1>1. Init => IInv
  BY InitInv
<1>2. IInv /\ [Next]_vars => IInv'
  BY StepInv
<1> QED BY <1>1, <1>2, PTL DEF Spec

\* Every variable of the module keeps its type, the reference counters within
\* THREAD_MAX_REFERENCES included.
THEOREM LifeTypeCorrect == Spec => []TypeOK
<1>1. IInv => TypeOK
  BY DEF IInv
<1> QED BY <1>1, Inductive, PTL

\* chThdAddRef(), chThdRelease() and the scans of the registry: the counter of
\* a thread is the number of references in somebody's hands, and what is
\* referred to, alive or waited for is registered, and its memory is neither
\* free nor being given to a new thread.
THEOREM ReferencesAlwaysSafe == Spec => []ReferencesSafe
<1>1. IInv => ReferencesSafe
  BY ReferencesImplied
<1> QED BY <1>1, Inductive, PTL

\* chThdRelease() with its callbacks, chThdSpawnFromHeap() and the other
\* functions with two allocations, successful or not: no object and no stack
\* is ever lost, nor returned twice.
THEOREM MemoryAlwaysAccounted == Spec => []MemoryAccounted
<1>1. IInv => MemoryAccounted
  BY MemoryImplied
<1> QED BY <1>1, Inductive, PTL

\* chThdExitS() and chThdWait(): nobody is left waiting for a thread that has
\* ended, and whoever was woken finds the exit code in place.
THEOREM ExitAlwaysObserved == Spec => []ExitObserved
<1>1. IInv => ExitObserved
  BY ExitImplied
<1> QED BY <1>1, Inductive, PTL
=============================================================================
