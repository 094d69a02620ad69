------------------------------- MODULE RtLife -------------------------------
(***************************************************************************)
(* The life of threads: creation in static memory, from an allocator and   *)
(* from two allocators, start, exit, synchronisation with the exit, the    *)
(* reference counter, the registry and its traversal, and the return of    *)
(* the memory (chthreads.c, chregistry.c, chdynamic.c).                    *)
(*                                                                         *)
(* A thread is named by the memory its thread_t is in.  The calls that are *)
(* made of several critical sections are as many steps: op[t] tells where  *)
(* thread t is inside its call.  The allocators are external, a set of     *)
(* free objects and a number of free stacks.                               *)
(***************************************************************************)
EXTENDS ChSched

CONSTANTS
    Main,       \* the main thread
    Static,     \* threads in static memory
    Dynamic,    \* threads in memory of an allocator
    Stacks,     \* the stacks of the second allocator of the spawn functions
    MaxRefs,    \* THREAD_MAX_REFERENCES
    Prio        \* Prio[t]: the priority a thread is created with

ASSUME LifeAssumption ==
    /\ Main \in UserThreads
    /\ UserThreads \ {Main} = Static \union Dynamic
    /\ Static \intersect Dynamic = {}
    /\ Main \notin Static \union Dynamic
    /\ Stacks \in Nat
    /\ MaxRefs \in Nat \ {0}
    /\ "EXIT" \in Messages
    /\ Prio \in [Threads -> Prios]
    /\ \A c \in Cores : Prio[Idle[c]] = IDLEPRIO
    /\ \A t \in UserThreads : Prio[t] >= LOWPRIO

VARIABLES
    k,          \* the kernel state; the exit code is in rdymsg, as in thread_t.u
    refs,       \* refs[t]: tp->refs
    registry,   \* the registry of threads, in order of creation
    waiting,    \* waiting[t]: the threads that wait for the exit of t
    dispose,    \* dispose[t]: the callback, or "none"
    memfree,    \* objects the allocators can give
    stacks,     \* stacks the second allocator can give
    op,         \* op[t]: where t is inside a call, or NoOp
    held,       \* held[t]: threads t owns a reference to
    cursor      \* cursor[t]: the reference t owns as the position of its scan

vars == <<k, refs, registry, waiting, dispose, memfree, stacks, op, held, cursor>>

NoOp == [op |-> "none", tp |-> NoThread]

\* create, spawn, spawned: memory allocated so far for tp; sync, wait: blocked
\* in chThdSync() or chThdWait(); release: about to call chThdRelease();
\* dispose: removed from the registry, about to look at the callback;
\* freeobj: the stack is freed, the object not yet; exit: inside chThdExitS().
Ops == [op : {"create", "spawn", "spawned", "sync", "wait", "release", "dispose", "freeobj",
              "exit"},
        tp : Threads]

TypeOK ==
    /\ k \in KernelType
    /\ refs \in [Threads -> 0 .. MaxRefs]
    /\ registry \in Seq(Threads)
    /\ waiting \in [Threads -> Seq(Threads)]
    /\ dispose \in [Threads -> {"none", "free", "spawnfree"}]
    /\ memfree \subseteq Dynamic
    /\ stacks \in 0 .. Stacks
    /\ op \in [Threads -> Ops \union {NoOp}]
    /\ held \in [Threads -> SUBSET Threads]
    /\ cursor \in [Threads -> Threads \union {NoThread}]

\* chSysInit(): main runs and is the first in the registry, the idle threads
\* follow; the others do not exist.
Init ==
    /\ k = [KernelInit(Prio) EXCEPT
              !.current[Owner[Main]] = Main,
              !.ready[Owner[Main]] = <<Idle[Owner[Main]]>>,
              !.state = [t \in Threads |->
                           IF t = Main THEN "CURRENT"
                           ELSE IF t = Idle[Owner[Main]] THEN "READY"
                           ELSE IF t \in UserThreads THEN "FINAL" ELSE "CURRENT"]]
    /\ refs = [t \in Threads |-> IF t \in UserThreads \ {Main} THEN 0 ELSE 1]
    /\ registry = <<Main>> \o SetToSeq(Threads \ UserThreads)
    /\ waiting = [t \in Threads |-> <<>>]
    /\ dispose = [t \in Threads |-> "none"]
    /\ memfree = Dynamic
    /\ stacks = Stacks
    /\ op = [t \in Threads |-> NoOp]
    /\ held = [t \in Threads |-> {}]
    /\ cursor = [t \in Threads |-> NoThread]

-----------------------------------------------------------------------------
\* A thread that waited for an exit runs again, with the lock held.
Resuming(c) == op[k.current[c]].op \in {"sync", "wait"}

\* The running thread of c is waking those that wait for its exit.
Exiting(c) == op[k.current[c]].op = "exit"

Unlocked == \A c \in Cores : ~ Resuming(c) /\ ~ Exiting(c)

\* The running thread of c is where w tells.
At(c, w) == Unlocked /\ InThread(k, c) /\ op[k.current[c]].op = w

Caller(c) == At(c, "none")

Goto(t, w, tp) == op' = [op EXCEPT ![t] = [op |-> w, tp |-> tp]]

Finish(t) == op' = [op EXCEPT ![t] = NoOp]

InRegistry(tp) == tp \in ToSet(registry)

mem == <<memfree, stacks>>

-----------------------------------------------------------------------------
(* Creation *)

\* chThdObjectInit() and REG_INSERT(), then started if run; the caller gets
\* the first reference.
CreateIn(c, tp, callback, run) ==
    LET t  == k.current[c]
        k1 == [k EXCEPT !.state[tp] = "WTSTART", !.prio[tp] = Prio[tp],
                        !.ticks[tp] = Quantum, !.rdymsg[tp] = "OK"]
    IN  /\ refs' = [refs EXCEPT ![tp] = 1]
        /\ registry' = ch_queue_insert(registry, tp)
        /\ waiting' = [waiting EXCEPT ![tp] = <<>>]
        /\ dispose' = [dispose EXCEPT ![tp] = callback]
        /\ held' = [held EXCEPT ![t] = @ \union {tp}, ![tp] = {}]
        /\ cursor' = [cursor EXCEPT ![tp] = NoThread]
        /\ op' = [op EXCEPT ![t] = NoOp, ![tp] = NoOp]
        /\ k' = IF run THEN chSchWakeupS(k1, c, tp, "OK") ELSE k1
        /\ UNCHANGED mem

\* chThdCreate() and the other functions for static memory; the assertion
\* "thread or working area in use" guards them.
chThdCreate(c, tp, run) ==
    /\ Caller(c)
    /\ tp \in Static
    /\ ~ InRegistry(tp)
    /\ CreateIn(c, tp, "none", run)

\* chThdCreateFromHeap(), chThdCreateFromMemoryPool(): one object holds the
\* thread and its stack; an empty allocator changes nothing.  The pair
\* chThdSpawnFromHeap(), chThdSpawnFromMemoryPool() starts the same way.
AllocObject(c, tp, w) ==
    /\ Caller(c)
    /\ tp \in memfree
    /\ memfree' = memfree \ {tp}
    /\ Goto(k.current[c], w, tp)
    /\ UNCHANGED <<k, refs, registry, waiting, dispose, stacks, held, cursor>>

\* Mutant: the object is kept when there is no stack for it.
M_AllocStack(c) ==
    LET t == k.current[c]
    IN  /\ At(c, "spawn")
        /\ \/ stacks > 0 /\ stacks' = stacks - 1 /\ Goto(t, "spawned", op[t].tp) /\ UNCHANGED memfree
           \/ Finish(t) /\ UNCHANGED mem
        /\ UNCHANGED <<k, refs, registry, waiting, dispose, held, cursor>>

\* The second allocation of a spawn.  Others use that allocator too, it may
\* fail at any time: the first allocation is then undone.
AllocStack(c) ==
    LET t == k.current[c]
    IN  /\ At(c, "spawn")
        /\ \/ /\ stacks > 0
              /\ stacks' = stacks - 1
              /\ Goto(t, "spawned", op[t].tp)
              /\ UNCHANGED memfree
           \/ /\ memfree' = memfree \union {op[t].tp}
              /\ Finish(t)
              /\ UNCHANGED stacks
        /\ UNCHANGED <<k, refs, registry, waiting, dispose, held, cursor>>

CreateAllocated(c) ==
    LET tp == op[k.current[c]].tp
    IN  \/ At(c, "create") /\ CreateIn(c, tp, "free", TRUE)
        \/ At(c, "spawned") /\ CreateIn(c, tp, "spawnfree", TRUE)

life == <<refs, registry, waiting, dispose, op, held, cursor>>

chThdStart(c, tp) ==
    /\ Caller(c)
    /\ tp \in held[k.current[c]]
    /\ k.state[tp] = "WTSTART"
    /\ k' = chSchWakeupS(k, c, tp, "OK")
    /\ UNCHANGED <<life, mem>>

-----------------------------------------------------------------------------
(* References *)

\* Duplicates a reference of the running thread, for thread u.
chThdAddRef(c, tp, u) ==
    /\ Caller(c)
    /\ tp \in held[k.current[c]]
    /\ refs[tp] < MaxRefs
    /\ u # tp /\ k.state[u] # "FINAL" /\ tp \notin held[u]
    /\ refs' = [refs EXCEPT ![tp] = @ + 1]
    /\ held' = [held EXCEPT ![u] = @ \union {tp}]
    /\ UNCHANGED <<k, registry, waiting, dispose, op, cursor, mem>>

\* The reference being released is the last one of a terminated thread.
LastRef(tp) == refs[tp] = 1 /\ k.state[tp] = "FINAL"

\* The critical section of chThdRelease(), by thread t.
DropRef(t, tp) ==
    /\ refs' = [refs EXCEPT ![tp] = @ - 1]
    /\ \/ /\ LastRef(tp)
          /\ registry' = ch_queue_dequeue(registry, tp)
          /\ Goto(t, "dispose", tp)
       \/ /\ ~ LastRef(tp)
          /\ Finish(t)
          /\ UNCHANGED registry
    /\ UNCHANGED <<k, waiting, dispose, mem>>

chThdRelease(c, tp) ==
    LET t == k.current[c]
    IN  /\ Caller(c)
        /\ tp \in held[t] \union {cursor[t]}
        /\ \/ tp \in held[t] /\ held' = [held EXCEPT ![t] = @ \ {tp}] /\ UNCHANGED cursor
           \/ tp = cursor[t] /\ cursor' = [cursor EXCEPT ![t] = NoThread] /\ UNCHANGED held
        /\ DropRef(t, tp)

\* The chThdRelease() at the end of chThdWait() and chRegNextThread().
ReleaseAfter(c) ==
    LET t == k.current[c]
    IN  /\ At(c, "release")
        /\ DropRef(t, op[t].tp)
        /\ UNCHANGED <<held, cursor>>

\* Out of the lock, after the thread has left the registry.  A thread that
\* was spawned returns its stack first, the object with the pool in it last.
Dispose(c) ==
    LET t  == k.current[c]
        tp == op[t].tp
    IN  /\ At(c, "dispose")
        /\ \/ dispose[tp] = "none" /\ Finish(t) /\ UNCHANGED mem
           \/ dispose[tp] = "free" /\ memfree' = memfree \union {tp} /\ Finish(t) /\ UNCHANGED stacks
           \/ dispose[tp] = "spawnfree" /\ stacks' = stacks + 1 /\ Goto(t, "freeobj", tp)
              /\ UNCHANGED memfree
        /\ UNCHANGED <<k, refs, registry, waiting, dispose, held, cursor>>

FreeObject(c) ==
    LET t == k.current[c]
    IN  /\ At(c, "freeobj")
        /\ memfree' = memfree \union {op[t].tp}
        /\ Finish(t)
        /\ UNCHANGED <<k, refs, registry, waiting, dispose, stacks, held, cursor>>

-----------------------------------------------------------------------------
(* Exit and synchronisation *)

\* Memory of an allocator is recovered by a scan: the thread stays registered.
LeavesAtExit(t) == refs[t] = 0 /\ dispose[t] = "none"

\* A thread gives up its references before it exits.  The exit code is stored
\* before those that wait for it are woken.
chThdExitS(c) ==
    LET t == k.current[c]
    IN  /\ Caller(c)
        /\ held[t] = {} /\ cursor[t] = NoThread
        /\ k' = [k EXCEPT !.rdymsg[t] = "EXIT"]
        /\ Goto(t, "exit", t)
        /\ UNCHANGED <<refs, registry, waiting, dispose, held, cursor, mem>>

\* An iteration of the loop over the threads that wait, last come first.
ExitIteration(c) ==
    LET t == k.current[c]
    IN  /\ Exiting(c)
        /\ waiting[t] # <<>>
        /\ waiting' = [waiting EXCEPT ![t] = ch_queue_fifo_remove(@)]
        /\ k' = ReadyWithMsg(k, c, Head(waiting[t]), "OK")
        /\ UNCHANGED <<refs, registry, dispose, op, held, cursor, mem>>

\* Mutant: the loop leaves the last thread asleep.
M_ExitEnd(c) ==
    LET t == k.current[c]
    IN  /\ Exiting(c)
        /\ Len(waiting[t]) <= 1
        /\ registry' = IF LeavesAtExit(t) THEN ch_queue_dequeue(registry, t) ELSE registry
        /\ k' = chSchGoSleepS(k, c, "FINAL")
        /\ Finish(t)
        /\ UNCHANGED <<refs, waiting, dispose, held, cursor, mem>>

ExitEnd(c) ==
    LET t == k.current[c]
    IN  /\ Exiting(c)
        /\ waiting[t] = <<>>
        /\ registry' = IF LeavesAtExit(t) THEN ch_queue_dequeue(registry, t) ELSE registry
        /\ k' = chSchGoSleepS(k, c, "FINAL")
        /\ Finish(t)
        /\ UNCHANGED <<refs, waiting, dispose, held, cursor, mem>>

\* What follows the synchronisation: chThdWait() consumes the reference.
SyncDone(t, tp, wait) ==
    IF wait
      THEN Goto(t, "release", tp) /\ held' = [held EXCEPT ![t] = @ \ {tp}]
      ELSE Finish(t) /\ UNCHANGED held

\* chThdSync(), and chThdWait() if wait.
chThdSyncS(c, tp, wait) ==
    LET t == k.current[c]
    IN  /\ Caller(c)
        /\ tp \in held[t]
        /\ tp # t
        /\ \/ /\ k.state[tp] = "FINAL"
              /\ SyncDone(t, tp, wait)
              /\ UNCHANGED <<k, waiting>>
           \/ /\ k.state[tp] # "FINAL"
              /\ waiting' = [waiting EXCEPT ![tp] = <<t>> \o @]
              /\ Goto(t, IF wait THEN "wait" ELSE "sync", tp)
              /\ k' = chSchGoSleepS(k, c, "WTEXIT")
              /\ UNCHANGED held
        /\ UNCHANGED <<refs, registry, dispose, cursor, mem>>

\* The thread that waited reads tp->u.exitcode.
SyncReturn(c) ==
    LET t == k.current[c]
    IN  /\ Resuming(c)
        /\ SyncDone(t, op[t].tp, op[t].op = "wait")
        /\ UNCHANGED <<k, refs, registry, waiting, dispose, cursor, mem>>

-----------------------------------------------------------------------------
(* Traversal of the registry *)

chRegFirstThread(c) ==
    LET t == k.current[c]
        tp == Head(registry)
    IN  /\ Caller(c)
        /\ cursor[t] = NoThread
        /\ refs[tp] < MaxRefs
        /\ refs' = [refs EXCEPT ![tp] = @ + 1]
        /\ cursor' = [cursor EXCEPT ![t] = tp]
        /\ UNCHANGED <<k, registry, waiting, dispose, op, held, mem>>

\* Mutant: the next thread is returned without a reference to it.
M_NextRef(ntp) == refs

NextRef(ntp) == [refs EXCEPT ![ntp] = @ + 1]

\* The reference to the thread left behind is released after the lock.
chRegNextThread(c) ==
    LET t  == k.current[c]
        tp == cursor[t]
    IN  /\ Caller(c)
        /\ tp # NoThread
        /\ \E i \in DOMAIN registry :
              /\ registry[i] = tp
              /\ \/ /\ i = Len(registry)
                    /\ cursor' = [cursor EXCEPT ![t] = NoThread]
                    /\ UNCHANGED refs
                 \/ /\ i < Len(registry)
                    /\ refs[registry[i + 1]] < MaxRefs
                    /\ refs' = NextRef(registry[i + 1])
                    /\ cursor' = [cursor EXCEPT ![t] = registry[i + 1]]
        /\ Goto(t, "release", tp)
        /\ UNCHANGED <<k, registry, waiting, dispose, held, mem>>

\* chRegFindThreadByPointer() and the like stop the scan: the caller keeps the
\* reference of the thread found.
FindThread(c) ==
    LET t == k.current[c]
    IN  /\ Caller(c)
        /\ cursor[t] \in UserThreads \ ({t} \union held[t])
        /\ held' = [held EXCEPT ![t] = @ \union {cursor[t]}]
        /\ cursor' = [cursor EXCEPT ![t] = NoThread]
        /\ UNCHANGED <<k, refs, registry, waiting, dispose, op, mem>>

-----------------------------------------------------------------------------
(* Interrupts of the kernel *)

chThdStartI(c, tp) ==
    /\ Unlocked
    /\ k.state[tp] = "WTSTART"
    /\ k' = ReadyWithMsg(EnterIsr(k, c), c, tp, "OK")
    /\ UNCHANGED <<life, mem>>

Notified(c) ==
    /\ Unlocked
    /\ c \in k.notified
    /\ k' = NotifyIrq(k, c)
    /\ UNCHANGED <<life, mem>>

ExitIsr(c) ==
    /\ Unlocked
    /\ IsrExitEnabled(k, c)
    /\ k' = IsrExit(k, c)
    /\ UNCHANGED <<life, mem>>

-----------------------------------------------------------------------------
Creation(c) ==
    \/ \E tp \in Static, run \in BOOLEAN : chThdCreate(c, tp, run)
    \/ \E tp \in Dynamic :
          \/ Owner[tp] = c /\ AllocObject(c, tp, "create")
          \/ AllocObject(c, tp, "spawn")
    \/ AllocStack(c)
    \/ CreateAllocated(c)
    \/ \E tp \in UserThreads : chThdStart(c, tp)

References(c) ==
    \/ \E tp, u \in UserThreads : chThdAddRef(c, tp, u)
    \/ \E tp \in Threads : chThdRelease(c, tp)
    \/ ReleaseAfter(c)
    \/ Dispose(c)
    \/ FreeObject(c)
    \/ chRegFirstThread(c)
    \/ chRegNextThread(c)
    \/ FindThread(c)

Termination(c) ==
    \/ chThdExitS(c)
    \/ ExitIteration(c)
    \/ ExitEnd(c)
    \/ \E tp \in UserThreads, wait \in BOOLEAN : chThdSyncS(c, tp, wait)
    \/ SyncReturn(c)

KernelIrq(c) ==
    \/ \E tp \in UserThreads : chThdStartI(c, tp)
    \/ Notified(c)
    \/ ExitIsr(c)

Next == \E c \in Cores : Creation(c) \/ References(c) \/ Termination(c) \/ KernelIrq(c)

Spec == Init /\ [][Next]_vars

-----------------------------------------------------------------------------
(* Safety *)

\* The references to tp somebody owns.
RefsOwned(tp) ==
    Cardinality({t \in Threads : tp \in held[t]})
        + Cardinality({t \in Threads : cursor[t] = tp})
        + Cardinality({t \in Threads : op[t] = [op |-> "release", tp |-> tp]})

\* A thread that is being created or disposed of by somebody.
Building(tp) == {t \in Threads : op[t].tp = tp /\ op[t].op \in {"create", "spawn", "spawned"}}
Disposing(tp) == {t \in Threads : op[t].tp = tp /\ op[t].op \in {"dispose", "freeobj"}}

\* The counter is the number of references in somebody's hands, and a thread
\* that anybody holds, scans over, waits for, or that is queued or running,
\* is in the registry and its memory has not been given back: no pointer is
\* ever followed into memory that was reused.
ReferencesSafe ==
    /\ \A tp \in UserThreads \ {Main} : refs[tp] = RefsOwned(tp)
    /\ \A tp \in Threads :
          (refs[tp] > 0 \/ k.state[tp] # "FINAL" \/ waiting[tp] # <<>>)
              => InRegistry(tp) /\ tp \notin memfree /\ Building(tp) = {}
    /\ NoDuplicates(registry)

\* Memory of the allocators is never lost nor returned twice: an object is
\* free, or in the hands of the one thread that is creating or disposing of
\* it, or of a registered thread, which a scan can reach; the same number of
\* stacks is always around.  A callback is called on dead threads only.
MemoryAccounted ==
    /\ \A tp \in Dynamic :
          Cardinality(Building(tp) \union Disposing(tp))
              + (IF tp \in memfree THEN 1 ELSE 0) + (IF InRegistry(tp) THEN 1 ELSE 0) = 1
    /\ stacks = Stacks
                  - Cardinality({tp \in Dynamic : InRegistry(tp) /\ dispose[tp] = "spawnfree"})
                  - Cardinality({t \in Threads : op[t].op = "spawned"})
                  - Cardinality({t \in Threads : op[t].op = "dispose"
                                                 /\ dispose[op[t].tp] = "spawnfree"})

\* Nobody waits for a thread that has ended, and whoever is woken finds the
\* thread ended with its exit code still in place, however late it runs (it
\* is woken just before that end, in the same critical section).
ExitObserved ==
    /\ \A tp \in Threads :
          /\ NoDuplicates(waiting[tp])
          /\ ToSet(waiting[tp]) = {t \in Threads : k.state[t] = "WTEXIT" /\ op[t].tp = tp}
          /\ k.state[tp] = "FINAL" => waiting[tp] = <<>>
    /\ \A t \in Threads :
          (op[t].op \in {"sync", "wait"} /\ k.state[t] # "WTEXIT")
              => /\ k.rdymsg[op[t].tp] = "EXIT"
                 /\ \/ k.state[op[t].tp] = "FINAL"
                    \/ op[op[t].tp].op = "exit" /\ k.state[t] = "READY"
=============================================================================
