------------------------------- MODULE RtMsg -------------------------------
(***************************************************************************)
(* Synchronous messages (chmsg.c) over the scheduler: a sender blocks in   *)
(* the queue of its receiver until the receiver answers, the receiver      *)
(* waits with or without timeout, polls, answers in any order, releases    *)
(* everybody, and may exit.  A thread that is switched in inside a wait    *)
(* still holds the kernel lock and finishes the wait first (Resuming). The *)
(* loop of chMsgReleaseAllI() is one step per iteration, with the lock     *)
(* held: while loop # NoLoop no other step of any core is possible.        *)
(***************************************************************************)
EXTENDS ChSched

CONSTANTS
    Replies,        \* the answers given by receivers, among Messages
    MsgPriority,    \* CH_CFG_USE_MESSAGES_PRIORITY
    Prio            \* Prio[t]: the priority a thread is created with

ASSUME MsgAssumption ==
    /\ Replies \subseteq Messages
    /\ MsgPriority \in BOOLEAN
    /\ Prio \in [Threads -> Prios]
    /\ \A c \in Cores : Prio[Idle[c]] = IDLEPRIO
    /\ \A t \in UserThreads : Prio[t] >= LOWPRIO

VARIABLES
    k,          \* the kernel state
    msgqueue,   \* msgqueue[t]: the senders queued on t
    wtobj,      \* wtobj[t]: the receiver t is queued on, overwritten by u.rdymsg
    call,       \* call[t]: the blocking call t is inside of
    received,   \* received[t]: senders t has been given and has not answered
    loop,       \* the loop being executed with the lock held, or NoLoop
    answer      \* ghost, answer[t]: the answer given to the send t is inside of

vars == <<k, msgqueue, wtobj, call, received, loop, answer>>

NoLoop == [op |-> "none"]

\* The running thread of core releases its senders, op tells what follows.
Loops == [op : {"release", "exit"}, core : Cores]

TypeOK ==
    /\ k \in KernelType
    /\ msgqueue \in [Threads -> Seq(Threads)]
    /\ wtobj \in [Threads -> Threads \union {NoThread}]
    /\ call \in [Threads -> {"none", "send", "wait"}]
    /\ received \in [Threads -> SUBSET Threads]
    /\ loop \in Loops \union {NoLoop}
    /\ answer \in [Threads -> Messages \union {"none"}]

Init ==
    /\ k = KernelInit(Prio)
    /\ msgqueue = [t \in Threads |-> <<>>]
    /\ wtobj = [t \in Threads |-> NoThread]
    /\ call = [t \in Threads |-> "none"]
    /\ received = [t \in Threads |-> {}]
    /\ loop = NoLoop
    /\ answer = [t \in Threads |-> "none"]

-----------------------------------------------------------------------------
\* A thread has been switched in and is still inside a wait.
Resuming(c) == call[k.current[c]] = "wait"

Unlocked == loop = NoLoop /\ \A c \in Cores : ~ Resuming(c)

\* The running thread of c can make a call.
Caller(c) == Unlocked /\ InThread(k, c) /\ call[k.current[c]] = "none"

msg_insert(q, t) ==
    IF MsgPriority THEN ch_sch_prio_insert(q, t, k.prio) ELSE ch_queue_insert(q, t)

chMsgIsPendingI(t) == msgqueue[t] # <<>>

\* Mutant: the receiver is not woken.
M_WakeReceiver(c, tp) == k

\* A receiver that waits for a message is made ready by the sender.
WakeReceiver(c, tp) ==
    IF k.state[tp] = "WTMSG" THEN ReadyWithMsg(k, c, tp, "OK") ELSE k

\* To a thread in CH_STATE_FINAL the answer is MSG_RESET at once, no change.
chMsgSend(c, tp) ==
    LET currtp == k.current[c]
    IN  /\ Caller(c)
        /\ tp # currtp
        /\ k.state[tp] # "FINAL"
        /\ wtobj' = [wtobj EXCEPT ![currtp] = tp]
        /\ msgqueue' = [msgqueue EXCEPT ![tp] = msg_insert(@, currtp)]
        /\ call' = [call EXCEPT ![currtp] = "send"]
        /\ k' = chSchGoSleepS(WakeReceiver(c, tp), c, "SNDMSGQ")
        /\ UNCHANGED <<received, loop, answer>>

\* The send of the running thread returns u.rdymsg.
SendReturn(c) ==
    /\ Unlocked
    /\ InThread(k, c)
    /\ call[k.current[c]] = "send"
    /\ call' = [call EXCEPT ![k.current[c]] = "none"]
    /\ answer' = [answer EXCEPT ![k.current[c]] = "none"]
    /\ UNCHANGED <<k, msgqueue, wtobj, received, loop>>

\* The head of the queue, which stays in the queue.
Receive(t) == received' = [received EXCEPT ![t] = @ \union {Head(msgqueue[t])}]

\* chMsgWaitS() and chMsgWaitTimeoutS() with a message pending, chMsgPollS().
chMsgPollS(c) ==
    /\ Caller(c)
    /\ chMsgIsPendingI(k.current[c])
    /\ Receive(k.current[c])
    /\ UNCHANGED <<k, msgqueue, wtobj, call, loop, answer>>

\* The same without a message; chMsgWaitS() is the case ~ timed.
chMsgWaitTimeoutS(c, timed) ==
    /\ Caller(c)
    /\ ~ chMsgIsPendingI(k.current[c])
    /\ call' = [call EXCEPT ![k.current[c]] = "wait"]
    /\ k' = chSchGoSleepTimeoutS(k, c, "WTMSG", timed)
    /\ UNCHANGED <<msgqueue, wtobj, received, loop, answer>>

\* The second half of the wait: NULL after a timeout, else the head.
WaitReturn(c) ==
    LET t == k.current[c]
    IN  /\ Resuming(c)
        /\ call' = [call EXCEPT ![t] = "none"]
        /\ \/ k.rdymsg[t] # "OK" /\ UNCHANGED received
           \/ k.rdymsg[t] = "OK" /\ Receive(t)
        /\ UNCHANGED <<k, msgqueue, wtobj, loop, answer>>

\* Mutant: the head of the queue is released, whoever was answered.
M_chMsgRelease(c, tp, msg) ==
    LET t == k.current[c]
    IN  /\ Caller(c)
        /\ tp \in received[t]
        /\ msgqueue' = [msgqueue EXCEPT ![t] = Tail(@)]
        /\ wtobj' = [wtobj EXCEPT ![Head(msgqueue[t])] = NoThread]
        /\ received' = [received EXCEPT ![t] = @ \ {tp}]
        /\ answer' = [answer EXCEPT ![tp] = msg]
        /\ k' = chSchWakeupS(k, c, Head(msgqueue[t]), msg)
        /\ UNCHANGED <<call, loop>>

\* Answers a sender that a wait or a poll has returned.
chMsgRelease(c, tp, msg) ==
    LET t == k.current[c]
    IN  /\ Caller(c)
        /\ tp \in received[t]
        /\ msgqueue' = [msgqueue EXCEPT ![t] = ch_queue_dequeue(@, tp)]
        /\ wtobj' = [wtobj EXCEPT ![tp] = NoThread]
        /\ received' = [received EXCEPT ![t] = @ \ {tp}]
        /\ answer' = [answer EXCEPT ![tp] = msg]
        /\ k' = chSchWakeupS(k, c, tp, msg)
        /\ UNCHANGED <<call, loop>>

\* chSysLock(); chMsgReleaseAllI(); chSchRescheduleS(); chSysUnlock();
MsgReleaseAll(c) ==
    /\ Caller(c)
    /\ chMsgIsPendingI(k.current[c])
    /\ loop' = [op |-> "release", core |-> c]
    /\ UNCHANGED <<k, msgqueue, wtobj, call, received, answer>>

\* chSysLock(); chMsgReleaseAllI(); chThdExitS(); the queue has to be empty
\* when a thread exits, and the lock keeps it so.
ThdExit(c) ==
    /\ Caller(c)
    /\ loop' = [op |-> "exit", core |-> c]
    /\ UNCHANGED <<k, msgqueue, wtobj, call, received, answer>>

\* An iteration of chMsgReleaseAllI() on the queue of the running thread.
chMsgReleaseAllI ==
    LET t  == k.current[loop.core]
        tp == Head(msgqueue[t])
    IN  /\ loop # NoLoop
        /\ msgqueue[t] # <<>>
        /\ msgqueue' = [msgqueue EXCEPT ![t] = ch_queue_fifo_remove(@)]
        /\ wtobj' = [wtobj EXCEPT ![tp] = NoThread]
        /\ received' = [received EXCEPT ![t] = @ \ {tp}]
        /\ answer' = [answer EXCEPT ![tp] = "RESET"]
        /\ k' = ReadyWithMsg(k, loop.core, tp, "RESET")
        /\ UNCHANGED <<call, loop>>

ReleaseAllEnd ==
    /\ loop # NoLoop
    /\ msgqueue[k.current[loop.core]] = <<>>
    /\ k' = IF loop.op = "exit" THEN chSchGoSleepS(k, loop.core, "FINAL")
            ELSE chSchRescheduleS(k, loop.core)
    /\ loop' = NoLoop
    /\ UNCHANGED <<msgqueue, wtobj, call, received, answer>>

\* The other threads go on: the running thread sleeps for a while.
chThdSleepS(c) ==
    /\ Caller(c)
    /\ k' = chSchGoSleepTimeoutS(k, c, "SLEEPING", TRUE)
    /\ UNCHANGED <<msgqueue, wtobj, call, received, loop, answer>>

-----------------------------------------------------------------------------
(* Interrupts of the kernel *)

objs == <<msgqueue, wtobj, call, received, loop, answer>>

chThdStartI(c, t) ==
    /\ Unlocked
    /\ k.state[t] = "WTSTART"
    /\ k' = ReadyWithMsg(EnterIsr(k, c), c, t, "OK")
    /\ UNCHANGED objs

Expire(c, t) ==
    /\ Unlocked
    /\ TimerDueEnabled(k, c, t)
    /\ k' = TimerDue(k, c, t)
    /\ UNCHANGED objs

\* The timeout callback: a receiver is in no queue.
sch_wakeup(c) ==
    LET t == k.firing[c]
        kk == [k EXCEPT !.firing[c] = NoThread]
    IN  /\ Unlocked
        /\ t # NoThread
        /\ k' = IF AlreadyReady(k, t) THEN kk
                ELSE sch_ready_behind([kk EXCEPT !.rdymsg[t] = "TIMEOUT"], t)
        /\ UNCHANGED objs

Notified(c) ==
    /\ Unlocked
    /\ c \in k.notified
    /\ k' = NotifyIrq(k, c)
    /\ UNCHANGED objs

ExitIsr(c) ==
    /\ Unlocked
    /\ IsrExitEnabled(k, c)
    /\ k' = IsrExit(k, c)
    /\ UNCHANGED objs

-----------------------------------------------------------------------------
MsgCall(c) ==
    \/ \E tp \in UserThreads : chMsgSend(c, tp)
    \/ SendReturn(c)
    \/ chMsgPollS(c)
    \/ \E timed \in BOOLEAN : chMsgWaitTimeoutS(c, timed)
    \/ WaitReturn(c)
    \/ \E tp \in UserThreads, msg \in Replies : chMsgRelease(c, tp, msg)
    \/ MsgReleaseAll(c)
    \/ ThdExit(c)
    \/ chThdSleepS(c)

KernelIrq(c) ==
    \/ \E t \in UserThreads : chThdStartI(c, t)
    \/ \E t \in Threads : Expire(c, t)
    \/ sch_wakeup(c)
    \/ Notified(c)
    \/ ExitIsr(c)

Next ==
    \/ \E c \in Cores : MsgCall(c) \/ KernelIrq(c)
    \/ chMsgReleaseAllI \/ ReleaseAllEnd

Spec == Init /\ [][Next]_vars

-----------------------------------------------------------------------------
(* Safety *)

\* Nobody is forgotten: a thread in CH_STATE_SNDMSGQ is in the queue of the one
\* receiver it sent to, once, that receiver has not finished and is not
\* asleep waiting for a message.  This holds when the timeout of the receiver
\* races the arrival of the sender and when the receiver exits.
SendersServed ==
    \A t \in Threads :
        /\ NoDuplicates(msgqueue[t])
        /\ ToSet(msgqueue[t]) = {u \in Threads : k.state[u] = "SNDMSGQ" /\ wtobj[u] = t}
        /\ MsgPriority => SortedByPrio(msgqueue[t], k.prio)
        /\ msgqueue[t] # <<>> => k.state[t] \notin {"WTMSG", "FINAL"}

\* What a receiver has been given stays valid until it answers: the sender is
\* still blocked on this receiver (the assertions of chMsgGet() and
\* chMsgReleaseS()), and a wait that was woken by a sender finds a sender in
\* the queue when it runs, so what it returns is a thread.
HeldSendersBlocked ==
    \A t \in Threads :
        /\ received[t] \subseteq ToSet(msgqueue[t])
        /\ (call[t] = "wait" /\ k.state[t] # "WTMSG" /\ k.rdymsg[t] = "OK")
              => chMsgIsPendingI(t)

\* A send returns the answer its receiver gave to this message, nobody
\* else's, and only after it has been given.
AnswersMatch ==
    \A t \in Threads :
        (call[t] = "send" /\ k.state[t] # "SNDMSGQ") => k.rdymsg[t] = answer[t]

\* The scheduler structures are exact and out of the kernel the most important
\* ready thread of a core runs.
KernelOK ==
    /\ ReadyListExact(k) /\ ReadyListSorted(k) /\ CurrentExact(k)
    /\ Unlocked => \A c \in Cores \ (k.isr \union k.notified) : PriorityOrder(k, c)
=============================================================================
