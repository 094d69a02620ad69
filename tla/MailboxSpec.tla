---------------------------- MODULE MailboxSpec ----------------------------
(***************************************************************************)
(* What a mailbox promises to its users, with no ring of slots, no queues, *)
(* no timers and no scheduler: a bounded double ended sequence of          *)
(* messages, a reset state and the calls that are blocked.  LibMailbox     *)
(* implements it.                                                          *)
(***************************************************************************)
EXTENDS Sequences, Integers

CONSTANTS Users, Msgs, Size, NotBlocked

VARIABLES
    buf,        \* the messages, the next one to be fetched first
    inreset,    \* the mailbox refuses every operation
    blocked,    \* blocked[u]: [take, timed] for a blocked call, or NotBlocked
    shaken      \* users whose blocked call was interrupted by a reset

mvars == <<buf, inreset, blocked, shaken>>

MInit ==
    /\ buf = <<>>
    /\ inreset = FALSE
    /\ blocked = [u \in Users |-> NotBlocked]
    /\ shaken = {}

BlockedUsers == {u \in Users : blocked[u] # NotBlocked}

\* The call of u, if it was blocked, returns.
Leave(u) ==
    /\ blocked' = [blocked EXCEPT ![u] = NotBlocked]
    /\ shaken' = shaken \ {u}

\* One more message, at either end, and one less.
Grow == Len(buf) < Size /\ \E m \in Msgs : buf' = Append(buf, m) \/ buf' = <<m>> \o buf

Shrink == buf # <<>> /\ buf' = Tail(buf)

\* A call of u is served, at once or after it was blocked.
Put(u) ==
    /\ ~ inreset
    /\ u \in BlockedUsers => ~ blocked[u].take
    /\ Grow
    /\ Leave(u)
    /\ UNCHANGED inreset

Take(u) ==
    /\ ~ inreset
    /\ u \in BlockedUsers => blocked[u].take
    /\ Shrink
    /\ Leave(u)
    /\ UNCHANGED inreset

\* The calls of interrupt handlers never block.
Handler == ~ inreset /\ (Grow \/ Shrink) /\ UNCHANGED <<inreset, blocked, shaken>>

\* A call blocks only if it cannot be served.
Block(u) ==
    /\ ~ inreset
    /\ u \notin BlockedUsers
    /\ \E take, timed \in BOOLEAN :
        /\ IF take THEN buf = <<>> ELSE Len(buf) = Size
        /\ blocked' = [blocked EXCEPT ![u] = [take |-> take, timed |-> timed]]
    /\ UNCHANGED <<buf, inreset, shaken>>

\* A blocked call returns without effect: it had a timeout, or there was a
\* reset.  A call without timeout has no other way out than being served.
GiveUp(u) ==
    /\ u \in BlockedUsers
    /\ blocked[u].timed \/ inreset \/ u \in shaken
    /\ Leave(u)
    /\ UNCHANGED <<buf, inreset>>

Reset ==
    /\ buf' = <<>>
    /\ inreset' = TRUE
    /\ shaken' \in SUBSET BlockedUsers
    /\ shaken \subseteq shaken'
    /\ UNCHANGED blocked

Resume == inreset' = FALSE /\ UNCHANGED <<buf, blocked, shaken>>

MNext ==
    \/ \E u \in Users : Put(u) \/ Take(u) \/ Block(u) \/ GiveUp(u)
    \/ Handler \/ Reset \/ Resume

MSpec == MInit /\ [][MNext]_mvars
=============================================================================
