------------------------------ MODULE ChLists ------------------------------
(***************************************************************************)
(* The kernel's intrusive lists (chlists.h) as sequences.  A circular list *)
(* with a header is the sequence of its elements, head first; the links    *)
(* and the header are abstracted.  The header of a priority queue has      *)
(* priority 0, below every thread, so a scan always stops at the header:   *)
(* that is position Len(q) + 1 here.                                       *)
(***************************************************************************)
EXTENDS Integers, SequencesExt

-----------------------------------------------------------------------------
(* Plain queues: ch_queue_t and ch_list_t *)

ch_queue_insert(q, e) == Append(q, e)

\* ch_queue_fifo_remove(), the element is Head(q).
ch_queue_fifo_remove(q) == Tail(q)

\* Mutant: the element stays linked.
M_queue_dequeue(q, e) == q

\* Unlinks an element wherever it is; a thread is in a queue at most once.
ch_queue_dequeue(q, e) == RemoveFirst(q, e)

-----------------------------------------------------------------------------
(* Priority queues *)

\* The first position of q the scan does not walk over; passed holds the
\* positions where the loop condition of the scan is true.
ScanStop(q, passed) ==
    CHOOSE i \in 1 .. Len(q) + 1 :
        /\ \A j \in 1 .. i - 1 : j \in passed
        /\ i <= Len(q) => i \notin passed

\* Mutant: >= became >, the element goes ahead of its peers.
M_insert_behind(q, e, prio) ==
    InsertAt(q, ScanStop(q, {j \in DOMAIN q : prio[q[j]] > prio[e]}), e)

\* Behind every element with higher or equal priority.  The same scan is
\* ch_sch_prio_insert(), which orders the wait queues.
ch_pqueue_insert_behind(q, e, prio) ==
    InsertAt(q, ScanStop(q, {j \in DOMAIN q : prio[q[j]] >= prio[e]}), e)

\* Ahead of the peers with the same priority.
ch_pqueue_insert_ahead(q, e, prio) ==
    InsertAt(q, ScanStop(q, {j \in DOMAIN q : prio[q[j]] > prio[e]}), e)

\* ch_sch_prio_insert(): a thread in a wait queue, highest priority first.
ch_sch_prio_insert(q, e, prio) == ch_pqueue_insert_behind(q, e, prio)

-----------------------------------------------------------------------------
(* What a queue must look like; used by the invariants of the components. *)

SortedByPrio(q, prio) == IsSorted(q, LAMBDA x, y : prio[x] >= prio[y])

NoDuplicates(q) == IsSorted(q, LAMBDA x, y : x # y)
=============================================================================
