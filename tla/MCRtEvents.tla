----------------------------- MODULE MCRtEvents -----------------------------
(* Small instances of RtEvents. *)
EXTENDS RtEvents

CONSTANTS c0, c1, idle0, idle1, tA, tB, f1, f2

\* Two threads on one core, tB above tA; the other core only has handlers.
MC_Idle  == c0 :> idle0 @@ c1 :> idle1
MC_Owner == idle0 :> c0 @@ idle1 :> c1 @@ tA :> c0 @@ tB :> c0
MC_Prio  == idle0 :> 1 @@ idle1 :> 1 @@ tA :> 2 @@ tB :> 3

\* Listeners want one of the two flags.  A broadcast gives event 0, a signal
\* event 1: a wait for all the events needs both.
MC_RegArgs == {[events |-> {0}, wflags |-> {f1}]}

MC_Waits == [kind : {"one", "any", "all"}, events : {{0, 1}}]

MC_Symmetry == Permutations(Listeners)

\* The threads whose message somebody still reads: out of a wait, and asleep
\* until it is written, u.rdymsg is stale.
MC_Woken == {t \in Threads : wait[t] # NoWait /\ k.state[t] \notin {"WTOREVT", "WTANDEVT"}}

\* What decides the next steps and the properties.  Left out: stale messages,
\* whether the core without threads is in a handler, and the flags a
\* listener has not asked for.
MC_View == <<[k EXCEPT !.isr = @ \ {c1}, !.rdymsg = [t \in MC_Woken |-> @[t]]],
             epending, ewmask, wait, list,
             [e \in Listeners |-> [el[e] EXCEPT !.flags = @ \intersect el[e].wflags]],
             loop, taken>>
=============================================================================
