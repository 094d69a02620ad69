---------------------------- MODULE MCRtThreads ----------------------------
(* Small instances of RtThreads: one core and two cores. *)
EXTENDS RtThreads

CONSTANTS c0, c1, idle0, idle1, tA, tB, tC, tD

\* One core; tA and tB are peers at the highest level, tC and tD below.
MC_Idle1  == c0 :> idle0
MC_Owner1 == idle0 :> c0 @@ tA :> c0 @@ tB :> c0 @@ tC :> c0 @@ tD :> c0
MC_PrioRR == idle0 :> 1 @@ tA :> 3 @@ tB :> 3 @@ tC :> 2 @@ tD :> 2

\* Two cores; tA and tC on the first one, tB on the second one.
MC_Idle2  == c0 :> idle0 @@ c1 :> idle1
MC_Owner2 == idle0 :> c0 @@ idle1 :> c1 @@ tA :> c0 @@ tC :> c0 @@ tB :> c1
MC_Prio2  == idle0 :> 1 @@ idle1 :> 1 @@ tA :> 2 @@ tC :> 3 @@ tB :> 2
=============================================================================
