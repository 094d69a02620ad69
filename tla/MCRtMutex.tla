----------------------------- MODULE MCRtMutex -----------------------------
(* Small instances of RtMutex. *)
EXTENDS RtMutex

CONSTANTS c0, c1, idle0, idle1, tA, tB, tC

MC_Idle1  == c0 :> idle0
MC_Owner1 == idle0 :> c0 @@ tA :> c0 @@ tB :> c0 @@ tC :> c0
MC_Prio1  == idle0 :> 1 @@ tA :> 2 @@ tB :> 3 @@ tC :> 4

MC_Idle2  == c0 :> idle0 @@ c1 :> idle1
MC_Owner2 == idle0 :> c0 @@ idle1 :> c1 @@ tA :> c0 @@ tB :> c1 @@ tC :> c0
MC_Prio2  == idle0 :> 1 @@ idle1 :> 1 @@ tA :> 2 @@ tB :> 3 @@ tC :> 4
=============================================================================
