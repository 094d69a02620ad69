------------------------------ MODULE MCRtMsg ------------------------------
(* Small instances of RtMsg. *)
EXTENDS RtMsg

CONSTANTS c0, c1, idle0, idle1, tA, tB, tC

\* Two cores; tA and tC on the first one, tB on the second one.
MC_Idle  == c0 :> idle0 @@ c1 :> idle1
MC_Owner == idle0 :> c0 @@ idle1 :> c1 @@ tA :> c0 @@ tC :> c0 @@ tB :> c1
MC_Prio  == idle0 :> 1 @@ idle1 :> 1 @@ tA :> 2 @@ tC :> 3 @@ tB :> 2
=============================================================================
