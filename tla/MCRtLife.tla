------------------------------ MODULE MCRtLife ------------------------------
(* Small instances of RtLife. *)
EXTENDS RtLife

CONSTANTS c0, c1, idle0, idle1, main, wS, wD

\* Two cores; the static thread runs on the second one.
MC_Idle  == c0 :> idle0 @@ c1 :> idle1
MC_Owner == idle0 :> c0 @@ idle1 :> c1 @@ main :> c0 @@ wS :> c1 @@ wD :> c0
MC_Prio  == idle0 :> 1 @@ idle1 :> 1 @@ main :> 2 @@ wS :> 2 @@ wD :> 3
=============================================================================
