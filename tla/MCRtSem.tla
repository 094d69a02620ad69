------------------------------ MODULE MCRtSem ------------------------------
(* A small instance of RtSem: two semaphores, two threads of one core with  *)
(* different priorities, and the interrupt handlers of a second core.       *)
EXTENDS RtSem

CONSTANTS c0, c1, idle0, idle1, tA, tB, s1, s2

MC_Idle  == c0 :> idle0 @@ c1 :> idle1
MC_Owner == idle0 :> c0 @@ idle1 :> c1 @@ tA :> c0 @@ tB :> c0
MC_Prio  == idle0 :> 1 @@ idle1 :> 1 @@ tA :> 2 @@ tB :> 3

MC_Init == s1 :> 0 @@ s2 :> 1
=============================================================================
