------------------------------- MODULE MCRtVT -------------------------------
(* Small instances of RtVT.  The timers are interchangeable, and nothing     *)
(* depends on where the counter starts: the view gives the times relative    *)
(* to the counter.                                                           *)
EXTENDS RtVT

MC_Symmetry == Permutations(Timers)

MC_View ==
    << list, reload, lastdelta, alarmOn, pending, busy, due,
       chTimeDiffX(lasttime, counter), chTimeDiffX(alarm, counter),
       IF sec = NoSec THEN sec ELSE [sec EXCEPT !.now = chTimeDiffX(@, counter)],
       IF tick.pc # "callback" THEN tick
       ELSE [tick EXCEPT !.lasttime = chTimeDiffX(@, counter)] >>
=============================================================================
