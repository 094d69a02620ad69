---------------------------- MODULE MCLibMailbox ----------------------------
(* A small instance of LibMailbox: two threads above idle, a counter of     *)
(* five values, two slots.                                                 *)
EXTENDS LibMailbox

CONSTANTS m1, m2

\* No timeout, an immediate one, and one that may need a new origin.
MC_Timeouts == {TIME_INFINITE, TIME_IMMEDIATE, TIME_MAX_INTERVAL}
MC_Naps     == {TimeDelta}

\* Only differences of times matter, none when the alarm is stopped, and a slot
\* that holds no message is written before it is read.
MC_View ==
    << [n EXCEPT !.clock = 0,
                 !.lasttime = IF n.started THEN chTimeDiffX(@, n.clock) ELSE 0,
                 !.alarm = IF n.started THEN chTimeDiffX(n.clock, @) ELSE 0],
       Messages, mb.rdptr, mb.wrptr, mb.reset, call >>
=============================================================================
