-------------------------------- MODULE RtVT --------------------------------
(***************************************************************************)
(* The virtual timers of one core in tickless mode (chvt.c with            *)
(* CH_CFG_ST_TIMEDELTA > 0): the delta list, the alarm of the physical     *)
(* counter and the ticker chVTDoTickI().                                   *)
(*                                                                         *)
(* The counter goes on while the code runs, with the kernel lock held too, *)
(* so a computation from one reading of the counter is one step and the    *)
(* writing of the alarm and the check that follows it are steps of their   *)
(* own (sec).  There is no absolute time: due[t], a history variable, is   *)
(* how far the deadline of an armed timer is, negative when it has passed. *)
(***************************************************************************)
EXTENDS Integers, SequencesExt

CONSTANTS
    Timers,
    Delays,      \* the delays and reload intervals of the application
    W,           \* systime_t wraps at 2^CH_CFG_ST_RESOLUTION
    I,           \* sysinterval_t wraps at 2^CH_CFG_INTERVALS_SIZE
    MaxDelay,    \* VT_MAX_DELAY, used when I > W
    TimeDelta,   \* CH_CFG_ST_TIMEDELTA
    MaxSection,  \* bound: ticks that programming the alarm takes
    MaxTicker,   \* bound: ticks the ticker takes, with its callbacks
    MaxLatency,  \* bound: ticks an interrupt waits to be served
    Span         \* bound on the application: its calls program no alarm more
                 \* than Span ticks after the base of the list

ASSUME VTAssumption ==
    /\ W \in Nat /\ I \in Nat /\ W <= I
    /\ TimeDelta \in 2 .. MaxDelay
    /\ MaxDelay \in 1 .. W - 1
    /\ MaxSection \in Nat /\ MaxTicker \in Nat /\ MaxLatency \in Nat /\ Span \in Nat
    /\ Delays \subseteq 1 .. I - 1

VARIABLES
    counter,     \* the physical counter, chVTGetSystemTimeX()
    list,        \* vtlp->dlist: sequence of [tmr, delta]
    reload,      \* reload[t]: vtp->reload
    lasttime,    \* vtlp->lasttime, the time base of the list
    lastdelta,   \* vtlp->lastdelta, the smallest delay it is safe to program
    alarm,       \* the compare register of the counter
    alarmOn,     \* the compare interrupt is enabled
    pending,     \* the compare interrupt is pending
    sec,         \* the alarm being programmed with the lock held, or NoSec
    tick,        \* where chVTDoTickI() is
    busy,        \* ticks spent in the current section, handler or latency
    due          \* history: due[t]: ticks to the deadline of an armed timer

alarmvars == <<alarm, alarmOn, pending>>
vars == <<counter, list, reload, lasttime, lastdelta, alarmvars, sec, tick, busy, due>>

TIME_INFINITE == I - 1

NoSec == [pc |-> "none"]

Sections == [pc : {"program", "check"}, first : BOOLEAN,
             now : 0 .. W - 1, delay : 1 .. W - 1, currdelta : 1 .. W - 1]

\* callback: the callback of tmr is running without the lock; lasttime is
\* the deadline it was called for and late, a history field, its delay.
Ticks == [pc : {"idle", "loop"}]
            \union [pc : {"callback"}, tmr : Timers, lasttime : 0 .. W - 1, late : Int]

Idle == [pc |-> "idle"]
Loop == [pc |-> "loop"]

Armed(t) == \E i \in DOMAIN list : list[i].tmr = t

TypeOK ==
    /\ counter \in 0 .. W - 1
    /\ list \in Seq([tmr : Timers, delta : 0 .. TIME_INFINITE])
    /\ reload \in [Timers -> 0 .. TIME_INFINITE]
    /\ lasttime \in 0 .. W - 1
    /\ lastdelta \in TimeDelta .. W - 1
    /\ alarm \in 0 .. W - 1
    /\ alarmOn \in BOOLEAN /\ pending \in BOOLEAN
    /\ sec \in Sections \union {NoSec}
    /\ tick \in Ticks
    /\ busy \in 0 .. (MaxSection + MaxTicker + MaxLatency)
    /\ due \in [Timers -> Int]

Init ==
    /\ counter = 0
    /\ list = <<>>
    /\ reload = [t \in Timers |-> 0]
    /\ lasttime = 0
    /\ lastdelta = TimeDelta
    /\ alarm = 0 /\ alarmOn = FALSE /\ pending = FALSE
    /\ sec = NoSec
    /\ tick = Idle
    /\ busy = 0
    /\ due = [t \in Timers |-> 0]

-----------------------------------------------------------------------------
(* Time and the compare hardware *)

chTimeDiffX(start, end) == (end - start) % W

nowdelta == chTimeDiffX(lasttime, counter)

\* An interrupt waits, or code that was entered runs.
Busy == pending \/ sec # NoSec \/ tick # Idle

\* The counter advances; what has to be quick is.
Elapse ==
    /\ Busy => busy < (IF sec # NoSec THEN MaxSection ELSE 0)
                       + (IF tick # Idle THEN MaxTicker ELSE 0)
                       + (IF pending THEN MaxLatency ELSE 0)
    /\ busy' = IF Busy THEN busy + 1 ELSE 0
    /\ counter' = (counter + 1) % W
    /\ pending' = (pending \/ (alarmOn /\ alarm = counter'))
    /\ due' = [t \in Timers |-> IF Armed(t) THEN due[t] - 1 ELSE 0]
    /\ tick' = IF tick.pc = "callback" THEN [tick EXCEPT !.late = @ + 1] ELSE tick
    /\ UNCHANGED <<list, reload, lasttime, lastdelta, alarm, alarmOn, sec>>

port_timer_stop_alarm ==
    /\ alarmOn' = FALSE
    /\ pending' = FALSE
    /\ UNCHANGED alarm

-----------------------------------------------------------------------------
(* Programming the alarm *)

\* Mutant: < for >, the limit of VT_MAX_DELAY became a minimum.
M_vt_set_alarm(first, delay) ==
    [ pc        |-> "program",
      first     |-> first,
      now       |-> counter,
      delay     |-> IF delay < lastdelta THEN lastdelta
                    ELSE IF I > W /\ delay < MaxDelay THEN MaxDelay ELSE delay,
      currdelta |-> lastdelta ]

\* vt_set_alarm(), and vt_insert_first() from the comparison of the delay
\* with lastdelta on: the section that programs the alarm at now + delay.
vt_set_alarm(first, delay) ==
    [ pc        |-> "program",
      first     |-> first,
      now       |-> counter,
      delay     |-> IF delay < lastdelta THEN lastdelta
                    ELSE IF I > W /\ delay > MaxDelay THEN MaxDelay ELSE delay,
      currdelta |-> lastdelta ]

\* port_timer_start_alarm() for the first timer, else port_timer_set_alarm().
\* Setting the alarm to the present time may or may not be a match.
ProgramAlarm ==
    /\ sec.pc = "program"
    /\ alarm' = (sec.now + sec.delay) % W
    /\ alarmOn' = (alarmOn \/ sec.first)
    /\ \/ pending' = (pending /\ ~ sec.first)
       \/ alarm' = counter /\ alarmOn' /\ pending' = TRUE
    /\ sec' = [sec EXCEPT !.pc = "check"]
    /\ UNCHANGED <<counter, list, reload, lasttime, lastdelta, tick, busy, due>>

\* Mutant: <= for <, the alarm is trusted when the counter is at it.
M_Skipped == chTimeDiffX(sec.now, counter) > sec.delay

\* The counter has reached the alarm, or is past it, before the check.
Skipped == chTimeDiffX(sec.now, counter) >= sec.delay

\* The counter is still before the alarm, the loop is left; else it is tried
\* again from the present time with a larger delta.
CheckAlarm ==
    /\ sec.pc = "check"
    /\ \/ /\ ~ Skipped
          /\ lastdelta' = sec.currdelta
          /\ sec' = NoSec
          /\ busy' = IF pending \/ tick # Idle THEN busy ELSE 0
       \/ /\ Skipped
          /\ sec' = [sec EXCEPT !.pc = "program", !.first = FALSE, !.now = counter,
                                !.delay = sec.currdelta + 1, !.currdelta = @ + 1]
          /\ UNCHANGED <<lastdelta, busy>>
    /\ UNCHANGED <<counter, list, reload, lasttime, alarmvars, tick, due>>

-----------------------------------------------------------------------------
(* The delta list *)

\* The time of the i-th element, counted from the base of the list.
TimeOf(dl, i) == FoldLeft(LAMBDA s, e : s + e.delta, 0, SubSeq(dl, 1, i))

\* Mutant: the delta is not made relative to the element before.
M_dlist_insert(dl, t, delta) ==
    LET i == CHOOSE j \in 1 .. Len(dl) + 1 :
                 /\ \A h \in 1 .. j - 1 : TimeOf(dl, h) < delta
                 /\ j <= Len(dl) => TimeOf(dl, j) >= delta
    IN  InsertAt(dl, i, [tmr |-> t, delta |-> delta])

\* Before the first element that is not earlier; the delta of that element
\* becomes relative to the new one.
ch_dlist_insert(dl, t, delta) ==
    LET i   == CHOOSE j \in 1 .. Len(dl) + 1 :
                   /\ \A h \in 1 .. j - 1 : TimeOf(dl, h) < delta
                   /\ j <= Len(dl) => TimeOf(dl, j) >= delta
        new == [tmr |-> t, delta |-> delta - TimeOf(dl, i - 1)]
        adj == IF i <= Len(dl) THEN [dl EXCEPT ![i].delta = @ - new.delta] ELSE dl
    IN  InsertAt(adj, i, new)

\* Mutant: the delta of the element is lost with it.
M_DListRemove(dl, i) == RemoveAt(dl, i)

\* The delta of the element at i is added to the next one and the element is
\* unlinked.
DListRemove(dl, i) ==
    LET adj == IF i < Len(dl) THEN [dl EXCEPT ![i + 1].delta = @ + dl[i].delta] ELSE dl
    IN  RemoveAt(adj, i)

vt_add_delta(base, delay) ==
    IF delay > TIME_INFINITE - base THEN TIME_INFINITE ELSE base + delay

-----------------------------------------------------------------------------
(* Timer operations: of threads, of interrupt handlers, of callbacks *)

Unlocked == sec = NoSec /\ tick.pc # "loop"

vt_enqueue(t, delay) ==
    IF list = <<>>
      THEN /\ list' = <<[tmr |-> t, delta |-> delay]>>
           /\ lasttime' = counter
           /\ sec' = vt_set_alarm(TRUE, delay)
           /\ due' = [due EXCEPT ![t] = delay]
      ELSE LET delta == vt_add_delta(nowdelta, delay)
           IN  /\ list' = ch_dlist_insert(list, t, delta)
               /\ sec' = IF delta < Head(list).delta THEN vt_set_alarm(FALSE, delay)
                         ELSE NoSec
               /\ due' = [due EXCEPT ![t] = delta - nowdelta]
               /\ UNCHANGED lasttime

\* The base of the list moves when the ticker runs or the list is empty.
\* Calls that go on postponing the alarm keep the ticker from running.
WithinSpan(base) == sec' # NoSec => chTimeDiffX(base, counter) + sec'.delay <= Span

\* chVTDoSetI(), or chVTDoSetContinuousI() when continuous.
chVTDoSetI(t, delay, continuous) ==
    /\ Unlocked
    /\ ~ Armed(t)
    /\ reload' = [reload EXCEPT ![t] = IF continuous THEN delay ELSE 0]
    /\ vt_enqueue(t, delay)
    /\ WithinSpan(lasttime')
    /\ UNCHANGED <<counter, lastdelta, alarmvars, tick, busy>>

chVTDoResetI(t) ==
    /\ Unlocked
    /\ \E i \in DOMAIN list :
        LET rest == DListRemove(list, i)
        IN  /\ list[i].tmr = t
            /\ list' = rest
            /\ IF i = 1 /\ rest = <<>> THEN port_timer_stop_alarm ELSE UNCHANGED alarmvars
            /\ sec' = IF i = 1 /\ rest # <<>> /\ nowdelta < Head(rest).delta
                        THEN vt_set_alarm(FALSE, Head(rest).delta - nowdelta)
                        ELSE NoSec
    /\ WithinSpan(lasttime)
    /\ reload' = [reload EXCEPT ![t] = 0]
    /\ due' = [due EXCEPT ![t] = 0]
    /\ UNCHANGED <<counter, lasttime, lastdelta, tick, busy>>

\* Of use in the callback of the timer, which is not armed then.
chVTSetReloadIntervalX(t, interval) ==
    /\ tick.pc = "callback" /\ tick.tmr = t
    /\ sec = NoSec
    /\ reload' = [reload EXCEPT ![t] = interval]
    /\ UNCHANGED <<counter, list, lasttime, lastdelta, alarmvars, sec, tick, busy, due>>

-----------------------------------------------------------------------------
(* chVTDoTickI() *)

\* The compare interrupt is served.
TickEnter ==
    /\ pending
    /\ sec = NoSec /\ tick = Idle
    /\ pending' = FALSE
    /\ tick' = Loop
    /\ busy' = 0
    /\ UNCHANGED <<counter, list, reload, lasttime, lastdelta, alarm, alarmOn, sec, due>>

\* The first timer is due: it is unlinked and its callback is entered.
TickFire ==
    LET vtp  == Head(list)
        last == (lasttime + vtp.delta) % W
    IN  /\ tick.pc = "loop" /\ sec = NoSec
        /\ list # <<>>
        /\ nowdelta >= vtp.delta
        /\ lasttime' = last
        /\ list' = Tail(list)
        /\ IF Tail(list) = <<>> THEN port_timer_stop_alarm ELSE UNCHANGED alarmvars
        /\ tick' = [pc |-> "callback", tmr |-> vtp.tmr, lasttime |-> last,
                    late |-> - due[vtp.tmr]]
        /\ due' = [due EXCEPT ![vtp.tmr] = 0]
        /\ UNCHANGED <<counter, reload, lastdelta, sec, busy>>

\* The callback returns and its timer is not to be reloaded.
CallbackDone ==
    /\ tick.pc = "callback" /\ sec = NoSec
    /\ reload[tick.tmr] = 0 \/ Armed(tick.tmr)
    /\ tick' = Loop
    /\ UNCHANGED <<counter, list, reload, lasttime, lastdelta, alarmvars, sec, busy, due>>

\* The callback returns and its timer is reloaded from its last deadline, or
\* postponed when the next deadline has been reached as well.
CallbackReload ==
    LET t         == tick.tmr
        elapsed   == chTimeDiffX(tick.lasttime, counter)
        postponed == elapsed >= reload[t]
        delay     == IF postponed THEN lastdelta ELSE reload[t] - elapsed
        wanted    == IF tick.late >= reload[t] THEN lastdelta ELSE reload[t] - tick.late
    IN  /\ tick.pc = "callback" /\ sec = NoSec
        /\ reload[t] > 0 /\ ~ Armed(t)
        /\ IF list = <<>>
             THEN /\ lasttime' = counter
                  /\ list' = <<[tmr |-> t, delta |-> delay]>>
                  /\ sec' = vt_set_alarm(TRUE, delay)
                  /\ tick' = Idle
                  /\ due' = [due EXCEPT ![t] = wanted]
             ELSE /\ list' = ch_dlist_insert(list, t, vt_add_delta(nowdelta, delay))
                  /\ sec' = IF postponed THEN vt_set_alarm(FALSE, delay) ELSE NoSec
                  /\ tick' = IF postponed THEN Idle ELSE Loop
                  /\ due' = [due EXCEPT ![t] = vt_add_delta(nowdelta, wanted) - nowdelta]
                  /\ UNCHANGED lasttime
        /\ UNCHANGED <<counter, reload, lastdelta, alarmvars, busy>>

\* The first timer is not due: the base of the list moves to the present.
TickEnd ==
    LET delta == Head(list).delta - nowdelta
    IN  /\ tick.pc = "loop" /\ sec = NoSec
        /\ list # <<>>
        /\ nowdelta < Head(list).delta
        /\ lasttime' = (lasttime + nowdelta) % W
        /\ list' = [list EXCEPT ![1].delta = delta]
        /\ sec' = vt_set_alarm(FALSE, delta)
        /\ tick' = Idle
        /\ UNCHANGED <<counter, reload, lastdelta, alarmvars, busy, due>>

TickEmpty ==
    /\ tick.pc = "loop" /\ sec = NoSec
    /\ list = <<>>
    /\ nowdelta < TIME_INFINITE
    /\ tick' = Idle
    /\ busy' = 0
    /\ UNCHANGED <<counter, list, reload, lasttime, lastdelta, alarmvars, sec, due>>

-----------------------------------------------------------------------------
Operation ==
    \E t \in Timers :
        \/ \E delay \in Delays, continuous \in BOOLEAN : chVTDoSetI(t, delay, continuous)
        \/ chVTDoResetI(t)
        \/ \E interval \in Delays : chVTSetReloadIntervalX(t, interval)

Ticker == TickEnter \/ TickFire \/ CallbackDone \/ CallbackReload \/ TickEnd \/ TickEmpty

Next == Elapse \/ Operation \/ Ticker \/ ProgramAlarm \/ CheckAlarm

Spec == Init /\ [][Next]_vars

-----------------------------------------------------------------------------
\* The list tells the truth: for an armed timer, what
\* chVTGetRemainingIntervalI() computes is the time to the deadline that was
\* asked for, across wraps of the counter, insertions before it, removals,
\* changes of the time base and reloads; periods do not drift.
DeadlinesExact ==
    \A i \in DOMAIN list : TimeOf(list, i) - nowdelta = due[list[i].tmr]

\* While a timer is armed and the code is idle the compare interrupt will
\* come, no later than the first deadline or the smallest safe delay: the
\* alarm is never left behind the counter.
AlarmCovers ==
    (sec = NoSec /\ tick = Idle /\ list # <<>> /\ ~ pending) =>
        LET ahead == chTimeDiffX(counter, alarm)
            first == due[Head(list).tmr]
        IN  /\ alarmOn
            /\ ahead > 0
            /\ ahead <= first \/ ahead <= lastdelta

\* Ticks without an opportunity for the code, what the skip detection can
\* then raise lastdelta to, and what can add up after a deadline: once per
\* timer the ticker may return early, after setting a postponed alarm.
Stall      == MaxSection + MaxTicker + MaxLatency
DeltaBound == IF Stall < TimeDelta THEN TimeDelta ELSE Stall + 1
LateBound  == Cardinality(Timers) * (DeltaBound + Stall)

\* A timer is called back at most LateBound ticks after its deadline.
NotLate == \A i \in DOMAIN list : due[list[i].tmr] >= - LateBound

\* Never before its deadline, and never after a timer with a later deadline.
NeverEarly ==
    [][(tick.pc = "loop" /\ tick'.pc = "callback") =>
         /\ due[tick'.tmr] <= 0
         /\ \A t \in Timers : Armed(t) => due[tick'.tmr] <= due[t]]_vars
=============================================================================
