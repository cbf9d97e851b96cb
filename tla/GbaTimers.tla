----------------------------- MODULE GbaTimers -----------------------------
(***************************************************************************)
(* The timers of the GBA core (gba/timers.cpp).  A timer is not counted    *)
(* cycle by cycle: its counter is brought up to date when it is read, from *)
(* the time of the last refresh, and a timer that counts the overflows of  *)
(* the previous one is brought up to date through it.  No timer asks for   *)
(* interrupts: their events are not modelled.                              *)
(*                                                                         *)
(* The time is scheduler::GetGlobalTime.  It is not monotone: an event     *)
(* added in the middle of a run counts the cycles of the run twice, and    *)
(* Run sets it back to the time of the event when that fires.              *)
(***************************************************************************)
EXTENDS Integers, FiniteSetsExt

CONSTANTS
    LastTimer,    \* 3 in the code
    CounterMax,   \* 0x10000
    Prescalers,   \* prescaler_to_period, powers of two
    Reloads,      \* the values written to the reload registers
    U64,          \* the modulus of 64-bit arithmetic
    MaxTime,      \* bound on the time
    MaxSteps      \* bound on the writes of registers and the late looks at counters

ASSUME TimersAssumption ==
    /\ LastTimer \in Nat /\ CounterMax \in Nat \ {0}
    /\ Prescalers \subseteq Nat \ {0} /\ Reloads \subseteq 0 .. CounterMax - 1
    /\ U64 \in Nat /\ MaxTime \in 0 .. U64 - 1
    /\ \A p \in Prescalers : CounterMax * (CounterMax * p) < U64

VARIABLES
    timer,  \* the timers
    now,    \* the global time
    steps,  \* the writes of registers and the late looks so far
    since   \* for each timer, the time when it was enabled or, if it counts the overflows
            \* of the previous timer, how often that had overflowed; or NotExact

timersVars == <<timer, now, steps, since>>
Timers == 0 .. LastTimer
NotExact == -1

\* reload_on_last_overflow is base, time_last_counter_refresh is refreshed and
\* time_until_overflow is left.
Reset ==
    [enable |-> FALSE, count_up |-> FALSE, prescaler |-> 1, is_counting |-> FALSE,
     reload |-> 0, base |-> 0, counter |-> 0, max |-> CounterMax, period |-> 0,
     refreshed |-> 0, left |-> 0]

TimersInit ==
    /\ timer = [i \in Timers |-> Reset]
    /\ now = 0 /\ steps = 0
    /\ since = [i \in Timers |-> NotExact]

Wrap(x) == x % U64

Counted(r, i) == r.count_up /\ i > 0

\* The timer at the beginning of the chain that i counts in.
RootOf(t, i) == Max({k \in 0 .. i : k = 0 \/ ~ t[k].count_up})

\* k follows in the chain of i, each timer in it being enabled and counting up.
InChain(t, i, k) == k > i /\ \A j \in i + 1 .. k : t[j].enable /\ t[j].count_up

\* Faulty: the overflow that n completes is not counted.
OverflowsAfterIt(r, n) == IF n < r.left THEN 0 ELSE (n - r.left) \div r.max

\* What n adds to a timer: its counter goes round as often as it overflows.
Overflows(r, n) == IF n < r.left THEN 0 ELSE 1 + (n - r.left) \div r.max

Added(r, n) ==
    IF n < r.left THEN [r EXCEPT !.counter = Wrap(@ + n), !.left = @ - n]
    ELSE LET counter == (n - r.left) % r.max IN
         [r EXCEPT !.counter = counter, !.base = r.reload, !.left = r.max - counter]

\* The overflows that the timers after i would pass on, n being added to i.
PassedFrom(t, i, n) ==
    LET Passed[k \in i .. LastTimer] ==
            IF k = i THEN n ELSE Overflows(t[k - 1], Passed[k - 1])
    IN Passed

\* Each overflow is passed to the next timer of the chain, which compares the
\* number of overflows with its time until overflow.
AddToCounter(t, i, n) ==
    LET passed == PassedFrom(t, i, n) IN
    [k \in Timers |->
        IF k = i THEN Added(t[k], n)
        ELSE IF InChain(t, i, k) /\ \A j \in i + 1 .. k : passed[j] > 0
        THEN [Added(t[k], passed[k]) EXCEPT !.refreshed = t[i].refreshed]
        ELSE t[k]]

\* UpdateCounter, of the timer at the beginning of the chain.
Refreshed(t, i) ==
    LET root == RootOf(t, i) IN
    AddToCounter([t EXCEPT ![root].refreshed = now], root, Wrap(now - t[root].refreshed))

\* prescaler is a power of two: its shift divides, and real counts wrap.
GetRealCounter(r) == (r.base + r.counter \div r.prescaler) % CounterMax

\* The periods and the times until overflow of the timers after i, each of which uses
\* the one before it.
PeriodsFrom(t, i) ==
    LET Period[k \in i .. LastTimer] ==
            IF k = i THEN t[i].period ELSE Wrap(t[k].max * Period[k - 1])
    IN Period

LeftsFrom(t, i) ==
    LET Left[k \in i .. LastTimer] ==
            IF k = i THEN t[i].left
            ELSE Wrap(Left[k - 1] + (t[k].max - t[k].counter - 1) * PeriodsFrom(t, i)[k - 1])
    IN Left

\* UpdateTimerChainOnTimerStatusChange<true>.
StartChain(t, i) ==
    [k \in Timers |->
        IF k = i THEN [t[k] EXCEPT !.is_counting = TRUE]
        ELSE IF InChain(t, i, k)
        THEN [t[k] EXCEPT !.is_counting = TRUE, !.refreshed = t[i].refreshed,
                          !.period = PeriodsFrom(t, i)[k], !.left = LeftsFrom(t, i)[k]]
        ELSE t[k]]

\* OnDisable, and UpdateTimerChainOnTimerStatusChange<false>.
StopChain(t, i) ==
    [k \in Timers |->
        IF k = i \/ InChain(t, i, k) THEN [t[k] EXCEPT !.is_counting = FALSE] ELSE t[k]]

-----------------------------------------------------------------------------
(* What a timer should show: the history.                                  *)

\* The time that a free timer takes from an overflow to the next.
Lap(r) == (CounterMax - r.reload) * r.prescaler

\* A timer that counts the cycles, and has since it was enabled.
FreeExact(i) == ~ Counted(timer[i], i) /\ since[i] # NotExact

TimesOverflowed(i) == (now - since[i]) \div Lap(timer[i])

\* The counts of i and of the timers after it in the chain are not exact any more.
Lost(exact, i) ==
    [k \in Timers |-> IF k = i \/ InChain(timer, i, k) THEN NotExact ELSE exact[k]]

\* The time has fallen behind the last refresh of the chain.
Late(i) == now < timer[RootOf(timer, i)].refreshed

\* When the chain is brought up to date then, what has passed counts as nearly 2^64 cycles.
LookedAt(exact, i) == IF Late(i) THEN Lost(exact, RootOf(timer, i)) ELSE exact

\* How often the timer before i has overflowed when i is enabled to count up.  When an
\* overflow of it has not been passed on yet, it will be to i.
OverflowsBefore(i) ==
    LET prev == timer[i - 1] IN
    IF ~ prev.enable THEN 0
    ELSE IF /\ FreeExact(i - 1) /\ prev.refreshed <= now
            /\ Overflows(prev, now - prev.refreshed) = 0
    THEN TimesOverflowed(i - 1)
    ELSE NotExact

\* A counter that counts overflows is shown divided by the prescaler all the same.
SinceEnabled(i, count_up, prescaler) ==
    IF ~ (count_up /\ i > 0)
    THEN IF timer[i].enable THEN Lost(since, i) ELSE [since EXCEPT ![i] = now]
    ELSE LET looked == IF timer[i - 1].is_counting THEN LookedAt(since, i - 1) ELSE since
         IN [Lost(looked, i) EXCEPT ![i] =
                IF timer[i].enable \/ prescaler # 1 THEN NotExact ELSE OverflowsBefore(i)]

-----------------------------------------------------------------------------
(* The registers.                                                          *)

OneStep == steps < MaxSteps /\ steps' = steps + 1 /\ UNCHANGED now

\* OnWriteControlTimerEnabled.
EnableCounted(t, i, real) ==
    LET s == [t EXCEPT
                ![i].max = CounterMax - t[i].reload,
                ![i].period = Wrap((CounterMax - t[i].reload) * t[i - 1].period),
                ![i].counter = IF t[i].enable THEN real ELSE 0,
                ![i].base = IF t[i].enable THEN @ ELSE t[i].reload,
                ![i].enable = TRUE]
    IN IF t[i - 1].is_counting THEN StartChain(Refreshed(s, i), RootOf(s, i))
       ELSE StopChain(s, i)

EnableFree(t, i, real) ==
    LET max == (CounterMax - t[i].reload) * t[i].prescaler
        counter == IF t[i].enable THEN (real * t[i].prescaler) + (now % t[i].prescaler) ELSE 0
    IN StartChain([t EXCEPT
            ![i].max = max, ![i].period = max, ![i].counter = counter,
            ![i].base = IF t[i].enable THEN @ ELSE t[i].reload,
            ![i].left = Wrap(max - counter), ![i].refreshed = now,
            ![i].enable = TRUE], i)

EnableTimer(i, count_up, prescaler) ==
    LET t == [timer EXCEPT ![i].count_up = count_up, ![i].prescaler = prescaler]
        real == GetRealCounter(timer[i])
    IN /\ timer' = IF Counted(t[i], i) THEN EnableCounted(t, i, real) ELSE EnableFree(t, i, real)
       /\ since' = SinceEnabled(i, count_up, prescaler)
       /\ OneStep

DisableTimer(i, count_up, prescaler) ==
    /\ timer[i].enable
    /\ timer' = StopChain([timer EXCEPT ![i].enable = FALSE, ![i].count_up = count_up,
                                     ![i].prescaler = prescaler], i)
    /\ since' = Lost(since, i)
    /\ OneStep

\* UpdatePeriod; what follows the timer is changed whether it is enabled or not.
WithMax(t, i) ==
    LET max == CounterMax - t[i].reload IN
    IF Counted(t[i], i)
    THEN [t EXCEPT ![i].max = max, ![i].period = Wrap(max * t[i - 1].period)]
    ELSE [t EXCEPT ![i].max = max * t[i].prescaler, ![i].period = max * t[i].prescaler]

UpdatePeriod(t, i) ==
    LET s == WithMax(t, i) IN
    [k \in Timers |->
        IF k > i /\ \A j \in i + 1 .. k : s[j].count_up
        THEN [s[k] EXCEPT !.period = PeriodsFrom(s, i)[k], !.left = LeftsFrom(s, i)[k]]
        ELSE s[k]]

WriteReload(i, reload) ==
    LET t == [timer EXCEPT ![i].reload = reload] IN
    /\ timer' = IF timer[i].enable THEN UpdatePeriod(t, i) ELSE t
    /\ since' = IF timer[i].enable THEN Lost(since, i) ELSE since
    /\ OneStep

ReadCounter(i) ==
    /\ timer[i].is_counting
    /\ timer' = Refreshed(timer, i)
    /\ since' = LookedAt(since, i)
    /\ IF Late(i) THEN OneStep ELSE UNCHANGED <<now, steps>>

\* What GetGlobalTime returns next: a driver has run, an event has been added in the
\* middle of its run, or an event has fired.
TimeJumps ==
    /\ now' \in 0 .. MaxTime
    /\ UNCHANGED <<timer, steps, since>>

TimersNext ==
    \/ TimeJumps
    \/ \E i \in Timers :
        \/ \E count_up \in BOOLEAN :
            \/ \E prescaler \in Prescalers : EnableTimer(i, count_up, prescaler)
            \/ DisableTimer(i, count_up, timer[i].prescaler)
        \/ \E reload \in Reloads : WriteReload(i, reload)
        \/ ReadCounter(i)

TimersSpec == TimersInit /\ [][TimersNext]_timersVars

-----------------------------------------------------------------------------
(* Properties.                                                             *)

\* What a read of the counter returns.
Shown(i) == GetRealCounter((IF timer[i].is_counting THEN Refreshed(timer, i) ELSE timer)[i])

\* A timer whose registers were not written since it was enabled shows what counting each
\* cycle would show, whenever and however often it is read, wherever the time went in
\* between and whatever is done to the other timers, but not while the time is behind
\* that of the last look.  One that counts the overflows of such a timer, enabled before
\* it or after it, shows how often that has overflowed since both are enabled, until it
\* overflows itself: from then on it does not (timers.cpp, UpdateCounter and AddToCounter,
\* which compares a number of overflows with a number of cycles).
CountsElapsedTime ==
    \A i \in Timers : since[i] # NotExact =>
        LET r == timer[i]
            range == CounterMax - r.reload
        IN IF Counted(r, i)
           THEN LET prev == timer[i - 1]
                    count == IF prev.enable THEN TimesOverflowed(i - 1) - since[i] ELSE 0
                IN (prev.enable => prev.refreshed <= now) /\ count < range
                   => Shown(i) = r.reload + count
           ELSE r.refreshed <= now
                => Shown(i) = r.reload + (((now - since[i]) \div r.prescaler) % range)

=============================================================================
