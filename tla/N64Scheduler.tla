---------------------------- MODULE N64Scheduler ----------------------------
(***************************************************************************)
(* The main loop of the N64 core (n64/common/scheduler.cpp): the CPU runs  *)
(* for an update, the events that are due fire, the RSP runs.  With it the *)
(* devices that keep time by events: the Count/Compare timer of COP0, the  *)
(* video interface, which adds its next event from the callback of the     *)
(* last, and two DMA engines, the PI (started by the CPU) and the SP       *)
(* (started by the CPU or by the RSP).                                     *)
(*                                                                         *)
(* A step is a CPU instruction of some cycles, the end of the CPU's run    *)
(* with CheckEvents, one callback, or the RSP's run.  Besides the code's   *)
(* "left" every event carries its true remaining time "owed", which counts *)
(* down with every cycle, so that lateness can be stated.                  *)
(***************************************************************************)
EXTENDS Integers, Sequences, SequencesExt, FiniteSets

CONSTANTS
    Update,      \* cpu_cycles_per_update
    Costs,       \* the cycles an instruction or a block takes
    MaxCost,     \* the largest of them
    Modulus,     \* Count and Compare wrap at this many cycles, 2^33
    Halflines,   \* lengths of a half line that VI_V_SYNC can select
    Delays,      \* durations of a PI or SP transfer
    CountValues, \* what the program writes to Count
    CompareValues, \* what the program writes to Compare
    MaxEvents    \* bound on the list when the program starts a PI DMA

ASSUME SchedulerAssumption ==
    /\ Update \in Nat \ {0} /\ MaxCost \in Nat \ {0}
    /\ Costs \subseteq 1 .. MaxCost /\ Costs # {}
    /\ Modulus \in Nat \ {0} /\ MaxEvents \in Nat
    /\ Halflines \subseteq Nat \ {0} /\ Halflines # {}
    /\ Delays \subseteq Nat \ {0}
    /\ CountValues \cup CompareValues \subseteq 0 .. Modulus - 1

-----------------------------------------------------------------------------
(* The event list: a sequence of events, sorted by the cycles left until   *)
(* each fires.  The operators take the list and return the new one.        *)

\* In front of the first event that fires strictly later, else at the end: of
\* two events due together the one added first fires first.
AddEvent(events, e) ==
    LET later == SelectInSeq(events, LAMBDA f : e.left < f.left)
    IN  IF later = 0 THEN Append(events, e) ELSE InsertAt(events, later, e)

\* Only the first event of the type is looked for; without one nothing happens.
RemoveEvent(events, type) ==
    RemoveFirstMatch(events, LAMBDA f : f.type = type)

IsPending(events, type) == \E i \in DOMAIN events : events[i].type = type

\* e says when the event of its type is to fire instead.
ChangeEventTime(events, e) ==
    IF IsPending(events, e.type)
    THEN AddEvent(RemoveEvent(events, e.type), e)
    ELSE events

\* What CheckEvents keeps and what it collects to fire, after step cycles.  Its
\* loop looks at every event; the list is sorted, so that those due come first.
Elapsed(events, step) ==
    [i \in DOMAIN events |-> [events[i] EXCEPT !.left = @ - step]]

\* How many events of the list have at most so many cycles left.
Due(events, step) ==
    LET later == SelectInSeq(events, LAMBDA f : step < f.left)
    IN  IF later = 0 THEN Len(events) ELSE later - 1

\* Faulty: an event exactly due stays in the list; it is removed, not fired.
RemainingDue(events, step) ==
    SubSeq(Elapsed(events, step), Due(events, step - 1) + 1, Len(events))

FiredOverdue(events, step) ==
    SubSeq(Elapsed(events, step), 1, Due(events, step - 1))

Remaining(events, step) ==
    SubSeq(Elapsed(events, step), Due(events, step) + 1, Len(events))

Fired(events, step) ==
    SubSeq(Elapsed(events, step), 1, Due(events, step))

-----------------------------------------------------------------------------
VARIABLES
    events,            \* the event list
    fired,             \* fired_events_callbacks still to be called
    phase,             \* where the loop of Run is
    cycle_counter,     \* vr4300::cycle_counter, what GetElapsedCycles returns
    cpu_cycle_overrun,
    count,             \* cop0.count, see AdvanceCount
    compare,           \* cop0.compare
    timer_ip,          \* bit 7 of Cause.IP
    halfline,          \* cpu_cycles_per_halfline
    matched            \* history: Count reached Compare since Compare's write

timer == <<count, compare, timer_ip, matched>>
vars == <<events, fired, phase, cycle_counter, cpu_cycle_overrun, timer, halfline>>

EventType == {"CountCompareMatch", "PiDmaFinish", "SpDmaFinish", "VINewHalfline"}
Event == [type : EventType, left : Int, owed : Int, late : BOOLEAN]

-----------------------------------------------------------------------------
\* Faulty: the cycles of the update that have already run are forgotten.
AfterUpdateStart(type, d) ==
    [type |-> type, left |-> d, owed |-> d, late |-> phase # "cpu"]

\* An event due in d cycles; the code adds what GetElapsedCycles returns, which
\* is right while the CPU runs and a leftover of its last run otherwise ("late").
After(type, d) ==
    [type |-> type, left |-> d + cycle_counter', owed |-> d, late |-> phase # "cpu"]

\* Count is 64 bits wide and never reduced: it keeps the low part, and above
\* the modulus only that it got there.
AdvanceCount(c, k) ==
    IF c + k < Modulus THEN c + k ELSE Modulus + ((c + k) % Modulus)

CyclesUntilMatch(cmp, cnt) ==
    IF cmp = cnt THEN Modulus ELSE (cmp - cnt) % Modulus

ReloadCountCompareEvent(queue, cmp, cnt) ==
    ChangeEventTime(queue, After("CountCompareMatch", CyclesUntilMatch(cmp, cnt)))

Start(queue, type, d) == AddEvent(queue, After(type, d))

-----------------------------------------------------------------------------
Initial(type, d) == [type |-> type, left |-> d, owed |-> d, late |-> FALSE]

Init ==
    /\ halfline \in Halflines
    /\ count = 0 /\ compare = 0 /\ timer_ip = FALSE /\ matched = FALSE
    /\ events = AddEvent(
                  <<Initial("CountCompareMatch", CyclesUntilMatch(0, 0))>>,
                  Initial("VINewHalfline", halfline))
    /\ fired = <<>>
    /\ phase = "update"
    /\ cycle_counter = 0
    /\ cpu_cycle_overrun = 0

\* The top of the loop: no CPU run while it is a whole update ahead.
BeginUpdate ==
    /\ phase = "update"
    /\ \/ /\ cpu_cycle_overrun < Update
          /\ phase' = "cpu"
          /\ cycle_counter' = 0
          /\ UNCHANGED cpu_cycle_overrun
       \/ /\ cpu_cycle_overrun >= Update
          /\ phase' = "rsp"
          /\ cpu_cycle_overrun' = cpu_cycle_overrun - Update
          /\ UNCHANGED cycle_counter
    /\ UNCHANGED <<events, fired, timer, halfline>>

CpuStep == Update - cpu_cycle_overrun

\* AdvancePipeline: k cycles pass for the CPU, for Count and for what is owed.
Ticked(k) == [i \in DOMAIN events |-> [events[i] EXCEPT !.owed = @ - k]]

Reaches(k) == \E j \in 1 .. k : (count + j - compare) % Modulus = 0

Tick(k) ==
    /\ phase = "cpu"
    /\ cycle_counter < CpuStep
    /\ cycle_counter' = cycle_counter + k
    /\ UNCHANGED <<phase, fired, cpu_cycle_overrun>>

Instruction(k) ==
    /\ Tick(k)
    /\ events' = Ticked(k)
    /\ count' = AdvanceCount(count, k)
    /\ matched' = (matched \/ Reaches(k))
    /\ UNCHANGED <<compare, timer_ip, halfline>>

\* Faulty: a write to Count leaves the timer's event where it was.
Mtc0CountNoReload(k) ==
    /\ Tick(k)
    /\ count' \in CountValues
    /\ events' = Ticked(k)
    /\ matched' = (matched \/ Reaches(k))
    /\ UNCHANGED <<compare, timer_ip, halfline>>

Mtc0Count(k) ==
    /\ Tick(k)
    /\ count' \in CountValues
    /\ events' = ReloadCountCompareEvent(Ticked(k), compare, count')
    /\ matched' = (matched \/ Reaches(k))
    /\ UNCHANGED <<compare, timer_ip, halfline>>

Mtc0Compare(k) ==
    /\ Tick(k)
    /\ compare' \in CompareValues
    /\ timer_ip' = FALSE
    /\ count' = AdvanceCount(count, k)
    /\ events' = ReloadCountCompareEvent(Ticked(k), compare', count')
    /\ matched' = FALSE
    /\ UNCHANGED halfline

\* Stores to the registers of devices.
Store(k, queue) ==
    /\ Tick(k)
    /\ events' = queue
    /\ count' = AdvanceCount(count, k)
    /\ matched' = (matched \/ Reaches(k))
    /\ UNCHANGED <<compare, timer_ip>>

StartPiDma(k) ==
    /\ Len(events) < MaxEvents
    /\ \E d \in Delays : Store(k, Start(Ticked(k), "PiDmaFinish", d))
    /\ UNCHANGED halfline

ResetPi(k) ==
    /\ Store(k, RemoveEvent(Ticked(k), "PiDmaFinish"))
    /\ UNCHANGED halfline

StartSpDma(k) ==
    /\ ~ IsPending(events, "SpDmaFinish")
    /\ \E d \in Delays : Store(k, Start(Ticked(k), "SpDmaFinish", d))
    /\ UNCHANGED halfline

WriteVSync(k) ==
    /\ halfline' \in Halflines
    /\ Store(k, ChangeEventTime(Ticked(k), After("VINewHalfline", halfline')))

\* The CPU has run for its step, and CheckEvents takes out what is due.
CheckEvents ==
    /\ phase = "cpu"
    /\ cycle_counter >= CpuStep
    /\ cpu_cycle_overrun' = cycle_counter - CpuStep
    /\ events' = Remaining(events, cycle_counter)
    /\ LET due == Fired(events, cycle_counter)
       IN  fired' = [i \in DOMAIN due |-> due[i].type]
    /\ phase' = "callbacks"
    /\ UNCHANGED <<cycle_counter, timer, halfline>>

\* The callbacks, called in the order in which the events were due.
Callback(type) ==
    /\ phase = "callbacks"
    /\ fired # <<>>
    /\ Head(fired) = type
    /\ fired' = Tail(fired)
    /\ UNCHANGED <<phase, cycle_counter, cpu_cycle_overrun, count, compare,
                   matched, halfline>>

OnCountCompareMatchEvent ==
    /\ Callback("CountCompareMatch")
    /\ timer_ip' = TRUE
    /\ events' = ReloadCountCompareEvent(events, compare, count)

\* Faulty: the time of an event that is no longer in the list is changed.
OnNewHalflineEventChange ==
    /\ Callback("VINewHalfline")
    /\ events' = ChangeEventTime(events, After("VINewHalfline", halfline))
    /\ UNCHANGED timer_ip

OnNewHalflineEvent ==
    /\ Callback("VINewHalfline")
    /\ events' = Start(events, "VINewHalfline", halfline)
    /\ UNCHANGED timer_ip

OnPiDmaFinish ==
    /\ Callback("PiDmaFinish")
    /\ UNCHANGED <<events, timer_ip>>

\* The SP engine goes on with a pending transfer, or stops.
OnSpDmaFinish ==
    /\ Callback("SpDmaFinish")
    /\ \/ UNCHANGED events
       \/ \E d \in Delays : events' = Start(events, "SpDmaFinish", d)
    /\ UNCHANGED timer_ip

EndCallbacks ==
    /\ phase = "callbacks" /\ fired = <<>>
    /\ phase' = "rsp"
    /\ UNCHANGED <<events, fired, cycle_counter, cpu_cycle_overrun, timer, halfline>>

\* The RSP's run, in which it may start a transfer of its own.
RunRsp ==
    /\ phase = "rsp"
    /\ phase' = "update"
    /\ UNCHANGED <<fired, cycle_counter, cpu_cycle_overrun, timer, halfline>>
    /\ \/ UNCHANGED events
       \/ /\ ~ IsPending(events, "SpDmaFinish")
          /\ \E d \in Delays : events' = Start(events, "SpDmaFinish", d)

RunCpu ==
    \E k \in Costs :
        \/ Instruction(k) \/ Mtc0Count(k) \/ Mtc0Compare(k)
        \/ StartPiDma(k) \/ ResetPi(k) \/ StartSpDma(k) \/ WriteVSync(k)

Next ==
    \/ BeginUpdate \/ RunCpu \/ CheckEvents
    \/ OnCountCompareMatchEvent \/ OnNewHalflineEvent \/ OnPiDmaFinish
    \/ OnSpDmaFinish \/ EndCallbacks \/ RunRsp

\* The loop runs until the program is closed.
Spec == Init /\ [][Next]_vars /\ WF_vars(Next)

-----------------------------------------------------------------------------
(* Properties.                                                             *)

Copies(type) ==
    Cardinality({i \in DOMAIN events : events[i].type = type})
    + Cardinality({i \in DOMAIN fired : fired[i] = type})

\* The video interface never loses its event nor gets a second one, across its
\* callback and changes of its time; the timer and the SP engine have at most
\* one (OnNewHalflineEvent, ChangeEventTime, InitDma).
NoLostOrDoubledEvent ==
    /\ Copies("VINewHalfline") = 1
    /\ Copies("CountCompareMatch") <= 1
    /\ Copies("SpDmaFinish") <= 1

\* What the list says is left of an event, in the middle of an update or not.
Now(e) == e.left - (IF phase = "cpu" THEN cycle_counter ELSE 0)

\* An event the CPU added has exactly its time left, so that it fires at the end
\* of the run in which it falls due; one added by a callback or by the RSP is
\* late by a leftover of the CPU's last run, at most one update, never early.
EventTimesHonest ==
    \A i \in DOMAIN events :
        LET e == events[i]
        IN  IF e.late THEN Now(e) - e.owed \in 1 .. Update + MaxCost
                      ELSE Now(e) = e.owed

\* Between CPU runs nothing in the list is due: CheckEvents leaves none behind.
NothingOverdue ==
    phase # "cpu" => \A i \in DOMAIN events : events[i].left > 0

\* As long as it is in the list, the timer's event is due exactly when Count
\* comes to Compare, through all writes of the two (ReloadCountCompareEvent).
TimerEventTracksCount ==
    \A i \in DOMAIN events :
        events[i].type = "CountCompareMatch" =>
            (compare - count - Now(events[i])) % Modulus = 0

\* A transfer the SP engine was given ends: its event fires.
SpDmaFires ==
    IsPending(events, "SpDmaFinish")
        ~> \E i \in DOMAIN fired : fired[i] = "SpDmaFinish"

\* "When equal to the Compare register, interrupt bit IP(7) in the Cause
\* register is set" (cop0.hpp): false after the first match, because the event
\* is not added again and ChangeEventTime does nothing without one.
TimerMatchRaises == phase = "rsp" /\ matched => timer_ip
=============================================================================
