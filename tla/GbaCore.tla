------------------------------ MODULE GbaCore ------------------------------
(***************************************************************************)
(* The scheduler, the interrupt controller and the DMA channels of the GBA *)
(* core (gba/scheduler.cpp, gba/irq.cpp, gba/dma.cpp), as operators on the *)
(* record g of the core's state.  Of g the scheduler uses                  *)
(*   events, eventRoom   the events ordered by time, and the capacity of   *)
(*                       their vector                                      *)
(*   drivers, driverRoom likewise the drivers, ordered by priority, of     *)
(*                       which the first runs until the first event is due *)
(*   suspended           the drivers whose suspend function was called     *)
(*   cycle               arm7tdmi::cycle, what GetElapsedCycles returns    *)
(* the interrupt controller ime, irq, ie, if_ and line, what the CPU was   *)
(* told last by SetIRQ, and the DMA dma, a record for each channel, and    *)
(* ran, the cycles of the channel that runs.                               *)
(*                                                                         *)
(* Times are relative to global_time, which is left out.  A driver is its  *)
(* number, the DMA channels 0 to 3 and the CPU: less is more urgent.       *)
(* Addresses count units and go round at AddressSpace; what is transferred *)
(* is left out.  A count is never 0, which stands for the greatest one.    *)
(***************************************************************************)
EXTENDS Integers, Sequences, SequencesExt, FiniteSetsExt

CONSTANTS
    Sources,  \* the interrupt sources
    Served,   \* those in the mask 0x3FF of CheckIrq
    IrqDelay, \* irq_event_cycle_delay
    Channels, \* the DMA channels in use, of 0 to 3
    AddressSpace \* 2^32 in the code

ASSUME CoreAssumption ==
    IrqDelay \in Nat /\ Channels \subseteq 0 .. 3 /\ AddressSpace \in Nat \ {0}

-----------------------------------------------------------------------------
(* The scheduler.                                                          *)

Cpu == 4

Event(type, time) == [type |-> type, left |-> time]

Elapsed(events, k) == [i \in DOMAIN events |-> [events[i] EXCEPT !.left = @ - k]]

Inserted(list, at, x) == SubSeq(list, 1, at - 1) \o <<x>> \o SubSeq(list, at, Len(list))
Without(list, i) == SubSeq(list, 1, i - 1) \o SubSeq(list, i + 1, Len(list))

\* Where x goes: before the first element that it comes before, or at the end.
Place(list, Before(_)) ==
    IF \E i \in DOMAIN list : Before(list[i])
    THEN Min({i \in DOMAIN list : Before(list[i])})
    ELSE Len(list) + 1

\* A full vector moves when it grows; the iterator of the insertion, which is
\* compared with the beginning afterwards, then does not equal it.
Moves(list, room) == Len(list) = room
Room(list, room) == IF Moves(list, room) THEN 2 * room ELSE room

PlaceOf(events, time) == Place(events, LAMBDA e : time < e.left)

\* The cycles of the CPU's run, or of its last run, are added to global_time; a new
\* first event makes the driver that runs stop, so that it does not miss it.
AddEvent(g, type, time) ==
    LET events == Elapsed(g.events, g.cycle)
        at == PlaceOf(events, time)
    IN [g EXCEPT
        !.events = Inserted(events, at, Event(type, time)),
        !.eventRoom = Room(events, @),
        !.suspended = IF at = 1 /\ events # <<>> /\ ~ Moves(events, g.eventRoom)
                      THEN @ \cup {Head(g.drivers)} ELSE @]

\* Faulty: the drivers are in the order in which they were engaged.
EngageFirst(g, driver) ==
    [g EXCEPT !.drivers = <<driver>> \o @,
              !.driverRoom = Room(g.drivers, @),
              !.suspended = @ \cup {Head(g.drivers)}]

PriorityOf(drivers, driver) == Place(drivers, LAMBDA d : d > driver)

EngageDriver(g, driver) ==
    LET at == PriorityOf(g.drivers, driver) IN
    [g EXCEPT
        !.drivers = Inserted(@, at, driver),
        !.driverRoom = Room(g.drivers, @),
        !.suspended = IF at = 1 /\ ~ Moves(g.drivers, g.driverRoom)
                      THEN @ \cup {Head(g.drivers)} ELSE @]

\* Only the first of equal drivers goes.
DisengageDriver(g, driver) ==
    IF \E i \in DOMAIN g.drivers : g.drivers[i] = driver
    THEN [g EXCEPT !.drivers =
            Without(@, Min({i \in DOMAIN g.drivers : g.drivers[i] = driver}))]
    ELSE g

\* The driver that ran returns its cycles.
Ran(g, cycles) == [g EXCEPT !.events = Elapsed(@, cycles)]

\* The first event is taken out and global_time set to its time.
PopEvent(g) == [g EXCEPT !.events = Elapsed(Tail(@), Head(@).left)]

-----------------------------------------------------------------------------
(* The interrupt controller.                                               *)

\* The two kinds of IrqChange events: their callbacks differ.
CheckIrq(g) ==
    LET checked == [g EXCEPT !.irq = g.ie \cap g.if_ \cap Served # {}] IN
    IF g.ime THEN AddEvent(checked, "IrqChange", IrqDelay) ELSE checked

Raise(g, source) == CheckIrq([g EXCEPT !.if_ = @ \cup {source}])
WriteIE(g, sources) == CheckIrq([g EXCEPT !.ie = sources])
WriteIF(g, sources) == CheckIrq([g EXCEPT !.if_ = @ \ sources])

\* Faulty: the CPU is not told.
WriteImeOnly(g, on) == [g EXCEPT !.ime = on]

WriteIME(g, on) ==
    IF on # g.ime THEN AddEvent([g EXCEPT !.ime = on], "ImeChange", IrqDelay) ELSE g

\* What the callbacks pass to SetIRQ is the state when they fire.
OnIrqChange(g) == [g EXCEPT !.line = g.irq]
OnImeChange(g) == [g EXCEPT !.line = g.ime /\ g.irq]

-----------------------------------------------------------------------------
(* The DMA channels.                                                       *)
(*                                                                         *)
(* Beside the state of the code a channel keeps what its copy should be:   *)
(* from, the first unit of the copy, log, the units copied so far, and     *)
(* told, whether the flag "suspended" has told PerformDma since the        *)
(* channel was enabled whether a copy begins or goes on.                   *)

\* What a channel is used for: its registers when it is enabled, the count but for
\* being reloaded and the interrupt at the end, which is always asked for.
DmaUses == [timing : {"now", "hblank", "vblank"}, repeat : BOOLEAN,
            src_addr : 0 .. AddressSpace - 1, dst_addr : 0 .. AddressSpace - 1,
            src_ctrl : 0 .. 3, dst_ctrl : 0 .. 3]

Unit(src, dst) == [src |-> src, dst |-> dst]

\* GetAddrIncr, in units.
AddrIncr(control) == CASE control \in {0, 3} -> 1 [] control = 1 -> -1 [] control = 2 -> 0

\* Register CNT_H.
Enabled(g, ch, use, count) ==
    [g EXCEPT
        !.dma[ch] = [enable |-> TRUE, use |-> use, count |-> count,
                     current |-> count, src |-> use.src_addr, dst |-> use.dst_addr,
                     src_incr |-> @.src_incr, dst_incr |-> @.dst_incr,
                     next_copy_is_repeat |-> FALSE,
                     from |-> Unit(use.src_addr, use.dst_addr), log |-> <<>>, told |-> TRUE],
        !.suspended = @ \ {ch}]

OnDmaEnable(g, ch, use, count) ==
    LET enabled == Enabled(g, ch, use, count) IN
    IF use.timing = "now" THEN EngageDriver(enabled, ch) ELSE enabled

OnDmaDisable(g, ch) == DisengageDriver([g EXCEPT !.dma[ch].enable = FALSE], ch)

\* OnHBlank and OnVBlank: the channels that wait for it, in their order.
EngageIfWaiting(g, ch, timing) ==
    IF ch \in Channels /\ g.dma[ch].enable /\ g.dma[ch].use.timing = timing
    THEN EngageDriver(g, ch) ELSE g

EngageWaiting(g, timing) ==
    EngageIfWaiting(EngageIfWaiting(EngageIfWaiting(EngageIfWaiting(
        g, 0, timing), 1, timing), 2, timing), 3, timing)

\* The unit after u, by the channel's control register.
NextUnit(d, u) ==
    Unit((u.src + AddrIncr(d.use.src_ctrl)) % AddressSpace,
         (u.dst + AddrIncr(d.use.dst_ctrl)) % AddressSpace)

\* The unit that is to be copied next.
Due(d) == IF d.log = <<>> THEN d.from ELSE NextUnit(d, Last(d.log))

\* What a copy should be when PerformDma is called: one that has not begun must not be
\* flagged; one that repeats and is cut must be.  A copy after the first goes on at the
\* source, and at the destination unless its register is loaded again.
Expected(d, flagged) ==
    LET begins == d.log = <<>> \/ d.current = 0
        told == d.told /\ IF begins THEN ~ flagged ELSE d.next_copy_is_repeat => flagged
        again == begins /\ d.next_copy_is_repeat
    IN [d EXCEPT
        !.told = told,
        !.from = IF ~ again THEN @
                 ELSE Unit(Due(d).src, IF d.use.dst_ctrl = 3 THEN d.use.dst_addr ELSE Due(d).dst),
        !.log = IF ~ told \/ again THEN <<>> ELSE @]

\* Faulty: a suspended channel begins its copy again.
BeginAnew(d, flagged) ==
    [d EXCEPT
        !.current = IF d.next_copy_is_repeat THEN d.count ELSE @,
        !.dst = IF d.next_copy_is_repeat /\ d.use.dst_ctrl = 3 THEN d.use.dst_addr ELSE @,
        !.src_incr = AddrIncr(d.use.src_ctrl),
        !.dst_incr = AddrIncr(d.use.dst_ctrl)]

\* The beginning of PerformDma: a suspended channel goes on.
BeginTransfer(d, flagged) ==
    LET reloads == d.next_copy_is_repeat IN
    IF flagged THEN d
    ELSE [d EXCEPT
            !.current = IF reloads THEN d.count ELSE @,
            !.dst = IF reloads /\ d.use.dst_ctrl = 3 THEN d.use.dst_addr ELSE @,
            !.src_incr = AddrIncr(d.use.src_ctrl),
            !.dst_incr = AddrIncr(d.use.dst_ctrl)]

Begun(d, flagged) ==
    LET expected == Expected(d, flagged) IN
    [BeginTransfer(d, flagged) EXCEPT
        !.from = expected.from, !.log = expected.log, !.told = expected.told]

BeginDma(g, ch) ==
    [g EXCEPT !.ran = 0,
              !.suspended = @ \ {ch},
              !.dma[ch] = Begun(g.dma[ch], ch \in g.suspended)]

\* Only the copies that the flag describes are logged.
CopiedUnit(d) ==
    [d EXCEPT !.current = @ - 1,
              !.src = (@ + d.src_incr) % AddressSpace,
              !.dst = (@ + d.dst_incr) % AddressSpace,
              !.log = IF d.told THEN Append(@, Unit(d.src, d.dst)) ELSE @]

CopyUnit(g, ch, cycles) == [g EXCEPT !.ran = @ + cycles, !.dma[ch] = CopiedUnit(@)]

Source(ch) == <<"Dma0", "Dma1", "Dma2", "Dma3">>[ch + 1]

\* Its end, when the last unit is copied or the cycles are used up.
EndDma(g, ch) ==
    IF g.dma[ch].current > 0 THEN g
    ELSE LET ended == Raise(DisengageDriver(g, ch), Source(ch)) IN
         IF g.dma[ch].use.repeat
         THEN [ended EXCEPT !.dma[ch].next_copy_is_repeat = TRUE]
         ELSE [ended EXCEPT !.dma[ch].enable = FALSE]
=============================================================================
