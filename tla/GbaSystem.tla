----------------------------- MODULE GbaSystem -----------------------------
(***************************************************************************)
(* The main loop of the GBA core: the scheduler's Run with the CPU and the *)
(* DMA channels as drivers, the PPU's events (gba/ppu/ppu.cpp) and the     *)
(* interrupt controller.  A step is the start of a driver, an instruction  *)
(* of the CPU, the copy of a unit, the return of a driver or an event.     *)
(***************************************************************************)
EXTENDS GbaCore

CONSTANTS
    HBlankTime,  \* cycles_until_hblank
    FlagTime,    \* from there to the flag
    LineTime,    \* from there to the next scanline
    Lines,       \* total_num_lines
    VBlankLine,  \* lines_until_vblank
    VCountSetting, \* v_count_setting
    PpuSources,  \* the interrupts of the PPU that are enabled, of "HBlank", "VBlank"
                 \* and "VCounter"
    Costs,       \* the cycles of an instruction
    UnitCost,    \* those of a unit of a transfer
    Counts,      \* the lengths of transfers
    Uses,        \* for each channel, what it is used for
    MaxEvents,   \* bound on the events when the program writes a register
    MaxSlice,    \* bound on the time to the next event, which grows when events
                 \* are added at times counted twice
    MaxDrivers   \* bound on the drivers, of which a channel may be several

ASSUME GbaAssumption ==
    /\ HBlankTime \in Nat /\ FlagTime \in Nat /\ LineTime \in Nat
    /\ Lines \in Nat \ {0}
    /\ Costs \subseteq Nat /\ UnitCost \in Nat /\ Counts \subseteq Nat \ {0}
    /\ Uses \in [Channels -> SUBSET DmaUses]

VARIABLES
    g,        \* the state of the core
    running,  \* the driver that runs, or None
    slice     \* the cycles it may use

None == 5
gbaVars == <<g, running, slice>>

Unused == [timing |-> "now", repeat |-> FALSE, src_addr |-> 0, dst_addr |-> 0,
           src_ctrl |-> 0, dst_ctrl |-> 0]
Idle == [enable |-> FALSE, use |-> Unused, count |-> 0, current |-> 0, src |-> 0, dst |-> 0,
         src_incr |-> 0, dst_incr |-> 0, next_copy_is_repeat |-> FALSE,
         from |-> Unit(0, 0), log |-> <<>>, told |-> TRUE]

GbaInit ==
    /\ g = [events |-> <<Event("HBlank", HBlankTime)>>, eventRoom |-> 1,
            drivers |-> <<Cpu>>, driverRoom |-> 1, suspended |-> {}, cycle |-> 0,
            ime |-> FALSE, irq |-> FALSE, ie |-> {}, if_ |-> {}, line |-> FALSE,
            dma |-> [ch \in Channels |-> Idle], ran |-> 0, v_counter |-> 0,
            v_match |-> FALSE]
    /\ running = None /\ slice = 0

-----------------------------------------------------------------------------
(* The PPU.                                                                *)

RaiseEnabled(s, source) == IF source \in PpuSources THEN Raise(s, source) ELSE s

OnHBlank(s) == EngageWaiting(AddEvent(s, "HBlankSetFlag", FlagTime), "hblank")

OnHBlankSetFlag(s) == RaiseEnabled(AddEvent(s, "NewScanline", LineTime), "HBlank")

\* The interrupt of the V counter is raised when it comes to match.  The counter is
\* compared before it goes round.
MatchVCounter(s, line) ==
    LET matched == [s EXCEPT !.v_match = line = VCountSetting] IN
    IF matched.v_match /\ ~ s.v_match THEN RaiseEnabled(matched, "VCounter") ELSE matched

OnNewScanline(s) ==
    LET line == s.v_counter + 1
        added == [AddEvent(s, "HBlank", HBlankTime) EXCEPT !.v_counter = line % Lines]
        next == MatchVCounter(added, line)
    IN IF line = VBlankLine THEN EngageWaiting(RaiseEnabled(next, "VBlank"), "vblank") ELSE next

Callback(s, type) ==
    CASE type = "HBlank" -> OnHBlank(s)
      [] type = "HBlankSetFlag" -> OnHBlankSetFlag(s)
      [] type = "NewScanline" -> OnNewScanline(s)
      [] type = "IrqChange" -> OnIrqChange(s)
      [] type = "ImeChange" -> OnImeChange(s)

-----------------------------------------------------------------------------
(* Run.                                                                    *)

StartDriver ==
    /\ running = None
    /\ Head(g.events).left \in 1 .. MaxSlice /\ Len(g.drivers) <= MaxDrivers
    /\ running' = Head(g.drivers)
    /\ slice' = Head(g.events).left
    /\ g' = IF running' = Cpu
            THEN [g EXCEPT !.suspended = @ \ {Cpu}, !.cycle = 0]
            ELSE BeginDma(g, running')

FireEvent ==
    /\ running = None
    /\ Head(g.events).left <= 0
    /\ g' = Callback(PopEvent(g), Head(g.events).type)
    /\ UNCHANGED <<running, slice>>

CpuRuns == running = Cpu /\ g.cycle < slice /\ Cpu \notin g.suspended

\* An instruction with what it writes, if anything.
Executes(s) ==
    /\ CpuRuns
    /\ \E k \in Costs : g' = [s EXCEPT !.cycle = @ + k]
    /\ UNCHANGED <<running, slice>>

Writes == Len(g.events) < MaxEvents

Compute == Executes(g)
StoreIE == Writes /\ \E sources \in {{}, Sources} : Executes(WriteIE(g, sources))
StoreIF == Writes /\ Executes(WriteIF(g, g.if_))
StoreIME == Writes /\ \E on \in BOOLEAN : Executes(WriteIME(g, on))

EnableDma ==
    \E ch \in Channels : \E use \in Uses[ch], count \in Counts :
        /\ ~ g.dma[ch].enable
        /\ Executes(OnDmaEnable(g, ch, use, count))

DisableDma ==
    \E ch \in Channels : g.dma[ch].enable /\ Executes(OnDmaDisable(g, ch))

CpuReturns ==
    /\ running = Cpu /\ ~ CpuRuns
    /\ g' = Ran(g, g.cycle)
    /\ running' = None
    /\ UNCHANGED slice

DmaRuns == running \in Channels /\ g.dma[running].current > 0 /\ g.ran < slice

\* A unit may be written to a register of the interrupt controller.
DmaCopies ==
    /\ DmaRuns
    /\ \/ g' = CopyUnit(g, running, UnitCost)
       \/ Writes /\ \E sources \in {{}, Sources} :
            g' = CopyUnit(WriteIE(g, sources), running, UnitCost)
       \/ Writes /\ g' = CopyUnit(WriteIF(g, g.if_), running, UnitCost)
       \/ Writes /\ \E on \in BOOLEAN : g' = CopyUnit(WriteIME(g, on), running, UnitCost)
    /\ UNCHANGED <<running, slice>>

DmaReturns ==
    /\ running \in Channels /\ ~ DmaRuns
    /\ g' = Ran(EndDma(g, running), g.ran)
    /\ running' = None
    /\ UNCHANGED slice

GbaNext ==
    \/ StartDriver \/ FireEvent
    \/ Compute \/ StoreIE \/ StoreIF \/ StoreIME \/ EnableDma \/ DisableDma \/ CpuReturns
    \/ DmaCopies \/ DmaReturns

GbaSpec == GbaInit /\ [][GbaNext]_gbaVars

-----------------------------------------------------------------------------
(* Properties.                                                             *)

Of(type) == {i \in DOMAIN g.events : g.events[i].type \in type}

\* While interrupts are on and no change is under way, the CPU has been told what the
\* registers say (irq.cpp, CheckIrq and WriteIME, whose events may overtake each other).
LineSettles == g.ime /\ Of({"IrqChange", "ImeChange"}) = {} => g.line = g.irq

\* While the flag "suspended" tells each call of PerformDma rightly whether a copy begins
\* or goes on, each unit of a copy is copied once and in its order, from the address and
\* to the address that the registers ask for, and as many are left as the count lacks:
\* however often the channel is suspended, overtaken or engaged again, and in each of the
\* copies of a channel that repeats (dma.cpp, PerformDma).
TransferIsExact ==
    \A ch \in Channels : LET d == g.dma[ch] IN d.told =>
        /\ Len(d.log) + d.current = d.count
        /\ \A k \in DOMAIN d.log :
            d.log[k] = IF k = 1 THEN d.from ELSE NextUnit(d, d.log[k - 1])

\* A channel runs only when no more urgent one is engaged (scheduler.cpp, EngageDriver).
MostUrgentRuns == running \in Channels => \A i \in DOMAIN g.drivers : running <= g.drivers[i]
=============================================================================
