------------------------------- MODULE N64Pi -------------------------------
(***************************************************************************)
(* The Nintendo 64's peripheral interface (n64/interface/pi.cpp) and the   *)
(* cartridge behind it (n64/memory/cart.cpp): DMA from ROM, ended by       *)
(* PiDmaFinish events, and single writes to the cartridge, which go into a *)
(* latch and reach SRAM when a PiWriteFinish event fires.                  *)
(*                                                                         *)
(* Neither operation refuses to start while the other or itself is under   *)
(* way, so events can pile up.  The callbacks of one kind are all the same *)
(* function of the statics, so the scheduler's list is two counters here.  *)
(* Two history variables say that the program used the interface without   *)
(* waiting, for a DMA (dma_careless) or for a write (io_careless); what    *)
(* the code guarantees to a program that waits is stated under their       *)
(* negations.                                                              *)
(*                                                                         *)
(* Abstracted: words only; a transfer moves the address by one.            *)
(***************************************************************************)
EXTENDS Naturals

CONSTANTS
    Value,     \* the words a program writes
    NoValue,   \* what SRAM holds before the first write
    Slot,      \* the SRAM words
    NoSlot,    \* a null write_dst: a write to ROM
    MaxAddr,   \* cartridge addresses are 0 .. MaxAddr
    MaxEvents  \* bound on the pending events of a kind

ASSUME PiAssumption ==
    /\ NoValue \notin Value /\ NoSlot \notin Slot
    /\ MaxAddr \in Nat /\ MaxEvents \in Nat \ {0}

VARIABLES
    status,       \* the bits of pi.status that are set
    addr,         \* pi.cart_addr and pi.dram_addr
    addr_end,     \* cart_addr_end and dram_addr_end
    latch,        \* the latch: a value, and whether its bytes are swapped
    write_dst,    \* where the callback of a write stores the latch
    sram,         \* the memory, word by word as the latch was stored
    pi_interrupt, \* the PI bit of mi.interrupt
    dma_events,   \* PiDmaFinish events in the scheduler
    write_events, \* PiWriteFinish events in the scheduler
    dma_careless, \* history: the program did not wait for the end of a DMA
    next_addr,    \* history: where the program has the address registers go
    io_careless,  \* history: it did not wait for the end of a write
    accepted      \* history: the value last accepted for each SRAM word

dmaVars == <<addr, addr_end, dma_events, dma_careless, next_addr>>
memoryVars == <<latch, write_dst, sram, write_events, accepted>>
writeVars == <<memoryVars, io_careless>>
vars == <<status, pi_interrupt, dmaVars, writeVars>>

StatusBits == {"dma_busy", "io_busy", "dma_completed"}
Addr == 0 .. MaxAddr
Word == [value : Value \cup {NoValue}, swapped : BOOLEAN]

TypeOK ==
    /\ status \subseteq StatusBits
    /\ addr \in Addr /\ addr_end \in Addr /\ next_addr \in Addr
    /\ latch \in Word /\ sram \in [Slot -> Word]
    /\ write_dst \in Slot \cup {NoSlot}
    /\ pi_interrupt \in BOOLEAN
    /\ dma_careless \in BOOLEAN /\ io_careless \in BOOLEAN
    /\ dma_events \in Nat /\ write_events \in Nat
    /\ accepted \in [Slot -> Value \cup {NoValue}]

DmaBusy == "dma_busy" \in status
IoBusy == "io_busy" \in status

End(a) == IF a = MaxAddr THEN 0 ELSE a + 1
Byteswap(w) == [w EXCEPT !.swapped = ~ @]
BigEndian(v) == [value |-> v, swapped |-> TRUE]

-----------------------------------------------------------------------------
Init ==
    /\ status = {}
    /\ addr = 0 /\ addr_end = 0 /\ next_addr = 0
    /\ latch = [value |-> NoValue, swapped |-> FALSE]
    /\ write_dst = NoSlot
    /\ sram = [s \in Slot |-> BigEndian(NoValue)]
    /\ pi_interrupt = FALSE
    /\ dma_events = 0 /\ write_events = 0
    /\ dma_careless = FALSE /\ io_careless = FALSE
    /\ accepted = [s \in Slot |-> NoValue]

\* PI_CART_ADDR or PI_DRAM_ADDR.
WriteAddr(a) ==
    /\ addr' = a
    /\ next_addr' = a
    /\ dma_careless' = (dma_careless \/ DmaBusy)
    /\ UNCHANGED <<status, pi_interrupt, addr_end, dma_events, writeVars>>

\* Faulty: the end of the transfer is not noted.
InitDmaFromCartNoEnd(aligned) ==
    /\ dma_events < MaxEvents
    /\ status' = (status \ {"dma_completed"}) \cup {"dma_busy"}
    /\ dma_events' = dma_events + 1
    /\ next_addr' = End(addr)
    /\ dma_careless' = (dma_careless \/ DmaBusy)
    /\ UNCHANGED <<addr, addr_end, pi_interrupt, writeVars>>

\* PI_WR_LEN.  An aligned transfer reads its words like the CPU does, so that
\* the first one finds the latch of an unfinished write and takes it; the
\* other case reads ROM directly.
InitDmaFromCart(aligned) ==
    /\ dma_events < MaxEvents
    /\ LET takes_latch == aligned /\ IoBusy
           left == IF takes_latch THEN status \ {"io_busy"} ELSE status
       IN  /\ status' = (left \ {"dma_completed"}) \cup {"dma_busy"}
           /\ io_careless' = (io_careless \/ takes_latch)
    /\ dma_events' = dma_events + 1
    /\ addr_end' = End(addr)
    /\ next_addr' = End(addr)
    /\ dma_careless' = (dma_careless \/ DmaBusy)
    /\ UNCHANGED <<addr, pi_interrupt, memoryVars>>

\* Faulty: the busy bit stays up.
FinishDmaStaysBusy(b) ==
    /\ status' = b \cup {"dma_completed"}
    /\ pi_interrupt' = TRUE
    /\ addr' = addr_end

\* What OnDmaFinish does to the registers, from the bits b.
FinishDma(b) ==
    /\ status' = (b \ {"dma_busy"}) \cup {"dma_completed"}
    /\ pi_interrupt' = TRUE
    /\ addr' = addr_end

\* PI_RD_LEN: this direction is unimplemented and "finishes" inside the store,
\* moving the addresses to where the last transfer of the other one ended.
InitDmaToCart ==
    /\ FinishDma(status \cup {"dma_busy"})
    /\ dma_careless' = TRUE
    /\ UNCHANGED <<addr_end, dma_events, next_addr, writeVars>>

OnDmaFinish ==
    /\ dma_events > 0
    /\ dma_events' = dma_events - 1
    /\ FinishDma(status)
    /\ UNCHANGED <<addr_end, dma_careless, next_addr, writeVars>>

\* Faulty: the reset leaves the event in the scheduler.
ResetDmaKeepsEvent ==
    /\ status' = {}
    /\ pi_interrupt' = FALSE
    /\ next_addr' = addr
    /\ io_careless' = (io_careless \/ IoBusy)
    /\ UNCHANGED <<addr, addr_end, dma_events, dma_careless, memoryVars>>

\* PI_STATUS.  A reset clears every bit and takes one PiDmaFinish event out of
\* the scheduler; a PiWriteFinish event stays in.
ResetDma ==
    /\ status' = {}
    /\ pi_interrupt' = FALSE
    /\ dma_events' = IF dma_events > 0 THEN dma_events - 1 ELSE 0
    /\ next_addr' = addr
    /\ io_careless' = (io_careless \/ IoBusy)
    /\ UNCHANGED <<addr, addr_end, dma_careless, memoryVars>>

ClearInterrupt ==
    /\ status' = status \ {"dma_completed"}
    /\ pi_interrupt' = FALSE
    /\ UNCHANGED <<dmaVars, writeVars>>

\* A store to SRAM (dst a slot) or to ROM; ignored while one is under way.
WriteIgnored ==
    /\ IoBusy
    /\ UNCHANGED vars

\* Faulty: a write is accepted while another is under way.
WriteUnchecked(v, dst) ==
    /\ write_events < MaxEvents
    /\ latch' = [value |-> v, swapped |-> FALSE]
    /\ status' = status \cup {"io_busy"}
    /\ write_dst' = dst
    /\ write_events' = write_events + 1
    /\ accepted' = IF dst = NoSlot THEN accepted ELSE [accepted EXCEPT ![dst] = v]
    /\ UNCHANGED <<sram, pi_interrupt, io_careless, dmaVars>>

Write(v, dst) ==
    /\ ~ IoBusy
    /\ write_events < MaxEvents
    /\ latch' = [value |-> v, swapped |-> FALSE]
    /\ status' = status \cup {"io_busy"}
    /\ write_dst' = dst
    /\ write_events' = write_events + 1
    /\ accepted' = IF dst = NoSlot THEN accepted ELSE [accepted EXCEPT ![dst] = v]
    /\ UNCHANGED <<sram, pi_interrupt, io_careless, dmaVars>>

OnWriteFinish ==
    /\ write_events > 0
    /\ write_events' = write_events - 1
    /\ status' = status \ {"io_busy"}
    /\ latch' = Byteswap(latch)
    /\ sram' = IF write_dst = NoSlot THEN sram
               ELSE [sram EXCEPT ![write_dst] = latch']
    /\ UNCHANGED <<write_dst, accepted, pi_interrupt, io_careless, dmaVars>>

\* A load from ROM or SRAM: during a write it returns the latch and ends the
\* busy state, but not the write.
Read ==
    /\ IoBusy
    /\ status' = status \ {"io_busy"}
    /\ io_careless' = TRUE
    /\ UNCHANGED <<pi_interrupt, dmaVars, memoryVars>>

Next ==
    \/ \E a \in Addr : WriteAddr(a)
    \/ \E aligned \in BOOLEAN : InitDmaFromCart(aligned)
    \/ InitDmaToCart \/ OnDmaFinish \/ ResetDma \/ ClearInterrupt
    \/ WriteIgnored
    \/ \E v \in Value, dst \in Slot \cup {NoSlot} : Write(v, dst)
    \/ OnWriteFinish \/ Read

\* The scheduler fires every event that was added to it.
Spec ==
    /\ Init /\ [][Next]_vars
    /\ WF_vars(OnDmaFinish) /\ WF_vars(OnWriteFinish)

-----------------------------------------------------------------------------
(* Properties.                                                             *)

\* Whatever the program does, a busy bit is up only while an event that takes
\* it down is in the scheduler, so a program that polls the bit goes on.
BusyHasEvent ==
    /\ DmaBusy => dma_events > 0
    /\ IoBusy => write_events > 0

\* dma_completed never stands without the interrupt that reports it (OnDmaFinish
\* and the two ways to clear them in PI_STATUS).
CompletedIsReported == "dma_completed" \in status => pi_interrupt

\* To a program that waits, each busy bit is exactly its event: there is no
\* second one that ends a later operation early.  Waiting for DMAs is enough for
\* DMAs, whatever writes do meanwhile, and the other way round.
OneEventEach ==
    /\ ~ dma_careless => dma_events = IF DmaBusy THEN 1 ELSE 0
    /\ ~ io_careless => write_events = IF IoBusy THEN 1 ELSE 0

\* Every write the interface accepted from a program that waits for writes is in
\* SRAM, in the byte order of the cartridge, once the busy bit is down.
AcceptedWritesLand ==
    ~ io_careless /\ ~ IoBusy =>
        \A s \in Slot : sram[s] = BigEndian(accepted[s])

\* Between the DMAs of a program that waits for them the address registers stand
\* where it put them or where its last transfer ended: no finish of an earlier
\* transfer, one stopped by a reset for instance, moves them (OnDmaFinish).
AddressesAreThePrograms == ~ dma_careless /\ ~ DmaBusy => addr = next_addr

\* Polling ends: each busy bit comes down again and again.
PollingEnds == (DmaBusy ~> ~ DmaBusy) /\ (IoBusy ~> ~ IoBusy)

\* "SRAM is the only effectful write and ... it is in BE" (pi.cpp): false when a
\* second write is accepted while the event of the first is pending, which a
\* load in between allows: the latch is swapped twice.  No run checks it: TLC
\* refutes it at once when it is added to MCN64Pi.cfg.
SramIsBigEndian == \A s \in Slot : sram[s].swapped
=============================================================================
