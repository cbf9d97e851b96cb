------------------------------ MODULE N64SpDma ------------------------------
(***************************************************************************)
(* The DMA engine of the N64's signal processor (n64/rsp/rsp.cpp): one     *)
(* transfer in progress and one pending, started by writes of              *)
(* SP_DMA_RDLEN and SP_DMA_WRLEN by the CPU or by the RSP and ended by the *)
(* scheduler's SpDmaFinish event.                                          *)
(*                                                                         *)
(* InitDma copies all the data at once, so a transfer is an instant that   *)
(* is recorded in "transfer"; what takes time is the engine being busy.    *)
(* Abstracted: SPADDR and RAMADDR are one address; the row length and the  *)
(* count of a length register are one value.                               *)
(***************************************************************************)
EXTENDS Naturals

CONSTANTS
    Bytes,    \* values of the length and count fields of a length register
    Skip,     \* values of its skip field
    Address,  \* values of the address registers
    ZeroAddress, \* their value at power-on
    EndAddress   \* stands for the address after the last one transferred

AllDone == 4088  \* 0xFF8, the value of those fields after a transfer

ASSUME SpDmaAssumption ==
    /\ {0, AllDone} \subseteq Bytes
    /\ 0 \in Skip
    /\ {ZeroAddress, EndAddress} \subseteq Address

DmaType == {"RdToSp", "SpToRd"}
Length == [bytes : Bytes, skip : Skip]
Request == [type : DmaType, length : Length]
Transfer == [type : DmaType, length : Length, addr : Address]

VARIABLES
    status,        \* the bits dma_busy and dma_full of sp.status that are set
    dma_busy,      \* the register SP_DMA_BUSY
    dma_full,      \* the register SP_DMA_FULL
    dma_len,       \* sp.dma_rdlen (RdToSp) and sp.dma_wrlen (SpToRd)
    buffered,      \* buffered_dma_rdlen and buffered_dma_wrlen
    in_progress_dma_type,
    pending_dma_type,
    dma_addr,      \* sp.dma_spaddr and sp.dma_ramaddr
    sp_interrupt,  \* the SP bit of mi.interrupt
    finish_events, \* SpDmaFinish events in the scheduler
    transfer,      \* history: what the last InitDma transferred
    wanted,        \* history: the request the busy engine is to serve
    queued,        \* history: the request that waits for it
    crossed        \* history: the engine went on from the other direction

registers == <<status, dma_busy, dma_full, dma_len, buffered,
               in_progress_dma_type, pending_dma_type, dma_addr>>
spVars == <<registers, sp_interrupt, finish_events,
            transfer, wanted, queued, crossed>>

Busy == "dma_busy" \in status
Full == "dma_full" \in status

TypeOK ==
    /\ status \subseteq {"dma_busy", "dma_full"}
    /\ dma_busy \in {0, 1} /\ dma_full \in {0, 1}
    /\ dma_len \in [DmaType -> Length]
    /\ buffered \in [DmaType -> Length]
    /\ in_progress_dma_type \in DmaType
    /\ pending_dma_type \in DmaType
    /\ dma_addr \in Address
    /\ sp_interrupt \in BOOLEAN
    /\ finish_events \in Nat
    /\ transfer \in Transfer
    /\ wanted \in Request /\ queued \in Request
    /\ crossed \in BOOLEAN

-----------------------------------------------------------------------------
Zero == [bytes |-> 0, skip |-> 0]

\* PowerOn clears the registers.
Init ==
    /\ status = {} /\ dma_busy = 0 /\ dma_full = 0
    /\ dma_len = [t \in DmaType |-> Zero]
    /\ buffered = [t \in DmaType |-> Zero]
    /\ in_progress_dma_type = "RdToSp" /\ pending_dma_type = "RdToSp"
    /\ dma_addr = ZeroAddress
    /\ sp_interrupt = FALSE
    /\ finish_events = 0
    /\ transfer = [type |-> "RdToSp", length |-> Zero, addr |-> ZeroAddress]
    /\ wanted = [type |-> "RdToSp", length |-> Zero]
    /\ queued = [type |-> "RdToSp", length |-> Zero]
    /\ crossed = FALSE

\* Faulty: nothing will end the transfer.
InitDmaNoEvent(type, lens, events) ==
    /\ in_progress_dma_type' = type
    /\ dma_busy' = 1
    /\ dma_len' = lens
    /\ transfer' = [type |-> type, length |-> lens[type], addr |-> dma_addr]
    /\ dma_addr' = EndAddress
    /\ finish_events' = events

\* Start a transfer of the given direction with the length registers lens and
\* so many SpDmaFinish events already in the scheduler.
InitDma(type, lens, events) ==
    /\ in_progress_dma_type' = type
    /\ dma_busy' = 1
    /\ dma_len' = lens
    /\ transfer' = [type |-> type, length |-> lens[type], addr |-> dma_addr]
    /\ dma_addr' = EndAddress
    /\ finish_events' = events + 1

WriteAddress(a) ==
    /\ dma_addr' = a
    /\ UNCHANGED <<status, dma_busy, dma_full, dma_len, buffered,
                   in_progress_dma_type, pending_dma_type, sp_interrupt,
                   finish_events, transfer, wanted, queued, crossed>>

\* Faulty: the direction of the pending request is not kept.
BufferLengthOnly(type, length) ==
    /\ Busy
    /\ buffered' = [buffered EXCEPT ![type] = length]
    /\ status' = status \cup {"dma_full"}
    /\ dma_full' = 1
    /\ queued' = [type |-> type, length |-> length]
    /\ UNCHANGED <<dma_busy, dma_len, in_progress_dma_type, pending_dma_type,
                   dma_addr, sp_interrupt, finish_events, transfer, wanted,
                   crossed>>

\* A write to SP_DMA_RDLEN or SP_DMA_WRLEN while the engine is busy: one
\* request is kept, the last.
BufferLength(type, length) ==
    /\ Busy
    /\ buffered' = [buffered EXCEPT ![type] = length]
    /\ status' = status \cup {"dma_full"}
    /\ dma_full' = 1
    /\ pending_dma_type' = type
    /\ queued' = [type |-> type, length |-> length]
    /\ UNCHANGED <<dma_busy, dma_len, in_progress_dma_type, dma_addr,
                   sp_interrupt, finish_events, transfer, wanted, crossed>>

StartTransfer(type, length) ==
    /\ ~ Busy
    /\ status' = status \cup {"dma_busy"}
    /\ InitDma(type, [dma_len EXCEPT ![type] = length], finish_events)
    /\ wanted' = [type |-> type, length |-> length]
    /\ crossed' = FALSE
    /\ UNCHANGED <<dma_full, buffered, pending_dma_type, sp_interrupt, queued>>

WriteLength(type, length) ==
    BufferLength(type, length) \/ StartTransfer(type, length)

\* Faulty: the pending request stays pending.
FinishAndChainStaysFull ==
    /\ finish_events > 0
    /\ Full
    /\ UNCHANGED <<status, dma_full>>
    /\ InitDma(pending_dma_type,
               [t \in DmaType |-> buffered[in_progress_dma_type]],
               finish_events - 1)
    /\ sp_interrupt' = TRUE
    /\ wanted' = queued
    /\ crossed' = (pending_dma_type # in_progress_dma_type)
    /\ UNCHANGED <<buffered, pending_dma_type, queued>>

\* Faulty: the pending transfer has the length of the last one.
FinishAndChainOldLength ==
    /\ finish_events > 0
    /\ Full
    /\ status' = (status \ {"dma_full"}) \cup {"dma_busy"}
    /\ dma_full' = 0
    /\ InitDma(pending_dma_type, dma_len, finish_events - 1)
    /\ sp_interrupt' = TRUE
    /\ wanted' = queued
    /\ crossed' = (pending_dma_type # in_progress_dma_type)
    /\ UNCHANGED <<buffered, pending_dma_type, queued>>

\* The event ends a transfer and goes on with the pending one.
FinishAndChain ==
    /\ finish_events > 0
    /\ Full
    /\ status' = (status \ {"dma_full"}) \cup {"dma_busy"}
    /\ dma_full' = 0
    /\ InitDma(pending_dma_type,
               [t \in DmaType |-> buffered[in_progress_dma_type]],
               finish_events - 1)
    /\ sp_interrupt' = TRUE
    /\ wanted' = queued
    /\ crossed' = (pending_dma_type # in_progress_dma_type)
    /\ UNCHANGED <<buffered, pending_dma_type, queued>>

FinishLast ==
    /\ finish_events > 0
    /\ ~ Full
    /\ status' = status \ {"dma_busy"}
    /\ dma_busy' = 0
    /\ dma_len' = [t \in DmaType |->
                      [dma_len[in_progress_dma_type] EXCEPT !.bytes = AllDone]]
    /\ finish_events' = finish_events - 1
    /\ sp_interrupt' = TRUE
    /\ UNCHANGED <<dma_full, buffered, in_progress_dma_type, pending_dma_type,
                   dma_addr, transfer, wanted, queued, crossed>>

OnDmaFinish == FinishAndChain \/ FinishLast

\* CLR_INTR of SP_STATUS.
AcknowledgeInterrupt ==
    /\ sp_interrupt' = FALSE
    /\ UNCHANGED <<registers, finish_events, transfer, wanted, queued, crossed>>

\* Any register may be written at any time.
Next ==
    \/ \E a \in Address : WriteAddress(a)
    \/ \E type \in DmaType, length \in Length : WriteLength(type, length)
    \/ OnDmaFinish
    \/ AcknowledgeInterrupt

\* The scheduler fires every event that was added to it.
Spec == Init /\ [][Next]_spVars /\ WF_spVars(OnDmaFinish)

-----------------------------------------------------------------------------
\* What reading either length register returns (ReadReg).
ReadLength(type) ==
    IF Busy THEN dma_len[in_progress_dma_type] ELSE dma_len[type]

\* The engine is busy exactly while one event that will end the transfer is in
\* the scheduler, and the four places that say so agree: no transfer is left
\* unfinished and none is finished twice (InitDma, OnDmaFinish, WriteReg).
FinishEventMatchesBusy ==
    /\ finish_events = IF Busy THEN 1 ELSE 0
    /\ dma_busy = IF Busy THEN 1 ELSE 0
    /\ dma_full = IF Full THEN 1 ELSE 0
    /\ Full => Busy

\* The engine moves data the way the request it serves said, and keeps the last
\* request written while it was busy.
DirectionIsRequested ==
    /\ Busy => in_progress_dma_type = wanted.type /\ transfer.type = wanted.type
    /\ Full => /\ pending_dma_type = queued.type
               /\ buffered[queued.type] = queued.length

\* A transfer that started from idle or went on in the same direction moves
\* what was asked for, and both registers report it.
UncrossedLengthIsRequested ==
    Busy /\ ~ crossed =>
        /\ transfer.length = wanted.length
        /\ \A type \in DmaType : ReadLength(type) = wanted.length

\* While the engine is idle the two registers read the same (the comment at
\* ReadReg: "both always returns the same data on read").
IdleLengthsAgree == ~ Busy => ReadLength("RdToSp") = ReadLength("SpToRd")

\* "SP_DMA_WRLEN and SP_DMA_RDLEN both always returns the same data on read,
\* relative to the current transfer" (ReadReg): false of a transfer chained to
\* one of the other direction, which OnDmaFinish starts with that one's buffer.
\* No run checks it: TLC refutes it at once when it is added to MCN64SpDma.cfg.
ReadsCurrentTransfer ==
    Busy => \A type \in DmaType : ReadLength(type) = wanted.length

\* A pending request is taken up, whatever else is written meanwhile.
PendingIsTakenUp == Full ~> ~ Full
=============================================================================
