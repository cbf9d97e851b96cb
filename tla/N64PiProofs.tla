----------------------------- MODULE N64PiProofs -----------------------------
(***************************************************************************)
(* Proofs about the peripheral interface.  The invariant has a part about  *)
(* DMA and a part about writes: they share the register status only, and a *)
(* step that changes the bits of one part mostly leaves the other alone.   *)
(***************************************************************************)
EXTENDS N64Pi, TLAPS

\* A DMA under way that the program waits for will leave the address registers
\* where the program has them go.
EndIsNoted == ~ dma_careless /\ DmaBusy => addr_end = next_addr

\* A write under way that the program waits for is in the latch, not swapped yet,
\* and every other accepted write is in SRAM.
LatchHoldsWrite ==
    ~ io_careless /\ IoBusy =>
        /\ ~ latch.swapped
        /\ \A s \in Slot : IF s = write_dst THEN latch.value = accepted[s]
                           ELSE sram[s] = BigEndian(accepted[s])

DmaInv ==
    /\ CompletedIsReported
    /\ DmaBusy => dma_events > 0
    /\ ~ dma_careless => dma_events = IF DmaBusy THEN 1 ELSE 0
    /\ AddressesAreThePrograms
    /\ EndIsNoted

WriteInv ==
    /\ IoBusy => write_events > 0
    /\ ~ io_careless => write_events = IF IoBusy THEN 1 ELSE 0
    /\ AcceptedWritesLand
    /\ LatchHoldsWrite

PiInv == TypeOK /\ DmaInv /\ WriteInv

-----------------------------------------------------------------------------
(* Facts about the operators.                                              *)

\* The address after a transfer is an address.
LEMMA EndType == ASSUME NEW a \in Addr PROVE End(a) \in Addr
BY PiAssumption DEF End, Addr

\* Swapping a latch that is not swapped gives what the cartridge is to hold.
LEMMA ByteswapFacts ==
    ASSUME NEW w \in Word
    PROVE  /\ Byteswap(w) \in Word
           /\ ~ w.swapped => Byteswap(w) = BigEndian(w.value)
<1>1. /\ w.value \in Value \cup {NoValue} /\ w.swapped \in BOOLEAN
      /\ w = [value |-> w.value, swapped |-> w.swapped]
  BY DEF Word
<1>2. Byteswap(w) = [value |-> w.value, swapped |-> ~ w.swapped]
  BY <1>1 DEF Byteswap
<1>3. (~ w.swapped) \in BOOLEAN /\ (~ w.swapped => (~ w.swapped) = TRUE)
  OBVIOUS
<1>4. Byteswap(w) \in Word
  BY <1>1, <1>2, <1>3 DEF Word
<1>5. ~ w.swapped => Byteswap(w) = BigEndian(w.value)
  BY <1>2, <1>3 DEF BigEndian
<1> QED BY <1>4, <1>5

-----------------------------------------------------------------------------
(* What leaves a part of the state alone.                                  *)

\* The part about writes depends on io_busy and on the state of writes only.
LEMMA WritesUndisturbed ==
    ASSUME WriteInv, UNCHANGED writeVars, IoBusy' = IoBusy
    PROVE  WriteInv'
BY DEF WriteInv, writeVars, memoryVars, AcceptedWritesLand, LatchHoldsWrite,
       BigEndian

\* A write that is given up by a reset, a load or an aligned DMA leaves its event
\* behind, and the program has not waited.
LEMMA WritesGivenUp ==
    ASSUME WriteInv, UNCHANGED memoryVars, ~ IoBusy',
           io_careless' = (io_careless \/ IoBusy)
    PROVE  WriteInv'
BY DEF WriteInv, memoryVars, AcceptedWritesLand, LatchHoldsWrite, BigEndian

\* The part about DMA depends on its bits, the interrupt and its own state only.
LEMMA DmasUndisturbed ==
    ASSUME DmaInv, UNCHANGED dmaVars, pi_interrupt' = pi_interrupt,
           DmaBusy' = DmaBusy,
           ("dma_completed" \in status') = ("dma_completed" \in status)
    PROVE  DmaInv'
BY DEF DmaInv, dmaVars, CompletedIsReported, AddressesAreThePrograms, EndIsNoted

-----------------------------------------------------------------------------
(* One lemma for each operation.                                           *)

\* Initialize establishes the invariant.
LEMMA PiInit == Init => PiInv
<1> SUFFICES ASSUME Init PROVE PiInv
  OBVIOUS
<1>1. TypeOK
  <2>1. latch \in Word /\ BigEndian(NoValue) \in Word
    BY DEF Init, Word, BigEndian
  <2>2. sram \in [Slot -> Word] /\ accepted \in [Slot -> Value \cup {NoValue}]
    BY <2>1 DEF Init
  <2>3. 0 \in Addr
    BY PiAssumption DEF Addr
  <2>4. /\ status \subseteq StatusBits /\ write_dst \in Slot \cup {NoSlot}
        /\ pi_interrupt \in BOOLEAN
        /\ dma_careless \in BOOLEAN /\ io_careless \in BOOLEAN
    BY DEF Init
  <2>5. dma_events \in Nat /\ write_events \in Nat
    BY DEF Init
  <2> QED BY <2>1, <2>2, <2>3, <2>4, <2>5 DEF Init, TypeOK
<1>2. DmaInv
  BY DEF Init, DmaInv, CompletedIsReported, DmaBusy, AddressesAreThePrograms,
         EndIsNoted
<1>3. WriteInv
  BY DEF Init, WriteInv, IoBusy, AcceptedWritesLand, LatchHoldsWrite
<1> QED BY <1>1, <1>2, <1>3 DEF PiInv

\* A write of an address register keeps it.
LEMMA WriteAddrKeeps ==
    ASSUME PiInv, NEW a \in Addr, WriteAddr(a)
    PROVE  PiInv'
<1>1. TypeOK'
  BY DEF PiInv, TypeOK, WriteAddr, writeVars, memoryVars
<1>2. DmaInv'
  BY DEF PiInv, DmaInv, WriteAddr, CompletedIsReported, DmaBusy,
         AddressesAreThePrograms, EndIsNoted
<1>3. WriteInv'
  BY WritesUndisturbed DEF PiInv, WriteAddr, IoBusy
<1> QED BY <1>1, <1>2, <1>3 DEF PiInv

\* PI_WR_LEN keeps it, whether or not it takes the latch.
LEMMA InitDmaFromCartKeeps ==
    ASSUME PiInv, NEW aligned \in BOOLEAN, InitDmaFromCart(aligned)
    PROVE  PiInv'
<1>1. TypeOK'
  BY EndType DEF PiInv, TypeOK, InitDmaFromCart, memoryVars, StatusBits, DmaBusy,
                 IoBusy
<1>2. DmaInv'
  <2>1. DmaBusy' /\ CompletedIsReported'
    BY DEF InitDmaFromCart, DmaBusy, CompletedIsReported
  <2>2. dma_events' = dma_events + 1 /\ dma_events' > 0
    BY DEF PiInv, TypeOK, InitDmaFromCart
  <2>3. ~ dma_careless' => dma_events = 0
    BY DEF PiInv, DmaInv, InitDmaFromCart
  <2>4. EndIsNoted'
    BY DEF InitDmaFromCart, EndIsNoted
  <2> QED BY <2>1, <2>2, <2>3, <2>4 DEF DmaInv, AddressesAreThePrograms
<1>3. WriteInv'
  <2>1. CASE aligned /\ IoBusy
    <3>1. ~ IoBusy' /\ io_careless' = (io_careless \/ IoBusy)
      BY <2>1 DEF InitDmaFromCart, IoBusy
    <3> QED BY <3>1, WritesGivenUp DEF PiInv, InitDmaFromCart
  <2>2. CASE ~ (aligned /\ IoBusy)
    <3>1. IoBusy' = IoBusy /\ io_careless' = io_careless
      BY <2>2 DEF InitDmaFromCart, IoBusy, PiInv, TypeOK
    <3> QED BY <3>1, WritesUndisturbed DEF PiInv, InitDmaFromCart, writeVars
  <2> QED BY <2>1, <2>2
<1> QED BY <1>1, <1>2, <1>3 DEF PiInv

\* PI_RD_LEN keeps it: it is careless by itself.
LEMMA InitDmaToCartKeeps ==
    ASSUME PiInv, InitDmaToCart
    PROVE  PiInv'
<1>1. TypeOK'
  BY DEF PiInv, TypeOK, InitDmaToCart, FinishDma, writeVars, memoryVars,
         StatusBits
<1>2. DmaInv'
  BY DEF PiInv, DmaInv, InitDmaToCart, FinishDma, CompletedIsReported, DmaBusy,
         AddressesAreThePrograms, EndIsNoted
<1>3. WriteInv'
  BY WritesUndisturbed DEF PiInv, InitDmaToCart, FinishDma, IoBusy
<1> QED BY <1>1, <1>2, <1>3 DEF PiInv

\* The end of a DMA keeps it: to a program that waits it is the only one.
LEMMA OnDmaFinishKeeps ==
    ASSUME PiInv, OnDmaFinish
    PROVE  PiInv'
<1>1. TypeOK'
  BY DEF PiInv, TypeOK, OnDmaFinish, FinishDma, writeVars, memoryVars, StatusBits
<1>2. DmaInv'
  BY DEF PiInv, TypeOK, DmaInv, OnDmaFinish, FinishDma, CompletedIsReported,
         DmaBusy, AddressesAreThePrograms, EndIsNoted
<1>3. WriteInv'
  BY WritesUndisturbed DEF PiInv, OnDmaFinish, FinishDma, IoBusy
<1> QED BY <1>1, <1>2, <1>3 DEF PiInv

\* A reset keeps it.
LEMMA ResetDmaKeeps ==
    ASSUME PiInv, ResetDma
    PROVE  PiInv'
<1>1. TypeOK'
  <2>1. dma_events' \in Nat
    BY DEF PiInv, TypeOK, ResetDma
  <2>2. io_careless' \in BOOLEAN
    BY DEF PiInv, TypeOK, ResetDma
  <2> QED BY <2>1, <2>2 DEF PiInv, TypeOK, ResetDma, memoryVars
<1>2. DmaInv'
  BY DEF PiInv, TypeOK, DmaInv, ResetDma, CompletedIsReported, DmaBusy,
         AddressesAreThePrograms, EndIsNoted
<1>3. WriteInv'
  BY WritesGivenUp DEF PiInv, ResetDma, IoBusy
<1> QED BY <1>1, <1>2, <1>3 DEF PiInv

\* Clearing the interrupt keeps it.
LEMMA ClearInterruptKeeps ==
    ASSUME PiInv, ClearInterrupt
    PROVE  PiInv'
<1>1. TypeOK'
  BY DEF PiInv, TypeOK, ClearInterrupt, dmaVars, writeVars, memoryVars
<1>2. DmaInv'
  BY DEF PiInv, DmaInv, ClearInterrupt, dmaVars, CompletedIsReported, DmaBusy,
         AddressesAreThePrograms, EndIsNoted
<1>3. WriteInv'
  BY WritesUndisturbed DEF PiInv, ClearInterrupt, IoBusy
<1> QED BY <1>1, <1>2, <1>3 DEF PiInv

\* Accepting a store keeps it: the latch is free, and so is the event.
LEMMA WriteKeeps ==
    ASSUME PiInv, NEW v \in Value, NEW dst \in Slot \cup {NoSlot}, Write(v, dst)
    PROVE  PiInv'
<1>1. TypeOK'
  BY DEF PiInv, TypeOK, Write, dmaVars, StatusBits, Word
<1>2. DmaInv'
  BY DmasUndisturbed DEF PiInv, Write, DmaBusy
<1>3. (IoBusy => write_events > 0)'
      /\ (~ io_careless => write_events = IF IoBusy THEN 1 ELSE 0)'
  BY DEF PiInv, TypeOK, WriteInv, Write, IoBusy
<1>4. AcceptedWritesLand'
  BY DEF Write, AcceptedWritesLand, IoBusy
<1>5. LatchHoldsWrite'
  <2>1. SUFFICES ASSUME ~ io_careless, NEW s \in Slot
                 PROVE  /\ ~ latch'.swapped
                        /\ IF s = dst THEN latch'.value = accepted'[s]
                           ELSE sram'[s] = BigEndian(accepted'[s])
    BY DEF Write, LatchHoldsWrite, BigEndian
  <2>2. sram[s] = BigEndian(accepted[s])
    BY <2>1 DEF PiInv, WriteInv, AcceptedWritesLand, Write
  <2>3. accepted' \in [Slot -> Value \cup {NoValue}]
        /\ accepted'[s] = IF s = dst THEN v ELSE accepted[s]
    BY PiAssumption DEF PiInv, TypeOK, Write
  <2> QED BY <2>2, <2>3 DEF Write
<1> QED BY <1>1, <1>2, <1>3, <1>4, <1>5 DEF PiInv, WriteInv

\* The end of a write keeps it: the latch reaches its word, swapped once.
LEMMA OnWriteFinishKeeps ==
    ASSUME PiInv, OnWriteFinish
    PROVE  PiInv'
<1>0. latch' = Byteswap(latch) /\ latch' \in Word
      /\ (~ latch.swapped => latch' = BigEndian(latch.value))
  BY ByteswapFacts DEF PiInv, TypeOK, OnWriteFinish
<1>1. TypeOK'
  BY <1>0 DEF PiInv, TypeOK, OnWriteFinish, dmaVars
<1>2. DmaInv'
  BY DmasUndisturbed DEF PiInv, OnWriteFinish, DmaBusy
<1>3. (IoBusy => write_events > 0)'
      /\ (~ io_careless => write_events = IF IoBusy THEN 1 ELSE 0)'
  BY DEF PiInv, TypeOK, WriteInv, OnWriteFinish, IoBusy
<1>4. AcceptedWritesLand'
  <2>1. SUFFICES ASSUME ~ io_careless, NEW s \in Slot
                 PROVE  sram'[s] = BigEndian(accepted[s])
    BY DEF OnWriteFinish, AcceptedWritesLand, BigEndian
  <2>2. IoBusy
    BY <2>1 DEF PiInv, WriteInv, OnWriteFinish
  <2>3. /\ ~ latch.swapped
        /\ IF s = write_dst THEN latch.value = accepted[s]
           ELSE sram[s] = BigEndian(accepted[s])
    BY <2>1, <2>2 DEF PiInv, WriteInv, LatchHoldsWrite
  <2>4. sram'[s] = IF s = write_dst THEN latch' ELSE sram[s]
    BY <2>1, PiAssumption DEF PiInv, TypeOK, OnWriteFinish
  <2> QED BY <1>0, <2>3, <2>4
<1>5. LatchHoldsWrite'
  BY DEF OnWriteFinish, LatchHoldsWrite, IoBusy
<1> QED BY <1>1, <1>2, <1>3, <1>4, <1>5 DEF PiInv, WriteInv

\* A load during a write keeps it.
LEMMA ReadKeeps ==
    ASSUME PiInv, Read
    PROVE  PiInv'
<1>1. TypeOK'
  BY DEF PiInv, TypeOK, Read, dmaVars, memoryVars
<1>2. DmaInv'
  BY DmasUndisturbed DEF PiInv, Read, DmaBusy
<1>3. WriteInv'
  BY WritesGivenUp DEF PiInv, Read, IoBusy
<1> QED BY <1>1, <1>2, <1>3 DEF PiInv

-----------------------------------------------------------------------------
\* Every step keeps the invariant.
LEMMA PiNext == PiInv /\ [Next]_vars => PiInv'
<1> SUFFICES ASSUME PiInv, [Next]_vars PROVE PiInv'
  OBVIOUS
<1>1. CASE UNCHANGED vars
  <2>1. TypeOK'
    BY <1>1 DEF PiInv, TypeOK, vars, dmaVars, writeVars, memoryVars
  <2>2. DmaInv'
    BY <1>1, DmasUndisturbed DEF PiInv, vars, DmaBusy
  <2>3. WriteInv'
    BY <1>1, WritesUndisturbed DEF PiInv, vars, IoBusy
  <2> QED BY <2>1, <2>2, <2>3 DEF PiInv
<1>2. CASE \E a \in Addr : WriteAddr(a)
  BY <1>2, WriteAddrKeeps
<1>3. CASE \E aligned \in BOOLEAN : InitDmaFromCart(aligned)
  BY <1>3, InitDmaFromCartKeeps
<1>4. CASE \E v \in Value, dst \in Slot \cup {NoSlot} : Write(v, dst)
  BY <1>4, WriteKeeps
<1>5. CASE WriteIgnored
  BY <1>1, <1>5 DEF WriteIgnored
<1> QED
  BY <1>1, <1>2, <1>3, <1>4, <1>5, InitDmaToCartKeeps, OnDmaFinishKeeps,
     ResetDmaKeeps, ClearInterruptKeeps, OnWriteFinishKeeps, ReadKeeps
     DEF Next

\* The invariant holds in every reachable state.
LEMMA PiInvariant == Spec => []PiInv
<1> QED BY PiInit, PiNext, PTL DEF Spec

-----------------------------------------------------------------------------
(* Theorems.                                                               *)

\* The registers of the PI keep their types, for every cartridge.
THEOREM PiTypeCorrect == Spec => []TypeOK
<1>1. PiInv => TypeOK
  BY DEF PiInv
<1> QED BY <1>1, PiInvariant, PTL

\* A busy bit is never up without an event that takes it down, however many DMAs,
\* resets, loads and stores the program mixes (pi.cpp).
THEOREM BusyBitsComeDown == Spec => []BusyHasEvent
<1>1. PiInv => BusyHasEvent
  BY DEF PiInv, DmaInv, WriteInv, BusyHasEvent
<1> QED BY <1>1, PiInvariant, PTL

\* dma_completed is never up without the interrupt.
THEOREM CompletionsAreReported == Spec => []CompletedIsReported
<1>1. PiInv => CompletedIsReported
  BY DEF PiInv, DmaInv
<1> QED BY <1>1, PiInvariant, PTL

\* Waiting makes each busy bit exactly its event.
THEOREM NoEarlyEnd == Spec => []OneEventEach
<1>1. PiInv => OneEventEach
  BY DEF PiInv, DmaInv, WriteInv, OneEventEach
<1> QED BY <1>1, PiInvariant, PTL

\* No accepted write of a program that waits is lost or stored in the byte order
\* of the host, for any number of words and values (Write and its callback).
THEOREM WritesReachSram == Spec => []AcceptedWritesLand
<1>1. PiInv => AcceptedWritesLand
  BY DEF PiInv, WriteInv
<1> QED BY <1>1, PiInvariant, PTL

\* The address registers are moved by the program and its own transfers only.
THEOREM AddressesKept == Spec => []AddressesAreThePrograms
<1>1. PiInv => AddressesAreThePrograms
  BY DEF PiInv, DmaInv
<1> QED BY <1>1, PiInvariant, PTL
=============================================================================
