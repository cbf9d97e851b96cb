---------------------------- MODULE N64RspProofs ----------------------------
(***************************************************************************)
(* Proofs about the RSP: its DMA engine, with the two processors that      *)
(* share it, and the multiplications of its vector unit.  An accumulator   *)
(* is three lanes; each operation on it is related to the number they make *)
(* up modulo 2^48, each product to the slices that the code computes.      *)
(***************************************************************************)
EXTENDS N64SpDmaClients, N64RspLockstep, TLAPS

(***************************************************************************)
(* The DMA engine.                                                         *)
(***************************************************************************)
\* The invariant of the engine; it is inductive as it stands.
EngineInv ==
    /\ TypeOK
    /\ FinishEventMatchesBusy
    /\ DirectionIsRequested
    /\ UncrossedLengthIsRequested
    /\ IdleLengthsAgree

USE DEF Busy, Full

\* The lengths PowerOn and OnDmaFinish store are lengths.
LEMMA LengthFacts ==
    /\ DmaType = {"RdToSp", "SpToRd"}
    /\ Zero \in Length
    /\ \A l \in Length : [l EXCEPT !.bytes = AllDone] \in Length
BY SpDmaAssumption DEF DmaType, Zero, Length

\* PowerOn establishes the invariant of the engine.
LEMMA EngineInit == Init => EngineInv
<1> SUFFICES ASSUME Init PROVE EngineInv
  OBVIOUS
<1>1. TypeOK
  BY LengthFacts, SpDmaAssumption
     DEF Init, TypeOK, Request, Transfer
<1>2. FinishEventMatchesBusy /\ DirectionIsRequested /\ UncrossedLengthIsRequested
  BY DEF Init, FinishEventMatchesBusy, DirectionIsRequested,
         UncrossedLengthIsRequested
<1>3. IdleLengthsAgree
  BY LengthFacts DEF Init, IdleLengthsAgree, ReadLength
<1> QED BY <1>1, <1>2, <1>3 DEF EngineInv

\* A write of SP_DMA_SPADDR or SP_DMA_RAMADDR keeps it.
LEMMA WriteAddressKeeps ==
    ASSUME EngineInv, NEW a \in Address, WriteAddress(a)
    PROVE  EngineInv'
BY DEF EngineInv, WriteAddress, TypeOK, FinishEventMatchesBusy,
       DirectionIsRequested, UncrossedLengthIsRequested, IdleLengthsAgree,
       ReadLength

\* A length written while the engine is busy keeps it.
LEMMA BufferLengthKeeps ==
    ASSUME EngineInv, NEW type \in DmaType, NEW length \in Length,
           BufferLength(type, length)
    PROVE  EngineInv'
<1> USE DEF EngineInv, BufferLength
<1>1. TypeOK'
  BY DEF TypeOK, Request
<1>2. FinishEventMatchesBusy'
  BY DEF TypeOK, FinishEventMatchesBusy
<1>3. DirectionIsRequested'
  BY DEF TypeOK, DirectionIsRequested
<1>4. UncrossedLengthIsRequested' /\ IdleLengthsAgree'
  BY DEF TypeOK, UncrossedLengthIsRequested, IdleLengthsAgree, ReadLength
<1> QED BY <1>1, <1>2, <1>3, <1>4

\* A length that starts a transfer (WriteReg, InitDma) keeps it.
LEMMA StartTransferKeeps ==
    ASSUME EngineInv, NEW type \in DmaType, NEW length \in Length,
           StartTransfer(type, length)
    PROVE  EngineInv'
<1> USE DEF EngineInv, StartTransfer, InitDma
<1>0. /\ dma_len' \in [DmaType -> Length]
      /\ transfer' = [type |-> type, length |-> length, addr |-> dma_addr]
  BY DEF TypeOK
<1> HIDE DEF StartTransfer
<1>1. TypeOK'
  <2>1. transfer' \in Transfer /\ wanted' \in Request
    BY <1>0 DEF TypeOK, Transfer, Request, StartTransfer
  <2>2. /\ status' = status \cup {"dma_busy"} /\ finish_events' = finish_events + 1
        /\ dma_addr' = EndAddress /\ in_progress_dma_type' = type
        /\ dma_busy' = 1 /\ crossed' = FALSE
        /\ UNCHANGED <<dma_full, buffered, pending_dma_type, sp_interrupt, queued>>
    BY DEF StartTransfer
  <2>3. /\ status' \subseteq {"dma_busy", "dma_full"}
        /\ finish_events' \in Nat
        /\ dma_addr' \in Address
    BY <2>2, SpDmaAssumption DEF TypeOK
  <2>4. /\ in_progress_dma_type' \in DmaType /\ dma_busy' \in {0, 1}
        /\ crossed' \in BOOLEAN /\ dma_full' \in {0, 1}
        /\ buffered' \in [DmaType -> Length]
        /\ pending_dma_type' \in DmaType
        /\ sp_interrupt' \in BOOLEAN /\ queued' \in Request
    BY <2>2 DEF TypeOK
  <2> QED BY <1>0, <2>1, <2>3, <2>4 DEF TypeOK
<1> USE DEF StartTransfer
<1>2. FinishEventMatchesBusy'
  BY DEF TypeOK, FinishEventMatchesBusy
<1>3. DirectionIsRequested'
  BY DEF TypeOK, DirectionIsRequested, FinishEventMatchesBusy
<1>4. UncrossedLengthIsRequested' /\ IdleLengthsAgree'
  BY DEF TypeOK, UncrossedLengthIsRequested, IdleLengthsAgree, ReadLength
<1> QED BY <1>1, <1>2, <1>3, <1>4

\* OnDmaFinish keeps it, with and without a pending request.
LEMMA FinishKeeps ==
    ASSUME EngineInv, OnDmaFinish
    PROVE  EngineInv'
<1>1. CASE FinishAndChain
  <2> USE <1>1 DEF EngineInv, FinishAndChain, InitDma
  <2>1. TypeOK'
    BY SpDmaAssumption DEF TypeOK, Request, Transfer
  <2>2. FinishEventMatchesBusy'
    BY DEF TypeOK, FinishEventMatchesBusy
  <2>3. DirectionIsRequested'
    BY DEF TypeOK, DirectionIsRequested
  <2>4. UncrossedLengthIsRequested' /\ IdleLengthsAgree'
    BY DEF TypeOK, DirectionIsRequested, UncrossedLengthIsRequested,
           IdleLengthsAgree, ReadLength
  <2> QED BY <2>1, <2>2, <2>3, <2>4
<1>2. CASE FinishLast
  <2> USE <1>2 DEF EngineInv, FinishLast
  <2>1. TypeOK'
    BY LengthFacts DEF TypeOK, FinishEventMatchesBusy
  <2>2. FinishEventMatchesBusy'
    BY DEF TypeOK, FinishEventMatchesBusy
  <2>3. DirectionIsRequested' /\ UncrossedLengthIsRequested'
    BY DEF TypeOK, DirectionIsRequested, UncrossedLengthIsRequested
  <2>4. IdleLengthsAgree'
    BY DEF TypeOK, IdleLengthsAgree, ReadLength, DmaType
  <2> QED BY <2>1, <2>2, <2>3, <2>4
<1> QED BY <1>1, <1>2 DEF OnDmaFinish

\* Every step of the engine keeps its invariant.
LEMMA EngineNext == EngineInv /\ [Next]_spVars => EngineInv'
<1> SUFFICES ASSUME EngineInv, [Next]_spVars PROVE EngineInv'
  OBVIOUS
<1>1. CASE AcknowledgeInterrupt
  BY <1>1 DEF EngineInv, AcknowledgeInterrupt, registers, TypeOK,
       FinishEventMatchesBusy, DirectionIsRequested,
       UncrossedLengthIsRequested, IdleLengthsAgree, ReadLength
<1>2. CASE UNCHANGED spVars
  BY <1>2 DEF EngineInv, spVars, registers, TypeOK,
       FinishEventMatchesBusy, DirectionIsRequested,
       UncrossedLengthIsRequested, IdleLengthsAgree, ReadLength
<1> QED BY <1>1, <1>2, WriteAddressKeeps, BufferLengthKeeps,
           StartTransferKeeps, FinishKeeps DEF Next, WriteLength

\* The invariant of the engine holds in every reachable state.
LEMMA EngineInvariant == Spec => []EngineInv
BY EngineInit, EngineNext, PTL DEF Spec

\* The engine's registers keep their types under any register writes.
THEOREM EngineTypeCorrect == Spec => []TypeOK
BY EngineInvariant, PTL DEF EngineInv

\* The engine is busy exactly while one finish event is scheduled, whatever is
\* written to its registers and whenever (InitDma, OnDmaFinish, WriteReg).
THEOREM OneFinishEventPerTransfer == Spec => []FinishEventMatchesBusy
BY EngineInvariant, PTL DEF EngineInv

\* A transfer goes in the direction its request asked for, and the request kept
\* while busy is the last one written.
THEOREM DirectionKept == Spec => []DirectionIsRequested
BY EngineInvariant, PTL DEF EngineInv

\* Away from a change of direction, a transfer has the length asked for; this is
\* what remains true of the comment at ReadReg.
THEOREM LengthKept == Spec => [](UncrossedLengthIsRequested /\ IdleLengthsAgree)
BY EngineInvariant, PTL DEF EngineInv

-----------------------------------------------------------------------------
(* The CPU and the RSP under the semaphore.                                *)

\* The address registers belong to the request that will be served next: to
\* the pending one until it starts, else to the owner that wrote them.
AddressBelongs ==
    /\ Full => dma_addr = queued_by
    /\ Busy => transfer.addr = wanted_by
    /\ \A c \in Client :
          /\ stage[c] \in {"clear", "addressed"} => ~ Full
          /\ stage[c] = "addressed" => dma_addr = c

ClientsInv ==
    /\ EngineInv
    /\ ClientsTypeOK
    /\ SemaphoreExcludes
    /\ AddressBelongs

\* Each step of the clients is one of the engine's, or leaves it alone.
LEMMA ClientsStepIsEngineStep == [ClientsNext]_vars => [Next]_spVars
<1> SUFFICES ASSUME [ClientsNext]_vars PROVE [Next]_spVars
  OBVIOUS
<1>1. CASE Finish
  BY <1>1 DEF Finish, Next
<1>2. ASSUME NEW c \in Client, Step(c) PROVE [Next]_spVars
  BY <1>2, ClientAssumption
     DEF Step, ReadSemaphore, SeeNotFull, ProgramAddress, ProgramLength,
         WriteSemaphore, Next, WriteLength
<1>3. CASE UNCHANGED vars
  BY <1>3 DEF vars
<1> QED BY <1>1, <1>2, <1>3 DEF ClientsNext

\* Clients and engine start in the invariant of both.
LEMMA ClientsInitInv == ClientsInit => ClientsInv
<1> SUFFICES ASSUME ClientsInit PROVE ClientsInv
  OBVIOUS
<1>1. EngineInv
  BY EngineInit DEF ClientsInit
<1> QED BY <1>1, SpDmaAssumption
        DEF ClientsInit, ClientsInv, ClientsTypeOK, SemaphoreExcludes,
            AddressBelongs, Owns, Stage, EngineInv, Init

\* Every step of a client, and every finish event, keeps the invariant of both.
LEMMA ClientsNextInv == ClientsInv /\ [ClientsNext]_vars => ClientsInv'
<1> SUFFICES ASSUME ClientsInv, [ClientsNext]_vars PROVE ClientsInv'
  OBVIOUS
<1>1. EngineInv' /\ TypeOK'
  BY ClientsStepIsEngineStep, EngineNext DEF ClientsInv, EngineInv
<1>2. CASE Finish
  <2>1. ClientsTypeOK' /\ SemaphoreExcludes'
    BY <1>1, <1>2 DEF Finish, ClientsInv, ClientsTypeOK, SemaphoreExcludes, Owns
  <2>2. AddressBelongs'
    <3>1. CASE FinishAndChain
      BY <1>2, <3>1 DEF Finish, FinishAndChain, InitDma, ClientsInv, AddressBelongs
    <3>2. CASE FinishLast
      BY <1>2, <3>2 DEF Finish, FinishLast, ClientsInv, AddressBelongs
    <3> QED BY <1>2, <3>1, <3>2 DEF Finish, OnDmaFinish
  <2> QED BY <1>1, <2>1, <2>2 DEF ClientsInv
<1>3. ASSUME NEW c \in Client, Step(c) PROVE ClientsInv'
  <2>0. /\ ClientsTypeOK /\ SemaphoreExcludes /\ AddressBelongs
        /\ stage \in [Client -> Stage]
    BY DEF ClientsInv, ClientsTypeOK
  <2>1. CASE ReadSemaphore(c)
    BY <1>1, <2>0, <2>1
       DEF ReadSemaphore, ClientsInv, ClientsTypeOK, SemaphoreExcludes,
           AddressBelongs, Owns, Stage, spVars, registers
  <2>2. CASE SeeNotFull(c)
    BY <1>1, <2>0, <2>2
       DEF SeeNotFull, Advance, ClientsInv, ClientsTypeOK, SemaphoreExcludes,
           AddressBelongs, Owns, Stage, spVars, registers
  <2>3. CASE ProgramAddress(c)
    BY <1>1, <2>0, <2>3
       DEF ProgramAddress, WriteAddress, Advance, ClientsInv, ClientsTypeOK,
           SemaphoreExcludes, AddressBelongs, Owns, Stage
  <2>4. CASE ProgramLength(c)
    <3>0. /\ stage[c] = "addressed" /\ stage' = [stage EXCEPT ![c] = "issued"]
          /\ UNCHANGED semaphore
      BY <2>4 DEF ProgramLength, Advance
    <3>1. c \in Address
      BY ClientAssumption
    <3>2. PICK type \in DmaType, length \in Length :
            \/ BufferLength(type, length) /\ queued_by' = c /\ UNCHANGED wanted_by
            \/ StartTransfer(type, length) /\ wanted_by' = c /\ UNCHANGED queued_by
      BY <2>4 DEF ProgramLength
    <3>3. ClientsTypeOK' /\ SemaphoreExcludes'
      BY <1>1, <2>0, <3>0, <3>1, <3>2 DEF ClientsTypeOK, SemaphoreExcludes, Owns, Stage
    <3>4. AddressBelongs'
      <4>1. \A d \in Client : stage'[d] \notin {"clear", "addressed"}
        BY <2>0, <3>0 DEF SemaphoreExcludes, Owns
      <4> QED BY <2>0, <3>0, <3>2, <4>1
              DEF AddressBelongs, BufferLength, StartTransfer, InitDma
    <3> QED BY <1>1, <3>3, <3>4 DEF ClientsInv
  <2>5. CASE WriteSemaphore(c)
    BY <1>1, <2>0, <2>5
       DEF WriteSemaphore, Advance, ClientsInv, ClientsTypeOK, SemaphoreExcludes,
           AddressBelongs, Owns, Stage, spVars, registers
  <2> QED BY <1>3, <2>1, <2>2, <2>3, <2>4, <2>5 DEF Step
<1>4. CASE UNCHANGED vars
  BY <1>1, <1>4 DEF vars, spVars, registers, ClientsInv, ClientsTypeOK,
                    SemaphoreExcludes, AddressBelongs, Owns
<1> QED BY <1>2, <1>3, <1>4 DEF ClientsNext

\* The invariant of both holds in every reachable state.
LEMMA ClientsInvariant == ClientsSpec => []ClientsInv
BY ClientsInitInv, ClientsNextInv, PTL DEF ClientsSpec

\* Any number of processors that follow the protocol exclude each other, by
\* the read-and-set of SP_SEMAPHORE alone.
THEOREM SemaphoreMutualExclusion == ClientsSpec => []SemaphoreExcludes
BY ClientsInvariant, PTL DEF ClientsInv

\* A transfer uses the addresses of the processor that asked for it.
THEOREM AddressesNotMixedUp == ClientsSpec => []TransferUsesOwnAddress
<1>1. ClientsInv => TransferUsesOwnAddress
  BY DEF ClientsInv, AddressBelongs, TransferUsesOwnAddress
<1> QED BY <1>1, ClientsInvariant, PTL

\* No issued request is overwritten before it starts.
THEOREM RequestsNotOverwritten == ClientsSpec => NoRequestOverwritten
<1> DEFINE Kept == \A c \in Client :
                     stage[c] = "addressed" /\ stage'[c] = "issued" => ~ Full
<1>1. ClientsInv => Kept
  BY DEF ClientsInv, AddressBelongs
<1>2. ClientsInv /\ [ClientsNext]_vars => [Kept]_vars
  BY <1>1
<1> QED BY <1>2, ClientsInvariant, PTL DEF ClientsSpec, NoRequestOverwritten

(***************************************************************************)
(* Halfwords.  Base is the number of their patterns, Lane the set of them. *)
(***************************************************************************)
Base == 2^H
Half == 2^(H - 1)
Lane == 0..Base - 1

\* The widths, for every size of a byte up to eight bits.
LEMMA Widths ==
    /\ Base \in Nat /\ Half \in Nat
    /\ Base = 2 * Half /\ Half >= 2
    /\ Ones = Base - 1
    /\ 2^(2 * H) = Base * Base
<1>1. CASE BYTE = 1 BY <1>1, SMT DEF Base, Half, Ones, H
<1>2. CASE BYTE = 2 BY <1>2, SMT DEF Base, Half, Ones, H
<1>3. CASE BYTE = 3 BY <1>3, SMT DEF Base, Half, Ones, H
<1>4. CASE BYTE = 4 BY <1>4, SMT DEF Base, Half, Ones, H
<1>5. CASE BYTE = 5 BY <1>5, SMT DEF Base, Half, Ones, H
<1>6. CASE BYTE = 6 BY <1>6, SMT DEF Base, Half, Ones, H
<1>7. CASE BYTE = 7 BY <1>7, SMT DEF Base, Half, Ones, H
<1>8. CASE BYTE = 8 BY <1>8, SMT DEF Base, Half, Ones, H
<1> QED BY <1>1, <1>2, <1>3, <1>4, <1>5, <1>6, <1>7, <1>8, ByteAssumption

\* Division with remainder, and that its two parts are unique.
LEMMA Division ==
    ASSUME NEW b \in Nat, b > 0, NEW x \in Int
    PROVE  /\ x \div b \in Int /\ x % b \in 0..b - 1
           /\ x = b * (x \div b) + (x % b)
BY SMT

LEMMA QuotientUnique ==
    ASSUME NEW b \in Nat, b > 0, NEW q \in Int, NEW r \in 0..b - 1
    PROVE  (b * q + r) % b = r /\ (b * q + r) \div b = q
BY SMT

\* The operators of a lane in terms of Base.
LEMMA Operators ==
    /\ \A a, b : Sum(a, b) = (a + b) % Base
    /\ \A a, b : Minus(a, b) = (a - b) % Base
    /\ \A a, b : MulLow(a, b) = (a * b) % Base
    /\ \A a, b : MulHigh(a, b) = ((Sl(a) * Sl(b)) \div Base) % Base
    /\ \A a, b : MulHighU(a, b) = (a * b) \div Base
    /\ \A a, b : MulHighUS(a, b) = (MulHighU(a, b) - (IF Sl(b) < 0 THEN a ELSE 0)) % Base
    /\ \A v : SatS(v) = Between(-Half, Half - 1, v) % Base
    /\ \A v : Sl(v) = IF v % Base < Half THEN v % Base ELSE (v % Base) - Base
    /\ \A a : Sign(a) = ((Sl(a) \div Half) % Base)
    /\ \A a, b : Joined(a, b) = a + Base * Sl(b)
BY DEF Sum, Minus, MulLow, MulHigh, MulHighU, MulHighUS, SatS, Sl, Signed, Sign, Sar, Joined, Fit,
       Base, Half

\* A lane is a number below Base, and the other way round.
LEMMA LaneType == ASSUME NEW a \in Lane PROVE a \in Int /\ 0 <= a /\ a < Base
BY Widths DEF Lane

LEMMA InLane == ASSUME NEW a \in Int, 0 <= a, a < Base PROVE a \in Lane
BY Widths DEF Lane

\* A number at most one Base away from a lane leaves that lane.
LEMMA Wrapped ==
    ASSUME NEW x \in Int, NEW r \in Lane, x = r \/ x = r + Base \/ x = r - Base
    PROVE  x % Base = r
<1>1. Base \in Nat /\ Base > 0 /\ r \in Int BY Widths, LaneType
<1>2. ASSUME NEW q \in Int, x = Base * q + r
      PROVE  x % Base = r
  BY <1>1, <1>2, QuotientUnique DEF Lane
<1>3. r = Base * 0 + r /\ r + Base = Base * 1 + r /\ r - Base = Base * (-1) + r
  BY <1>1
<1>4. 0 \in Int /\ 1 \in Int /\ -1 \in Int
  OBVIOUS
<1> QED BY <1>2, <1>3, <1>4

LEMMA RemainderType == ASSUME NEW x \in Int PROVE x % Base \in Lane
BY Widths, Division DEF Lane

\* _mm_add_epi16 and the comparison with an operand that finds its carry.
LEMMA SumFacts ==
    ASSUME NEW a \in Lane, NEW b \in Lane
    PROVE  /\ Sum(a, b) \in Lane
           /\ Sum(a, b) = IF a + b < Base THEN a + b ELSE a + b - Base
           /\ Below(Sum(a, b), b) = Mask(a + b >= Base)
<1>1. a \in Int /\ b \in Int /\ 0 <= a /\ a < Base /\ 0 <= b /\ b < Base /\ Base \in Int
  BY LaneType, Widths
<1>2. (a + b) \in Int
  BY <1>1
<1>9. Sum(a, b) = (a + b) % Base
  BY DEF Sum, Fit, Base
<1>3. CASE a + b < Base
  <2>1. a + b \in Lane
    BY <1>1, <1>3, InLane
  <2>2. Sum(a, b) = a + b
    BY <1>2, <1>9, <2>1, Wrapped
  <2>3. ~ (Sum(a, b) < b)
    BY <1>1, <2>2
  <2>4. Below(Sum(a, b), b) = Mask(a + b >= Base)
    BY <1>1, <1>3, <2>3 DEF Below, Mask
  <2> QED BY <1>3, <2>1, <2>2, <2>4
<1>4. CASE ~(a + b < Base)
  <2>1. a + b - Base \in Lane
    BY <1>1, <1>4, InLane
  <2>5. a + b = (a + b - Base) + Base
    BY <1>1
  <2>2. Sum(a, b) = a + b - Base
    BY <1>2, <1>9, <2>1, <2>5, Wrapped
  <2>3. Sum(a, b) < b
    BY <1>1, <2>2
  <2>4. Below(Sum(a, b), b) = Mask(a + b >= Base)
    BY <1>1, <1>4, <2>3 DEF Below, Mask
  <2> QED BY <1>4, <2>1, <2>2, <2>4
<1> QED BY <1>3, <1>4

\* Subtracting a mask, which is -1, adds the carry the mask stands for.
LEMMA MinusFacts ==
    ASSUME NEW a \in Lane, NEW c \in BOOLEAN
    PROVE  /\ Minus(a, Mask(c)) \in Lane
           /\ Minus(a, Mask(c)) = IF c THEN IF a + 1 < Base THEN a + 1 ELSE 0 ELSE a
<1>1. a \in Int /\ 0 <= a /\ a < Base /\ Base \in Int /\ Ones = Base - 1 /\ Base > 1
  BY LaneType, Widths
<1>2. CASE c = FALSE
  <2>1. a - 0 = a /\ Minus(a, 0) = (a - 0) % Base
    BY <1>1, Operators
  <2>2. Minus(a, 0) = a
    BY <1>1, <2>1, Wrapped
  <2> QED BY <1>2, <2>2 DEF Mask
<1>3. CASE c /\ a + 1 < Base
  <2>1. a + 1 \in Lane /\ a - Ones \in Int /\ a - Ones = (a + 1) - Base
    BY <1>1, <1>3, InLane
  <2>2. Minus(a, Ones) = a + 1
    BY <2>1, Operators, Wrapped
  <2> QED BY <1>3, <2>1, <2>2 DEF Mask
<1>4. CASE c /\ ~(a + 1 < Base)
  <2>1. 0 \in Lane /\ a - Ones = 0
    BY <1>1, <1>4, InLane
  <2>2. Minus(a, Ones) = 0
    BY <2>1, Operators, Wrapped
  <2> QED BY <1>4, <2>1, <2>2 DEF Mask
<1> QED BY <1>2, <1>3, <1>4

\* A lane read as a signed number.
LEMMA SignedFacts ==
    ASSUME NEW a \in Lane
    PROVE  Sl(a) = IF a < Half THEN a ELSE a - Base
BY LaneType, Wrapped, Operators

\* The bitwise and of masks: And32 is built from halves, so what it does to 0
\* and to equal words is shown from one bit up.
LEMMA HalvesFacts ==
    ASSUME NEW n \in Nat, n > 0, NEW x \in 0..n * n - 1
    PROVE  /\ x % n \in 0..n - 1 /\ x \div n \in 0..n - 1 /\ x = n * (x \div n) + (x % n)
           /\ 0 % n = 0 /\ 0 \div n = 0
<1>1. 0 = n * 0 + 0 /\ 0 \in 0..n - 1 /\ 0 \in Int /\ x \in Int /\ 0 <= x /\ x < n * n
  OBVIOUS
<1>2. 0 % n = 0 /\ 0 \div n = 0
  BY <1>1, QuotientUnique
<1>3. x % n \in 0..n - 1 /\ x \div n \in Int /\ x = n * (x \div n) + (x % n)
  BY <1>1, Division
<1> DEFINE q == x \div n
<1>4. q \in Int /\ n * q > -n /\ n * q < n * n
  BY <1>1, <1>3
<1> HIDE DEF q
<1>5. q >= 0 /\ q < n
  <2>1. ASSUME q <= -1 PROVE n * q <= -n
    BY <1>4, <2>1
  <2>2. ASSUME q >= n PROVE n * q >= n * n
    BY <1>4, <2>2
  <2> QED BY <1>4, <2>1, <2>2
<1>6. x \div n \in 0..n - 1
  BY <1>3, <1>5 DEF q
<1> QED BY <1>2, <1>3, <1>6

LEMMA And1Facts ==
    \A x \in 0..1 : And1(x, x) = x /\ And1(0, x) = 0 /\ And1(x, 0) = 0
BY DEF And1

LEMMA And2Facts ==
    \A x \in 0..2 * 2 - 1 : And2(x, x) = x /\ And2(0, x) = 0 /\ And2(x, 0) = 0
<1> DEFINE n == 2
<1>1. n \in Nat /\ n > 0
  BY SMT
<1>4. \A y \in 0..n - 1 : And1(y, y) = y /\ And1(0, y) = 0 /\ And1(y, 0) = 0
  BY And1Facts, SMT
<1>6. \A a, b : And2(a, b) = And1(a % n, b % n) + n * And1(a \div n, b \div n)
  BY Zenon DEF And2, Halves
<1> HIDE DEF n
<1>7. \A x \in 0..n * n - 1 : And2(x, x) = x /\ And2(0, x) = 0 /\ And2(x, 0) = 0
  <2> SUFFICES ASSUME NEW x \in 0..n * n - 1
               PROVE  And2(x, x) = x /\ And2(0, x) = 0 /\ And2(x, 0) = 0
    OBVIOUS
  <2> DEFINE lo == x % n hi == x \div n
  <2>2. /\ lo \in 0..n - 1 /\ hi \in 0..n - 1 /\ x = n * hi + lo
        /\ 0 % n = 0 /\ 0 \div n = 0
    BY <1>1, HalvesFacts
  <2>3. /\ And2(x, x) = And1(lo, lo) + n * And1(hi, hi)
        /\ And2(0, x) = And1(0, lo) + n * And1(0, hi)
        /\ And2(x, 0) = And1(lo, 0) + n * And1(hi, 0)
    BY <1>6, <2>2, Zenon
  <2> HIDE DEF lo, hi
  <2>5. /\ And1(lo, lo) = lo /\ And1(0, lo) = 0 /\ And1(lo, 0) = 0
        /\ And1(hi, hi) = hi /\ And1(0, hi) = 0 /\ And1(hi, 0) = 0
    BY <1>4, <2>2
  <2> QED BY <1>1, <2>2, <2>3, <2>5
<1> QED BY <1>7 DEF n

LEMMA And4Facts ==
    \A x \in 0..2^2 * 2^2 - 1 : And4(x, x) = x /\ And4(0, x) = 0 /\ And4(x, 0) = 0
<1> DEFINE n == 2^2
<1>1. n \in Nat /\ n > 0
  BY SMT
<1>4. \A y \in 0..n - 1 : And2(y, y) = y /\ And2(0, y) = 0 /\ And2(y, 0) = 0
  BY And2Facts, SMT
<1>6. \A a, b : And4(a, b) = And2(a % n, b % n) + n * And2(a \div n, b \div n)
  BY Zenon DEF And4, Halves
<1> HIDE DEF n
<1>7. \A x \in 0..n * n - 1 : And4(x, x) = x /\ And4(0, x) = 0 /\ And4(x, 0) = 0
  <2> SUFFICES ASSUME NEW x \in 0..n * n - 1
               PROVE  And4(x, x) = x /\ And4(0, x) = 0 /\ And4(x, 0) = 0
    OBVIOUS
  <2> DEFINE lo == x % n hi == x \div n
  <2>2. /\ lo \in 0..n - 1 /\ hi \in 0..n - 1 /\ x = n * hi + lo
        /\ 0 % n = 0 /\ 0 \div n = 0
    BY <1>1, HalvesFacts
  <2>3. /\ And4(x, x) = And2(lo, lo) + n * And2(hi, hi)
        /\ And4(0, x) = And2(0, lo) + n * And2(0, hi)
        /\ And4(x, 0) = And2(lo, 0) + n * And2(hi, 0)
    BY <1>6, <2>2, Zenon
  <2> HIDE DEF lo, hi
  <2>5. /\ And2(lo, lo) = lo /\ And2(0, lo) = 0 /\ And2(lo, 0) = 0
        /\ And2(hi, hi) = hi /\ And2(0, hi) = 0 /\ And2(hi, 0) = 0
    BY <1>4, <2>2
  <2> QED BY <1>1, <2>2, <2>3, <2>5
<1> QED BY <1>7 DEF n

LEMMA And8Facts ==
    \A x \in 0..2^4 * 2^4 - 1 : And8(x, x) = x /\ And8(0, x) = 0 /\ And8(x, 0) = 0
<1> DEFINE n == 2^4
<1>1. n \in Nat /\ n > 0
  BY SMT
<1>4. \A y \in 0..n - 1 : And4(y, y) = y /\ And4(0, y) = 0 /\ And4(y, 0) = 0
  BY And4Facts, SMT
<1>6. \A a, b : And8(a, b) = And4(a % n, b % n) + n * And4(a \div n, b \div n)
  BY Zenon DEF And8, Halves
<1> HIDE DEF n
<1>7. \A x \in 0..n * n - 1 : And8(x, x) = x /\ And8(0, x) = 0 /\ And8(x, 0) = 0
  <2> SUFFICES ASSUME NEW x \in 0..n * n - 1
               PROVE  And8(x, x) = x /\ And8(0, x) = 0 /\ And8(x, 0) = 0
    OBVIOUS
  <2> DEFINE lo == x % n hi == x \div n
  <2>2. /\ lo \in 0..n - 1 /\ hi \in 0..n - 1 /\ x = n * hi + lo
        /\ 0 % n = 0 /\ 0 \div n = 0
    BY <1>1, HalvesFacts
  <2>3. /\ And8(x, x) = And4(lo, lo) + n * And4(hi, hi)
        /\ And8(0, x) = And4(0, lo) + n * And4(0, hi)
        /\ And8(x, 0) = And4(lo, 0) + n * And4(hi, 0)
    BY <1>6, <2>2, Zenon
  <2> HIDE DEF lo, hi
  <2>5. /\ And4(lo, lo) = lo /\ And4(0, lo) = 0 /\ And4(lo, 0) = 0
        /\ And4(hi, hi) = hi /\ And4(0, hi) = 0 /\ And4(hi, 0) = 0
    BY <1>4, <2>2
  <2> QED BY <1>1, <2>2, <2>3, <2>5
<1> QED BY <1>7 DEF n

LEMMA And16Facts ==
    \A x \in 0..2^8 * 2^8 - 1 : And16(x, x) = x /\ And16(0, x) = 0 /\ And16(x, 0) = 0
<1> DEFINE n == 2^8
<1>1. n \in Nat /\ n > 0
  BY SMT
<1>4. \A y \in 0..n - 1 : And8(y, y) = y /\ And8(0, y) = 0 /\ And8(y, 0) = 0
  BY And8Facts, SMT
<1>6. \A a, b : And16(a, b) = And8(a % n, b % n) + n * And8(a \div n, b \div n)
  BY Zenon DEF And16, Halves
<1> HIDE DEF n
<1>7. \A x \in 0..n * n - 1 : And16(x, x) = x /\ And16(0, x) = 0 /\ And16(x, 0) = 0
  <2> SUFFICES ASSUME NEW x \in 0..n * n - 1
               PROVE  And16(x, x) = x /\ And16(0, x) = 0 /\ And16(x, 0) = 0
    OBVIOUS
  <2> DEFINE lo == x % n hi == x \div n
  <2>2. /\ lo \in 0..n - 1 /\ hi \in 0..n - 1 /\ x = n * hi + lo
        /\ 0 % n = 0 /\ 0 \div n = 0
    BY <1>1, HalvesFacts
  <2>3. /\ And16(x, x) = And8(lo, lo) + n * And8(hi, hi)
        /\ And16(0, x) = And8(0, lo) + n * And8(0, hi)
        /\ And16(x, 0) = And8(lo, 0) + n * And8(hi, 0)
    BY <1>6, <2>2, Zenon
  <2> HIDE DEF lo, hi
  <2>5. /\ And8(lo, lo) = lo /\ And8(0, lo) = 0 /\ And8(lo, 0) = 0
        /\ And8(hi, hi) = hi /\ And8(0, hi) = 0 /\ And8(hi, 0) = 0
    BY <1>4, <2>2
  <2> QED BY <1>1, <2>2, <2>3, <2>5
<1> QED BY <1>7 DEF n

\* A lane has at most 16 bits, and a word is wider than a lane.
LEMMA LaneWidth == Base <= 2^16 /\ 2^8 * 2^8 = 2^16 /\ Base <= 2^W /\ 2^W \in Nat
<1>1. CASE BYTE = 1 BY <1>1, SMT DEF Base, W, H
<1>2. CASE BYTE = 2 BY <1>2, SMT DEF Base, W, H
<1>3. CASE BYTE = 3 BY <1>3, SMT DEF Base, W, H
<1>4. CASE BYTE = 4 BY <1>4, SMT DEF Base, W, H
<1>5. CASE BYTE = 5 BY <1>5, SMT DEF Base, W, H
<1>6. CASE BYTE = 6 BY <1>6, SMT DEF Base, W, H
<1>7. CASE BYTE = 7 BY <1>7, SMT DEF Base, W, H
<1>8. CASE BYTE = 8 BY <1>8, SMT DEF Base, W, H
<1> QED BY <1>1, <1>2, <1>3, <1>4, <1>5, <1>6, <1>7, <1>8, ByteAssumption

\* The bitwise and of lanes.
LEMMA AndFacts ==
    ASSUME NEW x \in Lane
    PROVE  And(x, x) = x /\ And(0, x) = 0 /\ And(x, 0) = 0
<1> DEFINE n == 2^16 words == 2^W
<1>1. n \in Nat /\ n > 0 /\ Base <= n
  BY LaneWidth, SMT
<1>2. \A y \in 0..n - 1 : And16(y, y) = y /\ And16(0, y) = 0 /\ And16(y, 0) = 0
  BY And16Facts, LaneWidth, Zenon
<1>3. \A a, b : And32(a, b) = And16(a % n, b % n) + n * And16(a \div n, b \div n)
  BY Zenon DEF And32, Halves
<1>4. Base <= words /\ words \in Nat
  BY LaneWidth
<1>5. AndTable = [a \in 0..words - 1 |-> [b \in 0..words - 1 |-> And32(a, b)]]
  BY DEF AndTable
<1> HIDE DEF n, words
<1>6. x \in Int /\ 0 <= x /\ x < n /\ x = n * 0 + x /\ 0 = n * 0 + 0
  BY <1>1, LaneType, Widths
<1>7. x % n = x /\ x \div n = 0 /\ 0 % n = 0 /\ 0 \div n = 0
  BY <1>1, <1>6, QuotientUnique
<1>8. And32(x, x) = x /\ And32(0, x) = 0 /\ And32(x, 0) = 0
  BY <1>1, <1>2, <1>3, <1>6, <1>7
<1>9. x \in 0..words - 1 /\ 0 \in 0..words - 1
  BY <1>4, LaneType, Widths
<1>10. AndTable[x][x] = And32(x, x) /\ AndTable[0][x] = And32(0, x) /\ AndTable[x][0] = And32(x, 0)
  BY <1>5, <1>9
<1> QED BY <1>8, <1>10 DEF And

\* The bitwise and of two masks is the mask of both.
LEMMA AndOfMasks ==
    ASSUME NEW c \in BOOLEAN, NEW d \in BOOLEAN
    PROVE  And(Mask(c), Mask(d)) = Mask(c /\ d)
<1>1. Ones \in Lane /\ 0 \in Lane
  BY Widths DEF Lane
<1> QED BY <1>1, AndFacts DEF Mask
(***************************************************************************)
(* The accumulator.                                                        *)
(***************************************************************************)
Cube == Base * Base * Base
AccLane(l) == l.lo \in Lane /\ l.mid \in Lane /\ l.hi \in Lane
Acc(l) == l.lo + Base * l.mid + Base * Base * l.hi
Slices(low, mid, high) == low + Base * mid + Base * Base * high
\* Equal modulo 2^48.
Congruent(a, b) == \E k \in Int : a = b + Cube * k

\* The polynomials behind the carries: c1, c2 and c3 go from slice to slice.
CarriesFromLow(lo, mid, hi, low, c1, c2, c3) ==
    Slices(lo + low - Base * c1, mid + c1 - Base * c2, hi + c2 - Base * c3)
      = Slices(lo, mid, hi) + low + Cube * (-c3)
CarriesFromMid(lo, mid, hi, m, c2, c3) ==
    Slices(lo, mid + m - Base * c2, hi + c2 - Base * c3)
      = Slices(lo, mid, hi) + Base * m + Cube * (-c3)
CarriesFromHigh(lo, mid, hi, h, c3) ==
    Slices(lo, mid, hi + h - Base * c3) = Slices(lo, mid, hi) + Base * Base * h + Cube * (-c3)

\* The identities behind the carries.
LEMMA Carries ==
    /\ \A lo, mid, hi, low, c1, c2, c3 \in Int : CarriesFromLow(lo, mid, hi, low, c1, c2, c3)
    /\ \A lo, mid, hi, m, c2, c3 \in Int : CarriesFromMid(lo, mid, hi, m, c2, c3)
    /\ \A lo, mid, hi, h, c3 \in Int : CarriesFromHigh(lo, mid, hi, h, c3)
BY Widths DEF CarriesFromLow, CarriesFromMid, CarriesFromHigh, Slices, Cube

\* A sum of two lanes with its carry c.
LEMMA SumCarry ==
    ASSUME NEW a \in Lane, NEW b \in Lane
    PROVE  \E c \in 0..1 : Sum(a, b) = a + b - Base * c /\ Below(Sum(a, b), b) = Mask(c = 1)
<1>1. a \in Int /\ b \in Int /\ Base \in Int
  BY LaneType, Widths
<1>2. CASE a + b < Base
  <2>1. Sum(a, b) = a + b - Base * 0 /\ Below(Sum(a, b), b) = Mask(0 = 1)
    <3>1. (a + b >= Base) = FALSE /\ (0 = 1) = FALSE
      BY <1>1, <1>2
    <3>2. Sum(a, b) = a + b /\ a + b = a + b - Base * 0
      BY <1>1, <1>2, SumFacts
    <3> QED BY <3>1, <3>2, SumFacts
  <2> QED BY <2>1
<1>3. CASE ~(a + b < Base)
  <2>1. Sum(a, b) = a + b - Base * 1 /\ Below(Sum(a, b), b) = Mask(1 = 1)
    <3>1. (a + b >= Base) = TRUE /\ (1 = 1) = TRUE
      BY <1>1, <1>3
    <3>2. Sum(a, b) = a + b - Base /\ a + b - Base = a + b - Base * 1
      BY <1>1, <1>3, SumFacts
    <3> QED BY <3>1, <3>2, SumFacts
  <2> QED BY <2>1
<1> QED BY <1>2, <1>3

\* A carry added to a lane, with the carry d out of it.
LEMMA MinusCarry ==
    ASSUME NEW a \in Lane, NEW c \in 0..1
    PROVE  \E d \in 0..1 : /\ Minus(a, Mask(c = 1)) = a + c - Base * d
                          /\ (d = 1) = (c = 1 /\ Minus(a, Mask(c = 1)) = 0)
<1>1. a \in Int /\ Base \in Int /\ 0 <= a /\ a < Base
  BY LaneType, Widths
<1>2. CASE c = 1 /\ ~(a + 1 < Base)
  <2>1. Minus(a, Mask(c = 1)) = 0
    BY <1>2, MinusFacts
  <2>2. 0 = a + c - Base * 1
    BY <1>1, <1>2
  <2> QED BY <1>2, <2>1, <2>2
<1>3. CASE c = 1 /\ a + 1 < Base
  <2>1. Minus(a, Mask(c = 1)) = a + 1
    BY <1>3, MinusFacts
  <2>2. a + 1 = a + c - Base * 0 /\ a + 1 # 0
    BY <1>1, <1>3
  <2>3. (0 = 1) = FALSE
    OBVIOUS
  <2> QED BY <1>3, <2>1, <2>2, <2>3
<1>4. CASE c = 0
  <2>3. (c = 1) = FALSE
    BY <1>4
  <2>1. Minus(a, Mask(c = 1)) = a
    BY <2>3, MinusFacts
  <2>2. a = a + c - Base * 0
    BY <1>1, <1>4
  <2> QED BY <1>4, <2>1, <2>2
<1> QED BY <1>2, <1>3, <1>4
LaneRecord ==
    [s : Lane, t : Lane, d : Lane, lo : Lane, mid : Lane, hi : Lane,
     co : Lane, cox : Lane, cc : Lane, ccx : Lane, ce : Lane]

\* m is the lane l after x was added to its accumulator.
Added(l, m, x) ==
    /\ m \in LaneRecord
    /\ m.s = l.s /\ m.t = l.t
    /\ Congruent(Acc(m), Acc(l) + x)

\* Adding one number after the other adds both.
LEMMA AddedTwice ==
    ASSUME NEW l \in LaneRecord, NEW m, NEW n, NEW x \in Int, NEW y \in Int,
           Added(l, m, x), Added(m, n, y)
    PROVE  Added(l, n, x + y)
<1>1. Acc(l) \in Int /\ Cube \in Int
  BY LaneType, Widths DEF LaneRecord, Acc, Cube
<1>2. PICK j \in Int : Acc(m) = Acc(l) + x + Cube * j
  BY DEF Added, Congruent
<1>3. PICK k \in Int : Acc(n) = Acc(m) + y + Cube * k
  BY DEF Added, Congruent
<1>4. Acc(n) = Acc(l) + (x + y) + Cube * (j + k) /\ j + k \in Int
  BY <1>1, <1>2, <1>3
<1>5. Congruent(Acc(n), Acc(l) + (x + y))
  BY <1>4 DEF Congruent
<1> QED BY <1>5 DEF Added

\* AddToAcc with the lower slice alone: the carry goes up through both others.
LEMMA AddToAcc1Adds ==
    ASSUME NEW l \in LaneRecord, NEW low \in Lane
    PROVE  Added(l, AddToAcc1(l, low), low)
<1> DEFINE lo == Sum(l.lo, low)
           carry == Below(lo, low)
           mid == Minus(l.mid, carry)
           hi == Minus(l.hi, And(carry, Equal(mid, 0)))
           m == [l EXCEPT !.lo = lo, !.mid = mid, !.hi = hi]
<1>1. AddToAcc1(l, low) = m
  BY DEF AddToAcc1
<1>2. l.lo \in Lane /\ l.mid \in Lane /\ l.hi \in Lane
  BY DEF LaneRecord
<1>3. PICK c1 \in 0..1 : lo = l.lo + low - Base * c1 /\ carry = Mask(c1 = 1)
  BY <1>2, SumCarry
<1>4. PICK c2 \in 0..1 : /\ mid = l.mid + c1 - Base * c2
                         /\ (c2 = 1) = (c1 = 1 /\ mid = 0)
  BY <1>2, <1>3, MinusCarry
<1>5. lo \in Lane /\ mid \in Lane
  BY <1>2, <1>3, SumFacts, MinusFacts
<1>6. Equal(mid, 0) = Mask(mid = 0)
  BY DEF Equal
<1>7. And(carry, Equal(mid, 0)) = Mask(c2 = 1)
  BY <1>3, <1>4, <1>6, AndOfMasks
<1>8. PICK c3 \in 0..1 : hi = l.hi + c2 - Base * c3
  BY <1>2, <1>7, MinusCarry
<1>9. hi \in Lane
  BY <1>2, <1>7, MinusFacts
<1> HIDE DEF lo, carry, mid, hi
<1>10. m \in LaneRecord /\ m.s = l.s /\ m.t = l.t /\ m.lo = lo /\ m.mid = mid /\ m.hi = hi
  BY <1>5, <1>9 DEF LaneRecord
<1>11. l.lo \in Int /\ l.mid \in Int /\ l.hi \in Int /\ low \in Int /\ c1 \in Int /\ c2 \in Int /\ c3 \in Int
  BY <1>2, LaneType
<1>12. Slices(lo, mid, hi) = Slices(l.lo, l.mid, l.hi) + low + Cube * (-c3)
  <2>1. Slices(l.lo + low - Base * c1, l.mid + c1 - Base * c2, l.hi + c2 - Base * c3)
          = Slices(l.lo, l.mid, l.hi) + low + Cube * (-c3)
    <3>1. CarriesFromLow(l.lo, l.mid, l.hi, low, c1, c2, c3)
      BY <1>11, Carries
    <3> QED BY <3>1 DEF CarriesFromLow
  <2> QED BY <1>3, <1>4, <1>8, <2>1
<1>13. Acc(m) = Slices(lo, mid, hi) /\ Acc(l) = Slices(l.lo, l.mid, l.hi)
  BY <1>10 DEF Acc, Slices
<1>14. -c3 \in Int /\ Congruent(Acc(m), Acc(l) + low)
  BY <1>11, <1>12, <1>13 DEF Congruent
<1> QED BY <1>1, <1>10, <1>14 DEF Added
\* Adding to the middle slice, with a carry into the upper one.
LEMMA AddToMidAdds ==
    ASSUME NEW l \in LaneRecord, NEW mid \in Lane, NEW m,
           m = [l EXCEPT !.mid = Sum(l.mid, mid), !.hi = Minus(l.hi, Below(Sum(l.mid, mid), mid))]
    PROVE  Added(l, m, Base * mid)
<1>1. l.lo \in Lane /\ l.mid \in Lane /\ l.hi \in Lane
  BY DEF LaneRecord
<1> DEFINE sum == Sum(l.mid, mid)
           hi == Minus(l.hi, Below(sum, mid))
<1>2. PICK c \in 0..1 : sum = l.mid + mid - Base * c /\ Below(sum, mid) = Mask(c = 1)
  BY <1>1, SumCarry
<1>3. PICK d \in 0..1 : hi = l.hi + c - Base * d
  BY <1>1, <1>2, MinusCarry
<1>4. sum \in Lane /\ hi \in Lane
  BY <1>1, <1>2, SumFacts, MinusFacts
<1>5. m = [l EXCEPT !.mid = sum, !.hi = hi]
  OBVIOUS
<1> HIDE DEF sum, hi
<1>6. m \in LaneRecord /\ m.s = l.s /\ m.t = l.t /\ m.lo = l.lo /\ m.mid = sum /\ m.hi = hi
  BY <1>4, <1>5 DEF LaneRecord
<1>7. /\ l.lo \in Int /\ l.mid \in Int /\ l.hi \in Int /\ mid \in Int
      /\ c \in Int /\ d \in Int /\ Base \in Int
  BY <1>1, LaneType, Widths
<1>8. Slices(l.lo, l.mid + mid - Base * c, l.hi + c - Base * d)
        = Slices(l.lo, l.mid, l.hi) + Base * mid + Cube * (-d)
  <2>1. CarriesFromMid(l.lo, l.mid, l.hi, mid, c, d)
    BY <1>7, Carries
  <2> QED BY <2>1 DEF CarriesFromMid
<1>9. Acc(m) = Acc(l) + Base * mid + Cube * (-d)
  BY <1>2, <1>3, <1>6, <1>8 DEF Acc, Slices
<1>10. -d \in Int /\ Congruent(Acc(m), Acc(l) + Base * mid)
  BY <1>7, <1>9 DEF Congruent
<1> QED BY <1>6, <1>10 DEF Added

\* Adding to the upper slice.
LEMMA AddToHighAdds ==
    ASSUME NEW l \in LaneRecord, NEW high \in Lane, NEW m, m = [l EXCEPT !.hi = Sum(l.hi, high)]
    PROVE  Added(l, m, Base * Base * high)
<1>1. l.lo \in Lane /\ l.mid \in Lane /\ l.hi \in Lane
  BY DEF LaneRecord
<1> DEFINE hi == Sum(l.hi, high)
<1>2. PICK c \in 0..1 : hi = l.hi + high - Base * c
  BY <1>1, SumCarry
<1>3. hi \in Lane
  BY <1>1, SumFacts
<1>4. m = [l EXCEPT !.hi = hi]
  OBVIOUS
<1> HIDE DEF hi
<1>5. m \in LaneRecord /\ m.s = l.s /\ m.t = l.t /\ m.lo = l.lo /\ m.mid = l.mid /\ m.hi = hi
  BY <1>3, <1>4 DEF LaneRecord
<1>6. /\ l.lo \in Int /\ l.mid \in Int /\ l.hi \in Int /\ high \in Int
      /\ c \in Int /\ Base \in Int
  BY <1>1, LaneType, Widths
<1>7. Slices(l.lo, l.mid, l.hi + high - Base * c)
        = Slices(l.lo, l.mid, l.hi) + Base * Base * high + Cube * (-c)
  <2>1. CarriesFromHigh(l.lo, l.mid, l.hi, high, c)
    BY <1>6, Carries
  <2> QED BY <2>1 DEF CarriesFromHigh
<1>8. Acc(m) = Acc(l) + Base * Base * high + Cube * (-c)
  BY <1>2, <1>5, <1>7 DEF Acc, Slices
<1>9. -c \in Int /\ Congruent(Acc(m), Acc(l) + Base * Base * high)
  BY <1>6, <1>8 DEF Congruent
<1> QED BY <1>5, <1>9 DEF Added

\* The whole of AddToAcc adds the number of its three slices.
LEMMA AddToAccAdds ==
    ASSUME NEW l \in LaneRecord, NEW low \in Lane, NEW mid \in Lane, NEW high \in Lane
    PROVE  Added(l, AddToAcc(l, low, mid, high), Slices(low, mid, high))
<1> DEFINE a == AddToAcc1(l, low)
           b == AddToAcc2(l, low, mid)
           c == AddToAcc(l, low, mid, high)
<1>1. Added(l, a, low) /\ a \in LaneRecord
  BY AddToAcc1Adds DEF Added
<1>2. b = [a EXCEPT !.mid = Sum(a.mid, mid), !.hi = Minus(a.hi, Below(Sum(a.mid, mid), mid))]
  BY DEF AddToAcc2
<1>3. c = [b EXCEPT !.hi = Sum(b.hi, high)]
  BY DEF AddToAcc
<1> HIDE DEF a, b, c
<1>4. Added(a, b, Base * mid) /\ b \in LaneRecord
  BY <1>1, <1>2, AddToMidAdds DEF Added
<1>5. Added(b, c, Base * Base * high)
  BY <1>3, <1>4, AddToHighAdds
<1>6. low \in Int /\ Base * mid \in Int /\ Base * Base * high \in Int /\ low + Base * mid \in Int
  BY LaneType, Widths
<1>7. Added(l, b, low + Base * mid)
  BY <1>1, <1>4, <1>6, AddedTwice
<1>8. Added(l, c, low + Base * mid + Base * Base * high)
  BY <1>5, <1>6, <1>7, AddedTwice
<1> QED BY <1>8 DEF Slices, c

\* AddToAccFromMid adds the number of its two slices, from the middle up.
LEMMA AddToAccFromMidAdds ==
    ASSUME NEW l \in LaneRecord, NEW mid \in Lane, NEW high \in Lane
    PROVE  Added(l, AddToAccFromMid(l, mid, high), Slices(0, mid, high))
<1> DEFINE a == [l EXCEPT !.hi = Sum(l.hi, high)]
           b == [a EXCEPT !.mid = Sum(a.mid, mid), !.hi = Minus(a.hi, Below(Sum(a.mid, mid), mid))]
<1>1. Added(l, a, Base * Base * high) /\ a \in LaneRecord
  BY AddToHighAdds DEF Added
<1>2. a.mid = l.mid /\ a.hi = Sum(l.hi, high)
  BY DEF LaneRecord
<1>3. b = AddToAccFromMid(l, mid, high)
  BY <1>2 DEF AddToAccFromMid, LaneRecord
<1> HIDE DEF a
<1>4. Added(a, b, Base * mid)
  BY <1>1, AddToMidAdds
<1> HIDE DEF b
<1>5. Base * mid \in Int /\ Base * Base * high \in Int
  BY LaneType, Widths
<1>6. Added(l, b, Base * Base * high + Base * mid)
  BY <1>1, <1>4, <1>5, AddedTwice
<1>7. Base * Base * high + Base * mid = Slices(0, mid, high)
  BY <1>5 DEF Slices
<1> QED BY <1>3, <1>6, <1>7
(***************************************************************************)
(* Products.                                                               *)
(***************************************************************************)
SignedLane == -Half..Half - 1

\* The signed reading of a lane.
LEMMA SlFacts ==
    ASSUME NEW a \in Lane
    PROVE  /\ Sl(a) \in SignedLane /\ Sl(a) \in Int
           /\ \E c \in 0..1 : Sl(a) = a - Base * c
           /\ Sl(a) < 0 <=> a >= Half
<1>1. a \in Int /\ 0 <= a /\ a < Base /\ Base = 2 * Half /\ Half \in Int
  BY LaneType, Widths
<1>2. Sl(a) = IF a < Half THEN a ELSE a - Base
  BY SignedFacts
<1>3. CASE a < Half
  <2>1. Sl(a) = a /\ a = a - Base * 0
    BY <1>1, <1>2, <1>3
  <2> QED BY <1>1, <1>3, <2>1 DEF SignedLane
<1>4. CASE ~(a < Half)
  <2>1. Sl(a) = a - Base /\ a - Base = a - Base * 1
    BY <1>1, <1>2, <1>4
  <2> QED BY <1>1, <1>4, <2>1 DEF SignedLane
<1> QED BY <1>3, <1>4

\* Adding a multiple of Base leaves the remainder alone.
LEMMA Shifted ==
    ASSUME NEW x \in Int, NEW k \in Int, NEW y, y = x + Base * k
    PROVE  y % Base = x % Base /\ y \div Base = (x \div Base) + k
<1>1. Base \in Nat /\ Base > 0
  BY Widths
<1> DEFINE q == x \div Base r == x % Base
<1>2. q \in Int /\ r \in 0..Base - 1 /\ x = Base * q + r
  BY <1>1, Division
<1> HIDE DEF q, r
<1>3. q + k \in Int /\ y = Base * (q + k) + r
  BY <1>1, <1>2
<1>4. y % Base = r /\ y \div Base = q + k
  BY <1>1, <1>2, <1>3, QuotientUnique
<1> QED BY <1>4 DEF q, r

\* x - n u and y - n v multiplied out.
Expands(x, y, n, u, v) ==
    /\ (x - n * u) * y = x * y + n * (-(u * y))
    /\ x * (y - n * v) = x * y + n * (-(x * v))
    /\ (x - n * u) * (y - n * v) = x * y + n * (n * u * v - u * y - x * v)

LEMMA Expansion == \A x, y, n, u, v \in Int : Expands(x, y, n, u, v)
BY DEF Expands

\* The low halfword of a product does not depend on how its factors are read.
LEMMA LowProduct ==
    ASSUME NEW a \in Lane, NEW b \in Lane
    PROVE  /\ MulLow(a, b) \in Lane
           /\ MulLow(a, b) = (a * b) % Base
           /\ MulLow(a, b) = (Sl(a) * b) % Base
           /\ MulLow(a, b) = (a * Sl(b)) % Base
           /\ MulLow(a, b) = (Sl(a) * Sl(b)) % Base
<1>1. a \in Int /\ b \in Int /\ Base \in Int
  BY LaneType, Widths
<1>2. PICK c \in 0..1 : Sl(a) = a - Base * c
  BY SlFacts
<1>3. PICK d \in 0..1 : Sl(b) = b - Base * d
  BY SlFacts
<1>4. /\ Sl(a) * b = a * b + Base * (-(c * b))
      /\ a * Sl(b) = a * b + Base * (-(a * d))
      /\ Sl(a) * Sl(b) = a * b + Base * (Base * c * d - c * b - a * d)
  <2>1. c \in Int /\ d \in Int
    OBVIOUS
  <2>2. Expands(a, b, Base, c, d)
    BY <1>1, <2>1, Expansion
  <2> QED BY <1>2, <1>3, <2>2 DEF Expands
<1>5. a * b \in Int /\ -(c * b) \in Int /\ -(a * d) \in Int /\ Base * c * d - c * b - a * d \in Int
  BY <1>1
<1>6. MulLow(a, b) = (a * b) % Base
  BY DEF MulLow, Fit, Base
<1> QED BY <1>4, <1>5, <1>6, Shifted, RemainderType

\* The sign of a lane, spread over a lane.
LEMMA SignFacts ==
    ASSUME NEW a \in Lane
    PROVE  Sign(a) = Mask(Sl(a) < 0) /\ Sign(a) \in Lane
<1>1. Half \in Nat /\ Half > 0 /\ Base = 2 * Half /\ Ones = Base - 1 /\ Base \in Int
  BY Widths
<1>2. Sign(a) = (Sl(a) \div Half) % Base
  BY DEF Sign, Sar, Fit, Sl, Base, Half
<1>3. Sl(a) \in Int /\ -Half <= Sl(a) /\ Sl(a) < Half
  BY <1>1, SlFacts DEF SignedLane
<1>4. CASE Sl(a) < 0
  <2>1. Sl(a) = Half * (-1) + (Sl(a) + Half) /\ Sl(a) + Half \in 0..Half - 1 /\ -1 \in Int
    BY <1>1, <1>3, <1>4
  <2>2. Sl(a) \div Half = -1
    BY <1>1, <2>1, QuotientUnique
  <2>3. Ones \in Lane /\ -1 = Ones - Base
    BY <1>1, InLane
  <2>4. (-1) % Base = Ones
    BY <2>3, Wrapped
  <2> QED BY <1>2, <1>4, <2>2, <2>3, <2>4 DEF Mask
<1>5. CASE ~(Sl(a) < 0)
  <2>1. Sl(a) = Half * 0 + Sl(a) /\ Sl(a) \in 0..Half - 1
    BY <1>1, <1>3, <1>5
  <2>2. Sl(a) \div Half = 0
    BY <1>1, <2>1, QuotientUnique
  <2>3. 0 \in Lane
    BY <1>1, InLane
  <2>4. 0 % Base = 0
    BY <2>3, Wrapped
  <2> QED BY <1>2, <1>5, <2>2, <2>3, <2>4 DEF Mask
<1> QED BY <1>4, <1>5

\* Quotients keep bounds.
LEMMA QuotientBounds ==
    ASSUME NEW x \in Int, NEW least \in Int, NEW most \in Int,
           least * Base <= x, x < most * Base
    PROVE  least <= x \div Base /\ x \div Base < most
<1>1. Base \in Nat /\ Base > 0
  BY Widths
<1> DEFINE q == x \div Base r == x % Base
<1>2. q \in Int /\ r \in 0..Base - 1 /\ x = Base * q + r
  BY <1>1, Division
<1> HIDE DEF q, r
<1>3. ASSUME q <= least - 1 PROVE FALSE
  <2>1. Base * q <= Base * (least - 1)
    BY <1>1, <1>2, <1>3
  <2>2. Base * (least - 1) = least * Base - Base
    BY <1>1
  <2> QED BY <1>1, <1>2, <2>1, <2>2
<1>4. ASSUME q >= most PROVE FALSE
  <2>1. Base * q >= Base * most
    BY <1>1, <1>2, <1>4
  <2>2. Base * most = most * Base
    BY <1>1
  <2> QED BY <1>1, <1>2, <2>1, <2>2
<1> QED BY <1>2, <1>3, <1>4 DEF q

\* The upper part of a product with a signed factor is a signed halfword.
LEMMA ProductBounds ==
    ASSUME NEW x \in SignedLane, NEW y \in Int, -Half <= y, y < Base
    PROVE  /\ x * y \in Int
           /\ (x * y) \div Base \in SignedLane
<1>1. Half \in Nat /\ Half > 0 /\ Base = 2 * Half /\ x \in Int /\ -Half <= x /\ x <= Half - 1
  BY Widths DEF SignedLane
<1>2. (-Half) * Base <= x * y
  <2>1. CASE y >= 0
    <3>1. x * y >= (-Half) * y
      BY <1>1, <2>1
    <3>2. (-Half) * y >= (-Half) * Base
      BY <1>1, <2>1
    <3> QED BY <1>1, <3>1, <3>2
  <2>2. CASE y < 0
    <3>1. x * y >= (Half - 1) * y
      BY <1>1, <2>2
    <3>2. (Half - 1) * y >= (Half - 1) * (-Half)
      BY <1>1, <2>2
    <3>3. (Half - 1) * (-Half) >= (-Half) * Base
      BY <1>1
    <3> QED BY <1>1, <3>1, <3>2, <3>3
  <2> QED BY <2>1, <2>2
<1>3. x * y < Half * Base
  <2>1. CASE y >= 0
    <3>1. x * y <= (Half - 1) * y
      BY <1>1, <2>1
    <3>2. (Half - 1) * y <= (Half - 1) * Base
      BY <1>1, <2>1
    <3>3. (Half - 1) * Base < Half * Base
      BY <1>1
    <3> QED BY <1>1, <3>1, <3>2, <3>3
  <2>2. CASE y < 0
    <3>1. x * y <= (-Half) * y
      BY <1>1, <2>2
    <3>2. (-Half) * y <= (-Half) * (-Half)
      BY <1>1, <2>2
    <3>3. (-Half) * (-Half) < Half * Base
      BY <1>1
    <3> QED BY <1>1, <3>1, <3>2, <3>3
  <2> QED BY <2>1, <2>2
<1>4. x * y \in Int /\ -Half \in Int /\ Half \in Int /\ (x * y) \div Base \in Int
  BY <1>1, Division
<1>5. -Half <= (x * y) \div Base /\ (x * y) \div Base < Half
  BY <1>2, <1>3, <1>4, QuotientBounds
<1> QED BY <1>1, <1>4, <1>5 DEF SignedLane

\* A product of two signed halfwords and its bounds.
LEMMA SignedProductBounds ==
    ASSUME NEW x \in SignedLane, NEW y \in SignedLane
    PROVE  /\ (-Half) * Half <= x * y /\ x * y <= Half * Half
<1>1. /\ Half \in Nat /\ Half > 0 /\ x \in Int /\ -Half <= x /\ x <= Half
      /\ y \in Int /\ -Half <= y /\ y <= Half
  BY Widths DEF SignedLane
<1>2. CASE y >= 0
  <2>1. (-Half) * y <= x * y /\ x * y <= Half * y
    BY <1>1, <1>2
  <2>2. (-Half) * Half <= (-Half) * y /\ Half * y <= Half * Half
    BY <1>1, <1>2
  <2> QED BY <1>1, <2>1, <2>2
<1>3. CASE y < 0
  <2>1. Half * y <= x * y /\ x * y <= (-Half) * y
    BY <1>1, <1>3
  <2>2. (-Half) * Half <= Half * y /\ (-Half) * y <= Half * Half
    BY <1>1, <1>3
  <2> QED BY <1>1, <2>1, <2>2
<1> QED BY <1>1, <1>2, <1>3
\* A signed number in a halfword and its sign in the next one.
LEMMA SignExtended ==
    ASSUME NEW v \in SignedLane, NEW high, high = v % Base
    PROVE  /\ high \in Lane
           /\ Sl(high) = v
           /\ Sign(high) = Mask(v < 0) /\ Sign(high) \in Lane
           /\ high = IF v < 0 THEN v + Base ELSE v
           /\ \E k \in 0..1 : Base * high + Base * Base * Sign(high) = Base * v + Cube * k
<1>1. /\ Half \in Nat /\ Half > 0 /\ Base = 2 * Half /\ Base \in Int /\ Ones = Base - 1
      /\ v \in Int /\ -Half <= v /\ v <= Half - 1
  BY Widths DEF SignedLane
<1>2. high = (IF v < 0 THEN v + Base ELSE v) /\ high \in Lane
  <2>1. CASE v < 0
    <3>1. v + Base \in Lane /\ v = (v + Base) - Base
      BY <1>1, <2>1, InLane
    <3> QED BY <1>1, <2>1, <3>1, Wrapped
  <2>2. CASE ~(v < 0)
    <3>1. v \in Lane
      BY <1>1, <2>2, InLane
    <3> QED BY <1>1, <2>2, <3>1, Wrapped
  <2> QED BY <2>1, <2>2
<1>3. Sl(high) = v
  <2>1. CASE v < 0
    BY <1>1, <1>2, <2>1, SignedFacts
  <2>2. CASE ~(v < 0)
    BY <1>1, <1>2, <2>2, SignedFacts
  <2> QED BY <2>1, <2>2
<1>4. Sign(high) = Mask(v < 0) /\ Sign(high) \in Lane
  BY <1>2, <1>3, SignFacts
<1>5. \E k \in 0..1 : Base * high + Base * Base * Sign(high) = Base * v + Cube * k
  <2>1. CASE v < 0
    <3>1. Sign(high) = Base - 1 /\ high = v + Base
      BY <1>1, <1>2, <1>4, <2>1 DEF Mask
    <3>2. Base * (v + Base) + Base * Base * (Base - 1) = Base * v + Base * Base * Base * 1
      BY <1>1
    <3> QED BY <3>1, <3>2 DEF Cube
  <2>2. CASE ~(v < 0)
    <3>1. Sign(high) = 0 /\ high = v
      BY <1>1, <1>2, <1>4, <2>2 DEF Mask
    <3>2. Base * v + Base * Base * 0 = Base * v + Base * Base * Base * 0
      BY <1>1
    <3> QED BY <3>1, <3>2 DEF Cube
  <2> QED BY <2>1, <2>2
<1> QED BY <1>2, <1>3, <1>4, <1>5

\* The three slices of a number that fits in two halfwords and a sign.
LEMMA SlicesOf ==
    ASSUME NEW p \in Int, p \div Base \in SignedLane,
           NEW low, low = p % Base, NEW high, high = (p \div Base) % Base
    PROVE  /\ low \in Lane /\ high \in Lane /\ Sign(high) \in Lane
           /\ Sl(high) = p \div Base
           /\ Congruent(Slices(low, high, Sign(high)), p)
<1>1. /\ Base \in Nat /\ Base > 0 /\ Cube \in Int
  BY Widths DEF Cube
<1> DEFINE v == p \div Base
<1>2. v \in Int /\ low \in 0..Base - 1 /\ p = Base * v + low
  BY <1>1, Division
<1> HIDE DEF v
<1>3. v \in SignedLane /\ high = v % Base
  BY DEF v
<1>4. PICK k \in 0..1 : Base * high + Base * Base * Sign(high) = Base * v + Cube * k
  BY <1>3, SignExtended
<1>5. high \in Lane /\ Sign(high) \in Lane /\ Sl(high) = v
  BY <1>3, SignExtended
<1>6. low \in Lane
  BY <1>2 DEF Lane
<1>7. high \in Int /\ Sign(high) \in Int
  BY <1>5, LaneType
<1>8. Slices(low, high, Sign(high)) = p + Cube * k
  BY <1>1, <1>2, <1>4, <1>7 DEF Slices
<1> QED BY <1>5, <1>6, <1>8 DEF Congruent, v

\* _mm_mulhi_epu16_epi16 is the upper half of the mixed product.
LEMMA MulHighUSFacts ==
    ASSUME NEW a \in Lane, NEW b \in Lane
    PROVE  MulHighUS(a, b) = ((a * Sl(b)) \div Base) % Base
<1>1. a \in Int /\ b \in Int /\ Base \in Int /\ Half \in Int
  BY LaneType, Widths
<1>2. MulHighUS(a, b) = (((a * b) \div Base) - (IF Sl(b) < 0 THEN a ELSE 0)) % Base
  BY DEF MulHighUS, MulHighU, Fit, Base
<1>3. Sl(b) = IF b < Half THEN b ELSE b - Base
  BY SignedFacts
<1>4. Sl(b) < 0 <=> b >= Half
  BY SlFacts
<1>5. CASE b < Half
  <2>1. Sl(b) = b /\ ~(Sl(b) < 0)
    BY <1>1, <1>3, <1>4, <1>5
  <2>2. (a * b) \div Base \in Int
    BY <1>1, Division, Widths
  <2>3. ((a * b) \div Base) - 0 = (a * b) \div Base
    BY <2>2
  <2> QED BY <1>2, <2>1, <2>3
<1>6. CASE ~(b < Half)
  <2>1. Sl(b) = b - Base /\ Sl(b) < 0
    BY <1>1, <1>3, <1>4, <1>6
  <2>2. a * (b - Base) = a * b + Base * (-a) /\ a * b \in Int /\ -a \in Int
    BY <1>1
  <2>3. (a * Sl(b)) \div Base = ((a * b) \div Base) + (-a)
    BY <2>1, <2>2, Shifted
  <2>4. (a * b) \div Base \in Int
    BY <1>1, Division, Widths
  <2>5. ((a * b) \div Base) + (-a) = ((a * b) \div Base) - a
    BY <1>1, <2>4
  <2> QED BY <1>2, <2>1, <2>3, <2>5
<1> QED BY <1>5, <1>6

\* An unsigned factor and a signed one, and two signed ones.
LEMMA MixedProduct ==
    ASSUME NEW a \in Lane, NEW b \in Lane, NEW high, high = MulHighUS(a, b)
    PROVE  /\ MulLow(a, b) \in Lane /\ high \in Lane /\ Sign(high) \in Lane
           /\ Congruent(Slices(MulLow(a, b), high, Sign(high)), a * Sl(b))
<1>1. a \in Int /\ -Half <= a /\ a < Base /\ Sl(b) \in SignedLane /\ Sl(b) \in Int
  BY LaneType, Widths, SlFacts
<1>2. Sl(b) * a \in Int /\ (Sl(b) * a) \div Base \in SignedLane /\ Sl(b) * a = a * Sl(b)
  BY <1>1, ProductBounds
<1>3. MulLow(a, b) = (a * Sl(b)) % Base /\ high = ((a * Sl(b)) \div Base) % Base
  BY LowProduct, MulHighUSFacts
<1> QED BY <1>2, <1>3, SlicesOf

\* _mm_mulhi_epi16 is the upper half of the signed product.
LEMMA HighProduct ==
    ASSUME NEW a \in Lane, NEW b \in Lane
    PROVE  /\ Sl(a) * Sl(b) \in Int
           /\ (Sl(a) * Sl(b)) \div Base \in SignedLane
           /\ MulHigh(a, b) = ((Sl(a) * Sl(b)) \div Base) % Base
           /\ MulHigh(a, b) \in Lane
<1>1. Sl(a) \in SignedLane /\ Sl(b) \in SignedLane /\ Sl(b) \in Int
  BY SlFacts
<1>2. -Half <= Sl(b) /\ Sl(b) < Base
  BY <1>1, Widths DEF SignedLane
<1>3. Sl(a) * Sl(b) \in Int /\ (Sl(a) * Sl(b)) \div Base \in SignedLane
  BY <1>1, <1>2, ProductBounds
<1>4. MulHigh(a, b) = ((Sl(a) * Sl(b)) \div Base) % Base
  BY DEF MulHigh, Fit, Base
<1>5. (Sl(a) * Sl(b)) \div Base \in Int
  BY <1>3, Division, Widths
<1> QED BY <1>3, <1>4, <1>5, RemainderType
\* The low halfword of twice a number and the bit above it.
LEMMA DoubledLow ==
    ASSUME NEW low \in Lane
    PROVE  \E top \in 0..1 : /\ Shr(H, low, H - 1) = top
                            /\ Shl(H, low, 1) = 2 * low - Base * top
                            /\ Sum(low, low) = 2 * low - Base * top
                            /\ Shl(H, low, 1) \in Lane
<1>1. /\ Half \in Nat /\ Half > 0 /\ Base = 2 * Half /\ Base \in Int
      /\ low \in Int /\ 0 <= low /\ low < Base
  BY Widths, LaneType
<1>2. low % Base = low
  BY <1>1, Wrapped
<1>3. Shr(H, low, H - 1) = low \div Half
  BY <1>2 DEF Shr, Fit, Base, Half
<1>4. Shl(H, low, 1) = (low * 2) % Base
  <2>1. 2^1 = 2
    BY SMT
  <2> QED BY <2>1 DEF Shl, Fit, Base
<1>5. Sum(low, low) = (low + low) % Base
  BY DEF Sum, Fit, Base
<1>6. low * 2 = low + low /\ low + low \in Int
  BY <1>1
<1>7. CASE low < Half
  <2>1. low = Half * 0 + low /\ low \in 0..Half - 1
    BY <1>1, <1>7
  <2>2. low \div Half = 0
    BY <1>1, <2>1, QuotientUnique
  <2>3. low + low \in Lane
    BY <1>1, <1>7, InLane
  <2>4. (low + low) % Base = low + low
    BY <2>3, <1>6, Wrapped
  <2>5. low + low = 2 * low - Base * 0
    BY <1>1
  <2> QED BY <1>3, <1>4, <1>5, <1>6, <2>2, <2>3, <2>4, <2>5
<1>8. CASE ~(low < Half)
  <2>1. low = Half * 1 + (low - Half) /\ low - Half \in 0..Half - 1 /\ 1 \in Int
    BY <1>1, <1>8
  <2>2. low \div Half = 1
    BY <1>1, <2>1, QuotientUnique
  <2>3. low + low - Base \in Lane /\ low + low = (low + low - Base) + Base
    BY <1>1, <1>8, InLane
  <2>4. (low + low) % Base = low + low - Base
    BY <2>3, <1>6, Wrapped
  <2>5. low + low - Base = 2 * low - Base * 1
    BY <1>1
  <2> QED BY <1>3, <1>4, <1>5, <1>6, <2>2, <2>3, <2>4, <2>5
<1> QED BY <1>7, <1>8

\* What the instructions on fractions need to know of the product p of two
\* signed lanes: twice it is Base d + low1, with d in half the range of a lane.
Doubled(a, b, d, low1, top) ==
    /\ top \in 0..1 /\ d \in Int /\ low1 \in Lane
    /\ -Half <= d /\ d <= Half
    /\ 2 * (Sl(a) * Sl(b)) = Base * d + low1
    /\ Shl(H, MulLow(a, b), 1) = low1
    /\ Sum(MulLow(a, b), MulLow(a, b)) = low1
    /\ Shr(H, MulLow(a, b), H - 1) = top
    /\ d = 2 * ((Sl(a) * Sl(b)) \div Base) + top
    /\ d < 0 <=> (Sl(a) * Sl(b)) \div Base < 0

\* Twice a product, in its three slices before they wrap.
LEMMA DoubledProduct ==
    ASSUME NEW a \in Lane, NEW b \in Lane
    PROVE  \E d \in Int, low1 \in Lane, top \in 0..1 : Doubled(a, b, d, low1, top)
<1> DEFINE p == Sl(a) * Sl(b)
           v == p \div Base
           low == MulLow(a, b)
<1>1. /\ Half \in Nat /\ Half > 1 /\ Base = 2 * Half /\ Base \in Nat /\ Base > 0
  BY Widths
<1>2. p \in Int /\ low = p % Base /\ low \in Lane
  BY HighProduct, LowProduct
<1>3. (-Half) * Half <= p /\ p <= Half * Half
  BY SlFacts, SignedProductBounds
<1> HIDE DEF p, low
<1>4. v \in Int /\ low \in 0..Base - 1 /\ p = Base * v + low
  BY <1>1, <1>2, Division
<1> HIDE DEF v
<1>5. PICK top \in 0..1 : /\ Shr(H, low, H - 1) = top
                          /\ Shl(H, low, 1) = 2 * low - Base * top
                          /\ Sum(low, low) = 2 * low - Base * top
                          /\ Shl(H, low, 1) \in Lane
  BY <1>2, DoubledLow
<1> DEFINE d == 2 * v + top
           low1 == Shl(H, low, 1)
<1>6. low1 \in Lane /\ low1 = 2 * low - Base * top /\ Sum(low, low) = low1
  BY <1>5
<1>7. d \in Int /\ 2 * p = Base * d + low1
  <2>1. 2 * (Base * v + low) = Base * (2 * v + top) + (2 * low - Base * top)
    BY <1>1, <1>4
  <2> QED BY <1>4, <1>6, <2>1
<1> HIDE DEF low1
<1>8. low1 \in Int /\ 0 <= low1 /\ low1 < Base
  BY <1>6, LaneType
<1>9. d < 0 <=> v < 0
  BY <1>4
<1>10. d = 2 * v + top
  OBVIOUS
<1> HIDE DEF d
<1>11. Base * d > Base * (-Half - 1) /\ Base * d <= Base * Half
  <2>1. 2 * p >= 2 * ((-Half) * Half) /\ 2 * p <= 2 * (Half * Half)
    BY <1>1, <1>2, <1>3
  <2>2. Base * (-Half - 1) = 2 * ((-Half) * Half) - Base /\ Base * Half = 2 * (Half * Half)
    BY <1>1
  <2> QED BY <1>1, <1>2, <1>7, <1>8, <2>1, <2>2
<1>12. -Half <= d /\ d <= Half
  <2>1. ASSUME d <= -Half - 1 PROVE FALSE
    BY <1>1, <1>7, <1>11, <2>1
  <2>2. ASSUME d >= Half + 1 PROVE FALSE
    BY <1>1, <1>7, <1>11, <2>2
  <2> QED BY <1>1, <1>7, <2>1, <2>2
<1>13. Doubled(a, b, d, low1, top)
  BY <1>5, <1>6, <1>7, <1>9, <1>10, <1>12 DEF Doubled, p, v, low, low1
<1> QED BY <1>6, <1>7, <1>13

\* TwiceTheProduct the product, as vmacf and vmacu add it.
LEMMA TwiceTheProduct ==
    ASSUME NEW a \in Lane, NEW b \in Lane, NEW low, low = MulLow(a, b), NEW high, high = MulHigh(a, b),
           NEW mid, mid = Sum(Shl(H, high, 1), Shr(H, low, H - 1))
    PROVE  /\ Shl(H, low, 1) \in Lane /\ mid \in Lane /\ Sign(high) \in Lane
           /\ Congruent(Slices(Shl(H, low, 1), mid, Sign(high)), 2 * (Sl(a) * Sl(b)))
<1> DEFINE v == (Sl(a) * Sl(b)) \div Base
<1>1. /\ Half \in Nat /\ Half > 1 /\ Base = 2 * Half /\ Base \in Nat /\ Base > 0
  BY Widths
<1>2. PICK d \in Int, low1 \in Lane, top \in 0..1 : Doubled(a, b, d, low1, top)
  BY DoubledProduct
<1>3. high = v % Base /\ v \in SignedLane /\ high \in Lane
  BY HighProduct
<1>4. v \in Int /\ d = 2 * v + top /\ (d < 0 <=> v < 0)
  BY <1>2, <1>3, Widths DEF Doubled, SignedLane
<1> HIDE DEF v
<1>5. Sign(high) = Mask(v < 0) /\ Sign(high) \in Lane /\ high = IF v < 0 THEN v + Base ELSE v
  BY <1>3, SignExtended
<1>6. mid = d % Base
  <2>1. PICK t \in 0..1 : Shl(H, high, 1) = 2 * high - Base * t /\ Shl(H, high, 1) \in Lane
    BY <1>3, DoubledLow
  <2>2. top \in Lane
    BY <1>1, InLane
  <2>3. mid = (Shl(H, high, 1) + top) % Base
    BY <1>2 DEF Doubled, Sum, Fit, Base
  <2>4. \E k \in Int : Shl(H, high, 1) + top = d + Base * k
    <3>1. CASE v < 0
      <4>1. Shl(H, high, 1) + top = d + Base * (2 - t)
        BY <1>1, <1>4, <1>5, <2>1, <3>1
      <4> QED BY <4>1
    <3>2. CASE ~(v < 0)
      <4>1. Shl(H, high, 1) + top = d + Base * (-t)
        BY <1>1, <1>4, <1>5, <2>1, <3>2
      <4> QED BY <4>1
    <3> QED BY <3>1, <3>2
  <2> QED BY <2>3, <2>4, Shifted
<1> DEFINE result == Slices(Shl(H, low, 1), mid, Sign(high))
<1>8. Shl(H, low, 1) = low1 /\ 2 * (Sl(a) * Sl(b)) = Base * d + low1 /\ low1 \in Int
  BY <1>2, LaneType DEF Doubled
<1>9. CASE v < 0
  <2>1. d + Base \in Lane /\ d = (d + Base) - Base
    BY <1>1, <1>2, <1>4, <1>9, InLane DEF Doubled
  <2>2. mid = d + Base
    BY <1>6, <2>1, Wrapped
  <2>3. Sign(high) = Base - 1
    BY <1>5, <1>9, Widths DEF Mask
  <2>4. low1 + Base * (d + Base) + Base * Base * (Base - 1) = (Base * d + low1) + Base * Base * Base * 1
    BY <1>1, <1>8
  <2>5. result = 2 * (Sl(a) * Sl(b)) + Cube * 1
    BY <1>8, <2>2, <2>3, <2>4 DEF Slices, Cube
  <2> HIDE DEF result
  <2>6. Congruent(result, 2 * (Sl(a) * Sl(b)))
    BY <2>5 DEF Congruent
  <2> QED BY <1>5, <1>8, <2>1, <2>2, <2>6 DEF result
<1>10. CASE ~(v < 0)
  <2>1. d \in Lane
    BY <1>1, <1>2, <1>4, <1>10, InLane DEF Doubled
  <2>2. mid = d
    BY <1>6, <2>1, Wrapped
  <2>3. Sign(high) = 0
    BY <1>5, <1>10 DEF Mask
  <2>4. low1 + Base * d + Base * Base * 0 = (Base * d + low1) + Base * Base * Base * 0
    BY <1>1, <1>8
  <2>5. result = 2 * (Sl(a) * Sl(b)) + Cube * 0
    BY <1>8, <2>2, <2>3, <2>4 DEF Slices, Cube
  <2> HIDE DEF result
  <2>6. Congruent(result, 2 * (Sl(a) * Sl(b)))
    BY <2>5 DEF Congruent
  <2> QED BY <1>5, <1>8, <2>1, <2>2, <2>6 DEF result
<1> QED BY <1>9, <1>10

\* The exclusive or of two masks.
LEMMA XorOfMasks ==
    ASSUME NEW c \in BOOLEAN, NEW d \in BOOLEAN
    PROVE  Xor(Mask(c), Mask(d)) = Mask(c # d)
<1>1. Xor(Mask(c), Mask(d)) = Mask(c) + Mask(d) - 2 * Mask(c /\ d)
  BY AndOfMasks DEF Xor
<1>2. Ones \in Int
  BY Widths
<1> QED BY <1>1, <1>2 DEF Mask

\* TwiceTheProduct the product and 0x8000, as vmulf and vmulu leave it.
LEMMA Rounded ==
    ASSUME NEW a \in Lane, NEW b \in Lane, NEW low0, low0 = MulLow(a, b), NEW high0, high0 = MulHigh(a, b),
           NEW low, low = Sum(Sum(low0, low0), SignMask),
           NEW carry, carry = Mask(Sl(low) >= 0),
           NEW mid, mid = Minus(Sum(Sum(high0, high0), Shr(H, low0, H - 1)), carry),
           NEW hi, hi = Xor(Sign(high0), And(Equal(mid, 0), carry))
    PROVE  /\ low \in Lane /\ mid \in Lane /\ hi \in Lane
           /\ Congruent(Slices(low, mid, hi), 2 * (Sl(a) * Sl(b)) + Half)
<1> DEFINE v == (Sl(a) * Sl(b)) \div Base
           p2 == 2 * (Sl(a) * Sl(b))
<1>1. /\ Half \in Nat /\ Half > 1 /\ Base = 2 * Half /\ Base \in Nat /\ Base > 0 /\ Ones = Base - 1
  BY Widths
<1>2. PICK d \in Int, low1 \in Lane, top \in 0..1 : Doubled(a, b, d, low1, top)
  BY DoubledProduct
<1>3. high0 = v % Base /\ v \in SignedLane /\ high0 \in Lane
  BY HighProduct
<1>4. v \in Int /\ d = 2 * v + top /\ (d < 0 <=> v < 0) /\ -Half <= d /\ d <= Half
  BY <1>2, <1>3, Widths DEF Doubled, SignedLane
<1>5. /\ Sum(low0, low0) = low1 /\ Shr(H, low0, H - 1) = top /\ p2 = Base * d + low1
      /\ low1 \in Int /\ 0 <= low1 /\ low1 < Base /\ top \in Lane
  BY <1>1, <1>2, LaneType, InLane DEF Doubled
<1> HIDE DEF v, p2
<1>6. Sign(high0) = Mask(v < 0) /\ high0 = IF v < 0 THEN v + Base ELSE v
  BY <1>3, SignExtended
<1>7. SignMask = Half /\ Half \in Lane
  BY <1>1, InLane DEF SignMask, Half
<1>8. low \in Lane /\ low = IF low1 + Half < Base THEN low1 + Half ELSE low1 + Half - Base
  BY <1>2, <1>5, <1>7, SumFacts DEF Doubled
<1> DEFINE e == IF low1 >= Half THEN 1 ELSE 0
<1>9. e \in 0..1 /\ low = low1 + Half - Base * e /\ carry = Mask(e = 1)
  <2>1. Sl(low) >= 0 <=> low < Half
    BY <1>1, <1>8, SlFacts, LaneType
  <2>2. CASE low1 >= Half
    <3>1. low = low1 + Half - Base /\ low < Half
      BY <1>1, <1>5, <1>8, <2>2
    <3>2. (Sl(low) >= 0) = TRUE /\ e = 1 /\ (1 = 1) = TRUE /\ Base * 1 = Base
      BY <1>1, <2>1, <2>2, <3>1
    <3> QED BY <3>1, <3>2
  <2>3. CASE ~(low1 >= Half)
    <3>1. low = low1 + Half - Base * 0 /\ ~(low < Half)
      BY <1>1, <1>5, <1>8, <2>3
    <3>2. (Sl(low) >= 0) = FALSE /\ e = 0 /\ (0 = 1) = FALSE
      BY <2>1, <2>3, <3>1
    <3> QED BY <3>1, <3>2
  <2> QED BY <2>2, <2>3
<1> HIDE DEF e
<1> DEFINE sum == Sum(Sum(high0, high0), top)
<1>10. sum = d % Base /\ sum \in Lane
  <2>1. PICK t \in 0..1 : Sum(high0, high0) = 2 * high0 - Base * t
    BY <1>3, DoubledLow
  <2>2. Sum(high0, high0) \in Lane
    BY <1>3, SumFacts
  <2>3. sum = (Sum(high0, high0) + top) % Base
    BY DEF Sum, Fit, Base
  <2>4. \E k \in Int : Sum(high0, high0) + top = d + Base * k
    <3>1. CASE v < 0
      <4>1. Sum(high0, high0) + top = d + Base * (2 - t)
        BY <1>1, <1>4, <1>6, <2>1, <3>1
      <4> QED BY <4>1
    <3>2. CASE ~(v < 0)
      <4>1. Sum(high0, high0) + top = d + Base * (-t)
        BY <1>1, <1>4, <1>6, <2>1, <3>2
      <4> QED BY <4>1
    <3> QED BY <3>1, <3>2
  <2>5. sum = d % Base
    BY <2>3, <2>4, Shifted
  <2>6. sum \in Lane
    BY <1>5, <2>2, SumFacts
  <2> QED BY <2>5, <2>6
<1>11. mid = Minus(sum, Mask(e = 1))
  BY <1>5, <1>9
<1>12. Equal(mid, 0) = Mask(mid = 0)
  BY DEF Equal
<1>13. hi = Mask((v < 0) # (mid = 0 /\ e = 1))
  <2>1. (mid = 0) \in BOOLEAN /\ (e = 1) \in BOOLEAN /\ (v < 0) \in BOOLEAN
        /\ (mid = 0 /\ e = 1) \in BOOLEAN
    OBVIOUS
  <2>2. And(Equal(mid, 0), carry) = Mask(mid = 0 /\ e = 1)
    BY <1>9, <1>12, <2>1, AndOfMasks, Zenon
  <2> QED BY <1>6, <2>1, <2>2, XorOfMasks, Zenon
<1>14. mid \in Lane /\ mid = IF e = 1 THEN IF sum + 1 < Base THEN sum + 1 ELSE 0 ELSE sum
  BY <1>10, <1>11, MinusFacts
<1>15. hi \in Lane
  BY <1>1, <1>13, InLane DEF Mask
<1> HIDE DEF sum
<1>16. CASE ~(v < 0)
  <2>1. d \in Lane
    BY <1>1, <1>4, <1>16, InLane
  <2>2. sum = d
    BY <1>10, <2>1, Wrapped
  <2>3. mid = d + e /\ ~(mid = 0 /\ e = 1)
    BY <1>1, <1>4, <1>9, <1>14, <1>16, <2>2
  <2>4. hi = 0
    BY <1>13, <1>16, <2>3 DEF Mask
  <2>5. (low1 + Half - Base * e) + Base * (d + e) + Base * Base * 0 = (Base * d + low1 + Half) + Base * Base * Base * 0
    BY <1>1, <1>5, <1>9
  <2>6. Slices(low, mid, hi) = p2 + Half + Cube * 0
    BY <1>5, <1>9, <2>3, <2>4, <2>5 DEF Slices, Cube
  <2>7. Congruent(Slices(low, mid, hi), p2 + Half)
    BY <2>6 DEF Congruent
  <2> QED BY <1>8, <1>14, <1>15, <2>7 DEF p2
<1>17. CASE v < 0 /\ d + e < 0
  <2>1. d + Base \in Lane /\ d = (d + Base) - Base
    BY <1>1, <1>4, <1>17, InLane
  <2>2. sum = d + Base
    BY <1>10, <2>1, Wrapped
  <2>3. mid = d + e + Base /\ mid # 0
    BY <1>1, <1>4, <1>9, <1>14, <1>17, <2>2
  <2>4. hi = Base - 1
    BY <1>1, <1>13, <1>17, <2>3 DEF Mask
  <2>5. (low1 + Half - Base * e) + Base * (d + e + Base) + Base * Base * (Base - 1)
          = (Base * d + low1 + Half) + Base * Base * Base * 1
    BY <1>1, <1>5, <1>9
  <2>6. Slices(low, mid, hi) = p2 + Half + Cube * 1
    BY <1>5, <1>9, <2>3, <2>4, <2>5 DEF Slices, Cube
  <2>7. Congruent(Slices(low, mid, hi), p2 + Half)
    BY <2>6 DEF Congruent
  <2> QED BY <1>8, <1>14, <1>15, <2>7 DEF p2
<1>18. CASE v < 0 /\ ~(d + e < 0)
  <2>1. d = -1 /\ e = 1
    BY <1>1, <1>4, <1>9, <1>18
  <2>2. Base - 1 \in Lane /\ -1 = (Base - 1) - Base
    BY <1>1, InLane
  <2>3. sum = Base - 1
    BY <1>10, <2>1, <2>2, Wrapped
  <2>4. mid = 0
    BY <1>1, <1>14, <2>1, <2>3
  <2>5. hi = 0
    BY <1>13, <1>18, <2>1, <2>4 DEF Mask
  <2>6. (low1 + Half - Base * 1) + Base * 0 + Base * Base * 0
          = (Base * (-1) + low1 + Half) + Base * Base * Base * 0
    BY <1>1, <1>5
  <2>7. Slices(low, mid, hi) = p2 + Half + Cube * 0
    BY <1>5, <1>9, <2>1, <2>4, <2>5, <2>6 DEF Slices, Cube
  <2>8. Congruent(Slices(low, mid, hi), p2 + Half)
    BY <2>7 DEF Congruent
  <2> QED BY <1>8, <1>14, <1>15, <2>8 DEF p2
<1> QED BY <1>16, <1>17, <1>18
(***************************************************************************)
(* The saturated results.                                                  *)
(***************************************************************************)
\* The 48 bits read as a signed number.
LEMMA UpperPart ==
    ASSUME NEW l, AccLane(l)
    PROVE  /\ Acc(l) \in 0..Cube - 1
           /\ (IF 2 * Acc(l) < Cube THEN Acc(l) ELSE Acc(l) - Cube) \div Base = Joined(l.mid, l.hi)
<1> DEFINE lo == l.lo mid == l.mid hi == l.hi
<1>1. lo \in Lane /\ mid \in Lane /\ hi \in Lane
  BY DEF AccLane
<1>2. Acc(l) = lo + Base * mid + Base * Base * hi
  BY DEF Acc
<1>3. Joined(l.mid, l.hi) = mid + Base * Sl(hi)
  BY DEF Joined, Base
<1> HIDE DEF lo, mid, hi
<1>4. /\ Half \in Nat /\ Half > 1 /\ Base = 2 * Half /\ Base \in Nat /\ Base > 0
      /\ lo \in Int /\ 0 <= lo /\ lo < Base /\ mid \in Int /\ 0 <= mid /\ mid < Base
      /\ hi \in Int /\ 0 <= hi /\ hi < Base
  BY <1>1, LaneType, Widths
<1> DEFINE upper == mid + Base * hi
           square == Base * Base
<1>5. square \in Int /\ upper \in Int /\ 0 <= upper /\ upper < square
  <2>1. 0 <= Base * hi /\ Base * hi <= Base * (Base - 1) /\ Base * (Base - 1) = square - Base
    BY <1>4
  <2> QED BY <1>4, <2>1
<1>6. Acc(l) = Base * upper + lo /\ Cube = Base * square
  <2>1. lo + Base * mid + Base * Base * hi = Base * (mid + Base * hi) + lo
    BY <1>4
  <2>2. Base * Base * Base = Base * (Base * Base)
    BY <1>4
  <2> QED BY <1>2, <2>1, <2>2 DEF Cube
<1>7. /\ hi < Half => 2 * upper < square
      /\ hi >= Half => 2 * upper >= square
  <2>1. ASSUME hi < Half PROVE 2 * upper < square
    <3>1. Base * hi <= Base * (Half - 1) /\ Base * (Half - 1) = Base * Half - Base
      BY <1>4, <2>1
    <3>2. 2 * (Base * Half) = square
      BY <1>4
    <3> QED BY <1>4, <3>1, <3>2
  <2>2. ASSUME hi >= Half PROVE 2 * upper >= square
    <3>1. Base * hi >= Base * Half
      BY <1>4, <2>2
    <3>2. 2 * (Base * Half) = square
      BY <1>4
    <3> QED BY <1>4, <3>1, <3>2
  <2> QED BY <2>1, <2>2
<1>8. upper - square = mid + Base * (hi - Base)
  BY <1>4
<1>9. upper = mid + Base * hi
  OBVIOUS
<1> HIDE DEF upper, square
<1>10. 0 <= Base * upper /\ Base * upper <= Base * (square - 1) /\ Base * (square - 1) = Cube - Base
  BY <1>4, <1>5, <1>6
<1>11. Acc(l) \in 0..Cube - 1 /\ Acc(l) \in Int /\ Cube \in Int
  BY <1>4, <1>5, <1>6, <1>10
<1>12. CASE hi < Half
  <2>1. 2 * upper <= square - 1
    BY <1>5, <1>7, <1>12, <1>4
  <2>2. Base * (2 * upper) <= Base * (square - 1)
    BY <1>4, <1>5, <2>1
  <2>3. 2 * Acc(l) < Cube
    <3>1. square - (2 * upper) \in Int
      BY <1>5
    <3>2. \E j \in Int : square = 2 * j
      <4>1. square = 2 * (Half * Base) /\ Half * Base \in Int
        BY <1>4 DEF square
      <4> QED BY <4>1
    <3>3. 2 * upper <= square - 2
      BY <1>5, <2>1, <3>2
    <3>4. Base * (2 * upper) <= Base * (square - 2) /\ Base * (square - 2) = Cube - 2 * Base
      BY <1>4, <1>5, <1>6, <3>3
    <3>5. 2 * Acc(l) = Base * (2 * upper) + 2 * lo
      BY <1>4, <1>5, <1>6
    <3> QED BY <1>4, <1>5, <1>11, <3>4, <3>5
  <2>4. Acc(l) \div Base = upper
    BY <1>4, <1>5, <1>6, QuotientUnique
  <2>5. Sl(hi) = hi
    BY <1>1, <1>12, SignedFacts
  <2> QED BY <1>3, <1>9, <1>11, <2>3, <2>4, <2>5
<1>13. CASE ~(hi < Half)
  <2>1. 2 * upper >= square
    BY <1>4, <1>7, <1>13
  <2>2. Base * (2 * upper) >= Base * square
    BY <1>4, <1>5, <2>1
  <2>3. ~(2 * Acc(l) < Cube)
    <3>1. 2 * Acc(l) = Base * (2 * upper) + 2 * lo
      BY <1>4, <1>5, <1>6
    <3> QED BY <1>4, <1>5, <1>6, <1>11, <2>2, <3>1
  <2>4. Acc(l) - Cube = Base * (upper - square) + lo
    BY <1>4, <1>5, <1>6
  <2>5. (Acc(l) - Cube) \div Base = upper - square
    <3> DEFINE q == upper - square
    <3>1. q \in Int /\ Acc(l) - Cube = Base * q + lo /\ Base \in Nat /\ Base > 0
      BY <1>4, <1>5, <2>4
    <3> HIDE DEF q
    <3>2. lo \in 0..Base - 1
      BY <1>4
    <3>3. (Base * q + lo) \div Base = q
      BY <3>1, <3>2, QuotientUnique
    <3> QED BY <3>1, <3>3 DEF q
  <2>6. Sl(hi) = hi - Base
    BY <1>1, <1>13, SignedFacts
  <2> QED BY <1>3, <1>8, <1>11, <2>3, <2>5, <2>6
<1> QED BY <1>11, <1>12, <1>13

(***************************************************************************)
(* What an instruction leaves in a lane.                                   *)
(***************************************************************************)
\* The lane holds x in its accumulator.
Holds(m, x) == AccLane(m) /\ Acc(m) = x % Cube
\* Its result is the upper part of it, saturated.
Saturated(m) == m.d = SatS((IF 2 * Acc(m) < Cube THEN Acc(m) ELSE Acc(m) - Cube) \div Base)

\* The modulus of the accumulator.
LEMMA CubeType == Cube \in Nat /\ Cube > 0 /\ Base * Base \in Nat
<1>1. Base \in Nat /\ Base > 0
  BY Widths
<1>2. Base * Base \in Nat /\ Base * Base > 0
  BY <1>1
<1>3. (Base * Base) * Base \in Nat /\ (Base * Base) * Base > 0
  BY <1>1, <1>2
<1> QED BY <1>2, <1>3 DEF Cube

LEMMA AccType == ASSUME NEW m, AccLane(m) PROVE Acc(m) \in Int
BY LaneType, Widths DEF AccLane, Acc

\* An accumulator congruent to x holds x.
LEMMA Residue ==
    ASSUME NEW m, AccLane(m), NEW x \in Int, Congruent(Acc(m), x)
    PROVE  Holds(m, x)
<1>1. PICK k \in Int : Acc(m) = x + Cube * k
  BY DEF Congruent
<1>2. Acc(m) \in 0..Cube - 1 /\ Cube \in Nat /\ Cube > 0
  BY UpperPart, CubeType
<1> DEFINE r == Acc(m) q == -k
<1>3. r \in 0..Cube - 1 /\ q \in Int /\ x = Cube * q + r
  BY <1>1, <1>2
<1> HIDE DEF r, q
<1>4. x % Cube = r
  BY <1>2, <1>3, QuotientUnique
<1> QED BY <1>4 DEF Holds, r

\* Congruences add up.
LEMMA Chained ==
    ASSUME NEW x \in Int, NEW y \in Int, NEW z \in Int, NEW a \in Int,
           Congruent(a, x + y), Congruent(y, z)
    PROVE  Congruent(a, z + x)
<1>1. PICK j \in Int : a = x + y + Cube * j
  BY DEF Congruent
<1>2. PICK k \in Int : y = z + Cube * k
  BY DEF Congruent
<1>3. Cube \in Int
  BY CubeType
<1>4. a = z + x + Cube * (j + k) /\ j + k \in Int
  BY <1>1, <1>2, <1>3
<1> QED BY <1>4 DEF Congruent

\* The accumulator of a lane is in three of its fields.
LEMMA AccOf ==
    ASSUME NEW m, NEW n, m.lo = n.lo, m.mid = n.mid, m.hi = n.hi, AccLane(m)
    PROVE  AccLane(n) /\ Acc(n) = Acc(m)
BY DEF AccLane, Acc

\* A result put in the lane leaves the accumulator alone.
LEMMA ResultLeavesSum ==
    ASSUME NEW a \in LaneRecord, NEW v, NEW m, m = [a EXCEPT !.d = v], NEW x \in Int, Congruent(Acc(a), x)
    PROVE  Holds(m, x) /\ (v = ClampSigned(a.mid, a.hi) => Saturated(m))
<1>1. m.lo = a.lo /\ m.mid = a.mid /\ m.hi = a.hi /\ m.d = v
  BY DEF LaneRecord
<1>2. AccLane(a)
  BY DEF LaneRecord, AccLane
<1>3. AccLane(m) /\ Acc(m) = Acc(a)
  BY <1>1, <1>2, AccOf
<1>4. Holds(m, x)
  BY <1>3, Residue
<1>5. ASSUME v = ClampSigned(a.mid, a.hi) PROVE Saturated(m)
  BY <1>1, <1>2, <1>3, <1>5, UpperPart, Zenon DEF Saturated, ClampSigned
<1> QED BY <1>4, <1>5

\* The same, for the products added to what the accumulator held.
LEMMA AddedLeavesSum ==
    ASSUME NEW l \in LaneRecord, NEW a, NEW y \in Int, NEW p \in Int, Added(l, a, y), Congruent(y, p),
           NEW v, NEW m, m = [a EXCEPT !.d = v]
    PROVE  Holds(m, p + Acc(l)) /\ (v = ClampSigned(a.mid, a.hi) => Saturated(m))
<1>1. a \in LaneRecord /\ Congruent(Acc(a), Acc(l) + y)
  BY DEF Added
<1>2. Acc(l) \in Int /\ Acc(a) \in Int
  BY <1>1, AccType DEF LaneRecord, AccLane
<1>3. Congruent(Acc(a), p + Acc(l)) /\ p + Acc(l) \in Int
  BY <1>1, <1>2, Chained
<1> QED BY <1>1, <1>3, ResultLeavesSum

\* Three slices are a number.
LEMMA SlicesType ==
    ASSUME NEW low \in Lane, NEW mid \in Lane, NEW high \in Lane
    PROVE  Slices(low, mid, high) \in Int
BY LaneType, Widths DEF Slices

\* The products are numbers.
LEMMA ProductTypes ==
    ASSUME NEW a \in Lane, NEW b \in Lane
    PROVE  /\ Sl(a) * Sl(b) \in Int /\ 2 * (Sl(a) * Sl(b)) \in Int
           /\ a * Sl(b) \in Int /\ Sl(a) * b \in Int
           /\ Sl(a) * b = b * Sl(a)
           /\ a * b \in Int /\ a * b = b * a
<1> DEFINE x == Sl(a) y == Sl(b)
<1>1. a \in Int /\ b \in Int /\ x \in Int /\ y \in Int
  BY LaneType, SlFacts
<1> HIDE DEF x, y
<1>2. /\ x * y \in Int /\ 2 * (x * y) \in Int /\ a * y \in Int /\ x * b \in Int /\ x * b = b * x
      /\ a * b \in Int /\ a * b = b * a
  BY <1>1
<1> QED BY <1>2 DEF x, y

\* Fractions: twice the product is added.
LEMMA vmacfuAdds ==
    ASSUME NEW l \in LaneRecord
    PROVE  \E y \in Int : Added(l, vmacfu(l), y) /\ Congruent(y, 2 * (Sl(l.s) * Sl(l.t)))
<1> DEFINE low == MulLow(l.s, l.t)
           high == MulHigh(l.s, l.t)
           first == Shl(H, low, 1)
           second == Sum(Shl(H, high, 1), Shr(H, low, H - 1))
           third == Sign(high)
<1>1. l.s \in Lane /\ l.t \in Lane
  BY DEF LaneRecord
<1>2. first \in Lane /\ second \in Lane /\ third \in Lane
      /\ Congruent(Slices(first, second, third), 2 * (Sl(l.s) * Sl(l.t)))
  BY <1>1, TwiceTheProduct
<1>3. vmacfu(l) = AddToAcc(l, first, second, third)
  BY Zenon DEF vmacfu
<1> HIDE DEF first, second, third
<1>4. Added(l, vmacfu(l), Slices(first, second, third)) /\ Slices(first, second, third) \in Int
  BY <1>2, <1>3, AddToAccAdds, SlicesType
<1> QED BY <1>2, <1>4

Fraction(l) == Sl(l.s) * Sl(l.t)
vmacfLane(l) == Clamped(vmacfu(l))
vmacuLane(l) == ClampedU(vmacfu(l))

\* vmacf and vmacu add twice the product.
LEMMA vmacfAdds ==
    ASSUME NEW l \in LaneRecord
    PROVE  /\ Holds(vmacfLane(l), 2 * Fraction(l) + Acc(l)) /\ Saturated(vmacfLane(l))
           /\ Holds(vmacuLane(l), 2 * Fraction(l) + Acc(l))
<1> DEFINE a == vmacfu(l)
<1>1. PICK y \in Int : Added(l, a, y) /\ Congruent(y, 2 * Fraction(l))
  BY vmacfuAdds DEF Fraction
<1>2. 2 * Fraction(l) \in Int
  BY ProductTypes DEF LaneRecord, Fraction
<1>3. vmacfLane(l) = [a EXCEPT !.d = ClampSigned(a.mid, a.hi)]
      /\ vmacuLane(l) = [a EXCEPT !.d = ClampUnsigned(a.mid, a.hi)]
  BY DEF vmacfLane, vmacuLane, Clamped, ClampedU
<1> HIDE DEF a
<1>4. Holds(vmacfLane(l), 2 * Fraction(l) + Acc(l)) /\ Saturated(vmacfLane(l))
  BY <1>1, <1>2, <1>3, AddedLeavesSum
<1>5. Holds(vmacuLane(l), 2 * Fraction(l) + Acc(l))
  BY <1>1, <1>2, <1>3, AddedLeavesSum
<1> QED BY <1>4, <1>5

\* vmadm and vmadn: one factor signed.
MixedSum(l, x, y) ==
    LET high == MulHighUS(x, y) IN AddToAcc(l, MulLow(l.s, l.t), high, Sign(high))

\* The mixed product is added, whichever factor is signed.
LEMMA MixedSumAdds ==
    ASSUME NEW l \in LaneRecord, NEW x \in Lane, NEW y \in Lane, MulLow(x, y) = MulLow(l.s, l.t)
    PROVE  \E z \in Int : Added(l, MixedSum(l, x, y), z) /\ Congruent(z, x * Sl(y))
<1> DEFINE high == MulHighUS(x, y)
           low == MulLow(x, y)
<1>1. /\ low \in Lane /\ high \in Lane /\ Sign(high) \in Lane
      /\ Congruent(Slices(low, high, Sign(high)), x * Sl(y))
  BY MixedProduct
<1>2. MixedSum(l, x, y) = AddToAcc(l, low, high, Sign(high))
  BY DEF MixedSum
<1> HIDE DEF low, high
<1>3. Added(l, MixedSum(l, x, y), Slices(low, high, Sign(high))) /\ Slices(low, high, Sign(high)) \in Int
  BY <1>1, <1>2, AddToAccAdds, SlicesType
<1> QED BY <1>1, <1>3

vmadmLane(l) == Clamped(MixedSum(l, l.t, l.s))
vmadnLane(l) == LET a == MixedSum(l, l.s, l.t) IN [a EXCEPT !.d = ClampLow(a)]

\* The low half of a product, with the factors exchanged.
LEMMA LowCommutes == ASSUME NEW a \in Lane, NEW b \in Lane PROVE MulLow(a, b) = MulLow(b, a)
BY ProductTypes, Zenon DEF MulLow

\* vmadm adds the product of a signed and an unsigned factor.
LEMMA vmadmAdds ==
    ASSUME NEW l \in LaneRecord
    PROVE  Holds(vmadmLane(l), Sl(l.s) * l.t + Acc(l)) /\ Saturated(vmadmLane(l))
<1> DEFINE a == MixedSum(l, l.t, l.s)
<1>1. l.s \in Lane /\ l.t \in Lane
  BY DEF LaneRecord
<1>2. PICK y \in Int : Added(l, a, y) /\ Congruent(y, l.t * Sl(l.s))
  BY <1>1, LowCommutes, MixedSumAdds
<1>3. l.t * Sl(l.s) \in Int /\ Sl(l.s) * l.t = l.t * Sl(l.s)
  BY <1>1, ProductTypes
<1>4. vmadmLane(l) = [a EXCEPT !.d = ClampSigned(a.mid, a.hi)]
  BY DEF vmadmLane, Clamped
<1> HIDE DEF a
<1> QED BY <1>2, <1>3, <1>4, AddedLeavesSum

\* vmadn adds the product of an unsigned and a signed factor.
LEMMA vmadnAdds ==
    ASSUME NEW l \in LaneRecord
    PROVE  Holds(vmadnLane(l), l.s * Sl(l.t) + Acc(l))
<1> DEFINE a == MixedSum(l, l.s, l.t)
<1>1. l.s \in Lane /\ l.t \in Lane
  BY DEF LaneRecord
<1>2. PICK y \in Int : Added(l, a, y) /\ Congruent(y, l.s * Sl(l.t))
  BY <1>1, MixedSumAdds
<1>3. l.s * Sl(l.t) \in Int
  BY <1>1, ProductTypes
<1>4. vmadnLane(l) = [a EXCEPT !.d = ClampLow(a)]
  BY DEF vmadnLane
<1> HIDE DEF a
<1> QED BY <1>2, <1>3, <1>4, AddedLeavesSum

\* vmadl: the upper half of the unsigned product is added at the bottom.
LEMMA UpperHalf ==
    ASSUME NEW a \in Lane, NEW b \in Lane
    PROVE  MulHighU(a, b) \in Lane /\ MulHighU(a, b) = (a * b) \div Base
<1>1. a \in Int /\ 0 <= a /\ a < Base /\ b \in Int /\ 0 <= b /\ b < Base /\ Base \in Nat /\ Base > 0
  BY LaneType, Widths
<1>2. a * b \in Int /\ 0 * Base <= a * b /\ a * b < Base * Base
  <2>1. 0 <= a * b /\ a * b <= a * Base
    BY <1>1
  <2>2. a * Base < Base * Base \/ a * Base = Base * Base
    BY <1>1
  <2>3. CASE b = 0
    <3>1. a * b = 0
      BY <1>1, <2>3
    <3>2. Base * Base > 0
      BY <1>1
    <3> QED BY <1>1, <3>1, <3>2
  <2>4. CASE ~(b = 0)
    <3>1. a * Base <= (Base - 1) * Base
      BY <1>1
    <3>2. (Base - 1) * Base < Base * Base
      BY <1>1
    <3> QED BY <1>1, <2>1, <3>1, <3>2
  <2> QED BY <2>3, <2>4
<1>3. 0 <= (a * b) \div Base /\ (a * b) \div Base < Base
  BY <1>1, <1>2, QuotientBounds
<1>4. (a * b) \div Base \in Int
  BY <1>1, <1>2, Division
<1>5. (a * b) \div Base \in Lane
  BY <1>3, <1>4, InLane
<1> QED BY <1>5, Operators

vmadlLane(l) == LET a == AddToAcc1(l, MulHighU(l.s, l.t)) IN [a EXCEPT !.d = ClampLow(a)]

\* vmadl adds the upper half of the unsigned product.
LEMMA vmadlAdds ==
    ASSUME NEW l \in LaneRecord
    PROVE  Holds(vmadlLane(l), (l.s * l.t) \div Base + Acc(l))
<1> DEFINE high == MulHighU(l.s, l.t)
           a == AddToAcc1(l, high)
<1>1. l.s \in Lane /\ l.t \in Lane
  BY DEF LaneRecord
<1>2. high \in Lane /\ high = (l.s * l.t) \div Base
  BY <1>1, UpperHalf
<1>3. Added(l, a, high) /\ high \in Int
  BY <1>2, AddToAcc1Adds, LaneType
<1>4. vmadlLane(l) = [a EXCEPT !.d = ClampLow(a)]
  BY DEF vmadlLane
<1>5. Congruent(high, high)
  <2>1. high = high + Cube * 0
    BY <1>3, CubeType
  <2> QED BY <2>1 DEF Congruent
<1> HIDE DEF a, high
<1>6. Holds(vmadlLane(l), high + Acc(l))
  BY <1>3, <1>4, <1>5, AddedLeavesSum
<1> QED BY <1>2, <1>6

\* vmadh and vmudh: the product is placed at the middle slice.
LEMMA FromMid ==
    ASSUME NEW a \in Lane, NEW b \in Lane
    PROVE  /\ MulLow(a, b) \in Lane /\ MulHigh(a, b) \in Lane
           /\ Congruent(Slices(0, MulLow(a, b), MulHigh(a, b)), Base * (Sl(a) * Sl(b)))
<1> DEFINE p == Sl(a) * Sl(b)
           v == p \div Base
           low == MulLow(a, b)
           high == MulHigh(a, b)
<1>1. Base \in Nat /\ Base > 0
  BY Widths
<1>2. /\ p \in Int /\ low = p % Base /\ low \in Lane
      /\ high = v % Base /\ high \in Lane
  BY HighProduct, LowProduct
<1> HIDE DEF p
<1>3. p = Base * v + (p % Base) /\ v \in Int /\ p % Base \in Int
  BY <1>1, <1>2, Division
<1> DEFINE k == v \div Base
<1> HIDE DEF v, low, high
<1>4. v = Base * k + (v % Base) /\ k \in Int /\ v % Base \in Int
  BY <1>1, <1>3, Division
<1>5. p = Base * v + low /\ v = Base * k + high /\ low \in Int /\ high \in Int
  BY <1>2, <1>3, <1>4
<1>6. Slices(0, low, high) = Base * low + Base * Base * high
  BY <1>1, <1>5 DEF Slices
<1> HIDE DEF k
<1>7. Base * p = Base * low + Base * Base * high + Base * Base * Base * k
  BY <1>1, <1>3, <1>4, <1>5
<1>8. Slices(0, low, high) = Base * p + Cube * (-k) /\ -k \in Int
  BY <1>1, <1>2, <1>4, <1>5, <1>6, <1>7 DEF Cube
<1>9. Congruent(Slices(0, low, high), Base * p)
  BY <1>8 DEF Congruent
<1> QED BY <1>2, <1>9 DEF p, low, high

vmadhLane(l) == Clamped(AddToAccFromMid(l, MulLow(l.s, l.t), MulHigh(l.s, l.t)))

\* vmadh adds the product shifted up by a halfword.
LEMMA vmadhAdds ==
    ASSUME NEW l \in LaneRecord
    PROVE  Holds(vmadhLane(l), Base * Fraction(l) + Acc(l)) /\ Saturated(vmadhLane(l))
<1> DEFINE mid == MulLow(l.s, l.t)
           high == MulHigh(l.s, l.t)
           a == AddToAccFromMid(l, mid, high)
           y == Slices(0, mid, high)
<1>1. l.s \in Lane /\ l.t \in Lane
  BY DEF LaneRecord
<1>2. mid \in Lane /\ high \in Lane /\ Congruent(y, Base * Fraction(l))
  BY <1>1, FromMid DEF Fraction
<1>3. Fraction(l) \in Int /\ Base \in Int
  BY <1>1, ProductTypes, Widths DEF Fraction
<1>4. Base * Fraction(l) \in Int
  BY <1>3
<1>5. Added(l, a, y)
  BY <1>2, AddToAccFromMidAdds
<1>6. y \in Int
  <2>1. 0 \in Lane
    BY Widths, InLane
  <2> QED BY <1>2, <2>1, SlicesType
<1>7. vmadhLane(l) = [a EXCEPT !.d = ClampSigned(a.mid, a.hi)]
  BY DEF vmadhLane, Clamped
<1> HIDE DEF a, y
<1> QED BY <1>2, <1>4, <1>5, <1>6, <1>7, AddedLeavesSum

\* The products that replace the accumulator.
LEMMA Replaced ==
    ASSUME NEW m, NEW low \in Lane, NEW mid \in Lane, NEW high \in Lane,
           m.lo = low, m.mid = mid, m.hi = high, NEW x \in Int, Congruent(Slices(low, mid, high), x)
    PROVE  Holds(m, x) /\ (m.d = ClampSigned(mid, high) => Saturated(m))
<1>1. AccLane(m) /\ Acc(m) = Slices(low, mid, high)
  BY DEF AccLane, Acc, Slices
<1>2. Holds(m, x)
  BY <1>1, Residue
<1>3. ASSUME m.d = ClampSigned(mid, high) PROVE Saturated(m)
  BY <1>1, <1>3, UpperPart, Zenon DEF Saturated, ClampSigned
<1> QED BY <1>2, <1>3

vmudhLane(l) ==
    Clamped([l EXCEPT !.lo = 0, !.mid = MulLow(l.s, l.t), !.hi = MulHigh(l.s, l.t)])

\* vmudh leaves the product shifted up by a halfword.
LEMMA vmudhLeaves ==
    ASSUME NEW l \in LaneRecord
    PROVE  Holds(vmudhLane(l), Base * Fraction(l)) /\ Saturated(vmudhLane(l))
<1> DEFINE mid == MulLow(l.s, l.t)
           high == MulHigh(l.s, l.t)
           m == vmudhLane(l)
<1>1. l.s \in Lane /\ l.t \in Lane /\ 0 \in Lane
  BY Widths, InLane DEF LaneRecord
<1>2. mid \in Lane /\ high \in Lane /\ Congruent(Slices(0, mid, high), Base * Fraction(l))
  BY <1>1, FromMid DEF Fraction
<1>3. Fraction(l) \in Int /\ Base \in Int
  BY <1>1, ProductTypes, Widths DEF Fraction
<1>4. Base * Fraction(l) \in Int
  BY <1>3
<1>5. m.lo = 0 /\ m.mid = mid /\ m.hi = high /\ m.d = ClampSigned(mid, high)
  BY DEF vmudhLane, Clamped, LaneRecord
<1> HIDE DEF m, mid, high
<1> QED BY <1>1, <1>2, <1>4, <1>5, Replaced DEF m

vmudlLane(l) == [Both(l, MulHighU(l.s, l.t)) EXCEPT !.mid = 0, !.hi = 0]

\* vmudl leaves the upper half of the unsigned product.
LEMMA vmudlLeaves ==
    ASSUME NEW l \in LaneRecord
    PROVE  Holds(vmudlLane(l), (l.s * l.t) \div Base)
<1> DEFINE low == MulHighU(l.s, l.t)
           m == vmudlLane(l)
<1>1. l.s \in Lane /\ l.t \in Lane /\ 0 \in Lane
  BY Widths, InLane DEF LaneRecord
<1>2. low \in Lane /\ low = (l.s * l.t) \div Base
  BY <1>1, UpperHalf
<1>3. m.lo = low /\ m.mid = 0 /\ m.hi = 0
  BY DEF vmudlLane, Both, LaneRecord
<1> HIDE DEF m, low
<1>4. Slices(low, 0, 0) = low + Cube * 0 /\ low \in Int
  BY <1>2, LaneType, Widths, CubeType DEF Slices
<1>5. Congruent(Slices(low, 0, 0), low)
  BY <1>4 DEF Congruent
<1>6. Holds(m, low)
  BY <1>1, <1>2, <1>3, <1>4, <1>5, Replaced
<1> QED BY <1>2, <1>6 DEF m

vmudmLane(l) ==
    LET mid == MulHighUS(l.t, l.s) IN
    Clamped([l EXCEPT !.lo = MulLow(l.s, l.t), !.mid = mid, !.hi = Sign(mid)])

\* vmudm leaves the product of a signed and an unsigned factor.
LEMMA vmudmLeaves ==
    ASSUME NEW l \in LaneRecord
    PROVE  Holds(vmudmLane(l), Sl(l.s) * l.t) /\ Saturated(vmudmLane(l))
<1> DEFINE low == MulLow(l.s, l.t)
           mid == MulHighUS(l.t, l.s)
           m == vmudmLane(l)
<1>1. l.s \in Lane /\ l.t \in Lane
  BY DEF LaneRecord
<1>2. low = MulLow(l.t, l.s)
  BY <1>1, LowCommutes
<1>3. /\ low \in Lane /\ mid \in Lane /\ Sign(mid) \in Lane
      /\ Congruent(Slices(low, mid, Sign(mid)), l.t * Sl(l.s))
  BY <1>1, <1>2, MixedProduct
<1>4. l.t * Sl(l.s) \in Int /\ Sl(l.s) * l.t = l.t * Sl(l.s)
  BY <1>1, ProductTypes
<1>5. m.lo = low /\ m.mid = mid /\ m.hi = Sign(mid) /\ m.d = ClampSigned(mid, Sign(mid))
  BY DEF vmudmLane, Clamped, LaneRecord
<1> HIDE DEF m, low, mid
<1>6. Holds(m, l.t * Sl(l.s)) /\ Saturated(m)
  BY <1>3, <1>4, <1>5, Replaced
<1> QED BY <1>4, <1>6 DEF m

vmudnLane(l) ==
    LET mid == MulHighUS(l.s, l.t) IN
    [Both(l, MulLow(l.s, l.t)) EXCEPT !.mid = mid, !.hi = Sign(mid)]

\* vmudn leaves the product of an unsigned and a signed factor.
LEMMA vmudnLeaves ==
    ASSUME NEW l \in LaneRecord
    PROVE  Holds(vmudnLane(l), l.s * Sl(l.t))
<1> DEFINE low == MulLow(l.s, l.t)
           mid == MulHighUS(l.s, l.t)
           m == vmudnLane(l)
<1>1. l.s \in Lane /\ l.t \in Lane
  BY DEF LaneRecord
<1>2. /\ low \in Lane /\ mid \in Lane /\ Sign(mid) \in Lane
      /\ Congruent(Slices(low, mid, Sign(mid)), l.s * Sl(l.t))
  BY <1>1, MixedProduct
<1>3. l.s * Sl(l.t) \in Int
  BY <1>1, ProductTypes
<1>4. m.lo = low /\ m.mid = mid /\ m.hi = Sign(mid)
  BY DEF vmudnLane, Both, LaneRecord
<1> HIDE DEF m, low, mid
<1>5. Holds(m, l.s * Sl(l.t))
  BY <1>2, <1>3, <1>4, Replaced
<1> QED BY <1>5 DEF m

vmulfLane(l) == Clamped(vmulfu(l))
vmuluLane(l) == ClampedU(vmulfu(l))

\* vmulf and vmulu leave twice the product and half a unit.
LEMMA vmulfLeaves ==
    ASSUME NEW l \in LaneRecord
    PROVE  /\ Holds(vmulfLane(l), 2 * Fraction(l) + Half) /\ Saturated(vmulfLane(l))
           /\ Holds(vmuluLane(l), 2 * Fraction(l) + Half)
<1> DEFINE low0 == MulLow(l.s, l.t)
           high0 == MulHigh(l.s, l.t)
           low == Sum(Sum(low0, low0), SignMask)
           carry == Mask(Sl(low) >= 0)
           mid == Minus(Sum(Sum(high0, high0), Shr(H, low0, H - 1)), carry)
           hi == Xor(Sign(high0), And(Equal(mid, 0), carry))
           f == vmulfLane(l)
           u == vmuluLane(l)
<1>1. l.s \in Lane /\ l.t \in Lane
  BY DEF LaneRecord
<1>2. /\ low \in Lane /\ mid \in Lane /\ hi \in Lane
      /\ Congruent(Slices(low, mid, hi), 2 * Fraction(l) + Half)
  BY <1>1, Rounded DEF Fraction
<1>3. 2 * Fraction(l) + Half \in Int
  BY <1>1, ProductTypes, Widths DEF Fraction
<1>4. vmulfu(l) = [l EXCEPT !.lo = low, !.mid = mid, !.hi = hi]
  BY Zenon DEF vmulfu
<1> HIDE DEF low, mid, hi
<1>5. f.lo = low /\ f.mid = mid /\ f.hi = hi /\ f.d = ClampSigned(mid, hi)
  BY <1>4 DEF vmulfLane, Clamped, LaneRecord
<1>6. u.lo = low /\ u.mid = mid /\ u.hi = hi
  BY <1>4 DEF vmuluLane, ClampedU, LaneRecord
<1> HIDE DEF f, u
<1>7. Holds(f, 2 * Fraction(l) + Half) /\ Saturated(f)
  BY <1>2, <1>3, <1>5, Replaced
<1>8. Holds(u, 2 * Fraction(l) + Half)
  BY <1>2, <1>3, <1>6, Replaced
<1> QED BY <1>7, <1>8 DEF f, u

(***************************************************************************)
(* From the lanes to the state.                                            *)
(***************************************************************************)
LEMMA OnesLane == 0..Ones = Lane /\ 0 \in Lane /\ Ones \in Lane
BY Widths DEF Lane

\* The vectors an instruction is tried with are vectors of lanes.
LEMMA InputTypes ==
    ASSUME data \in Inputs
    PROVE  /\ data.a \in [Lanes -> Lane] /\ data.b \in [Lanes -> Lane]
           /\ data.lo \in [Lanes -> Lane] /\ data.mid \in [Lanes -> Lane] /\ data.hi \in [Lanes -> Lane]
           /\ data.co \in [Lanes -> Lane] /\ data.cox \in [Lanes -> Lane] /\ data.cc \in [Lanes -> Lane]
           /\ data.ccx \in [Lanes -> Lane] /\ data.ce \in [Lanes -> Lane]
<1>1. /\ \A v \in {data.a, data.b, data.lo, data.mid, data.hi} : v \in [Lanes -> 0..Ones]
      /\ \A v \in {data.co, data.cox, data.cc, data.ccx, data.ce} : v \in [Lanes -> {0, Ones}]
  BY InputsAssumption
<1>2. {0, Ones} \subseteq Lane
  BY OnesLane
<1>3. \A v \in [Lanes -> {0, Ones}] : v \in [Lanes -> Lane]
  BY <1>2
<1> QED BY <1>1, <1>3, OnesLane

\* So is every vector register.
LEMMA VprTypes ==
    ASSUME data \in Inputs, NEW r \in Vprs
    PROVE  Vpr(r) \in [Lanes -> Lane]
<1>1. CASE r = 1
  BY <1>1, InputTypes DEF Vpr
<1>2. CASE r = 2
  BY <1>2, InputTypes DEF Vpr
<1>3. CASE r # 1 /\ r # 2
  <2>1. Vpr(r) = [i \in Lanes |-> (3 * r + 5 * i) % (Ones + 1)]
    BY <1>3 DEF Vpr
  <2>2. Ones + 1 = Base
    BY Widths
  <2>3. ASSUME NEW i \in Lanes PROVE (3 * r + 5 * i) % (Ones + 1) \in Lane
    <3>1. 3 * r + 5 * i \in Int
      BY DEF Lanes, Vprs
    <3> QED BY <2>2, <3>1, RemainderType
  <2> QED BY <2>1, <2>3
<1> QED BY <1>1, <1>2, <1>3

\* An element names a lane.
LEMMA BroadcastType ==
    ASSUME NEW e \in 0..15, NEW i \in Lanes
    PROVE  Broadcast(e, i - 1) + 1 \in Lanes
BY SMT DEF Broadcast, Lanes

\* The second operand, after the broadcast, is a lane.
LEMMA Operand ==
    ASSUME NEW v \in [Lanes -> Lane], NEW e \in 0..15, NEW i \in Lanes
    PROVE  Broadcasted(v, e)[i] \in Lane
BY BroadcastType DEF Broadcasted

\* The operands of the vector instructions.
LEMMA VectorOperands ==
    ASSUME NEW o \in VVV
    PROVE  o.vs \in Vprs /\ o.vt \in Vprs /\ o.vd \in Vprs /\ o.e \in 0..15
<1>1. PICK r \in {<<1, 2, 3>>, <<1, 2, 1>>, <<2, 1, 1>>, <<1, 1, 1>>, <<1, 2, 0>>}, e \in Elements :
        o = VOp(r[1], r[2], r[3], e, 0, 0, 0)
  BY DEF VVV
<1>2. r[1] \in 0..7 /\ r[2] \in 0..7 /\ r[3] \in 0..7
  BY <1>1
<1>3. o.vs = r[1] /\ o.vt = r[2] /\ o.vd = r[3] /\ o.e = e
  BY <1>1 DEF VOp
<1> QED BY <1>1, <1>2, <1>3, ElementsAssumption DEF Vprs

\* The context of an instruction leaves its operands alone.
LEMMA OperandsKept ==
    ASSUME NEW o \in VVV, NEW c \in Plain, NEW p, p = With(o, c)
    PROVE  p.vs = o.vs /\ p.vt = o.vt /\ p.vd = o.vd /\ p.e = o.e
<1>1. PICK r \in {<<1, 2, 3>>, <<1, 2, 1>>, <<2, 1, 1>>, <<1, 1, 1>>, <<1, 2, 0>>}, e \in Elements :
        o = VOp(r[1], r[2], r[3], e, 0, 0, 0)
  BY DEF VVV
<1>2. c = Where(FALSE, FALSE, 8)
  BY DEF Plain
<1>3. DOMAIN o = {"vs", "vt", "vd", "e", "rs", "rt", "imm"}
  BY <1>1 DEF VOp
<1>4. DOMAIN c = {"pending", "pc", "block_pc", "intbreak", "effect", "ddp"}
  BY <1>2 DEF Where
<1>5. \A k \in {"vs", "vt", "vd", "e"} : k \in DOMAIN o /\ k \notin DOMAIN c
  BY <1>3, <1>4
<1>6. \A k \in {"vs", "vt", "vd", "e"} : p[k] = o[k]
  BY <1>5 DEF With
<1> QED BY <1>6

\* The state an instruction starts from.
Fields == {"vpr", "acc", "co", "cox", "cc", "ccx", "ce", "pending", "in_slot", "jump", "pc", "halted"}

\* The registers the interpreter starts from.
LEMMA StartFacts ==
    ASSUME NEW c \in Plain, NEW s, s = Interpreter(c)
    PROVE  /\ Fields \subseteq DOMAIN s
           /\ s.vpr = [r \in Vprs |-> Vpr(r)]
           /\ s.acc = [low |-> data.lo, mid |-> data.mid, high |-> data.hi]
           /\ s.co = data.co /\ s.cox = data.cox /\ s.cc = data.cc /\ s.ccx = data.ccx /\ s.ce = data.ce
<1> DEFINE f == Context(c)
           g == [gpr |-> [x \in Guests |-> Gpr(x)], vpr |-> [r \in Vprs |-> Vpr(r)], pc |-> c.pc,
                 acc |-> [low |-> data.lo, mid |-> data.mid, high |-> data.hi]]
<1>1. s = With(f, g)
  BY Zenon DEF Interpreter
<1>2. DOMAIN g = {"gpr", "vpr", "pc", "acc"}
  OBVIOUS
<1>3. DOMAIN f = {"pending", "in_slot", "jump", "halted", "broke", "sstep", "intbreak", "irq", "io", "rv",
                  "effect", "dmem", "co", "cox", "cc", "ccx", "ce", "dout", "din", "ddp", "cycles"}
  BY DEF Context
<1>4. /\ f.co = data.co /\ f.cox = data.cox /\ f.cc = data.cc /\ f.ccx = data.ccx /\ f.ce = data.ce
  BY DEF Context
<1>5. /\ g.vpr = [r \in Vprs |-> Vpr(r)]
      /\ g.acc = [low |-> data.lo, mid |-> data.mid, high |-> data.hi]
  OBVIOUS
<1> HIDE DEF f, g
<1>6. DOMAIN s = DOMAIN f \cup DOMAIN g
  BY <1>1 DEF With
<1>7. Fields \subseteq DOMAIN s
  BY <1>2, <1>3, <1>6 DEF Fields
<1>8. \A k \in {"vpr", "acc"} : s[k] = g[k]
  BY <1>1, <1>2 DEF With
<1>9. \A k \in {"co", "cox", "cc", "ccx", "ce"} : s[k] = f[k]
  BY <1>1, <1>2, <1>3 DEF With
<1> QED BY <1>4, <1>5, <1>7, <1>8, <1>9

\* What lane i of the instruction computes with.
LEMMA LaneTypes ==
    ASSUME data \in Inputs, NEW c \in Plain, NEW o \in VVV, NEW i \in Lanes, NEW l,
           l = LaneOf(Interpreter(c), o, i)
    PROVE  /\ l \in LaneRecord
           /\ l.s = Vpr(o.vs)[i] /\ l.t = Broadcasted(Vpr(o.vt), o.e)[i]
           /\ l.lo = data.lo[i] /\ l.mid = data.mid[i] /\ l.hi = data.hi[i]
<1> DEFINE s == Interpreter(c)
<1>1. /\ s.vpr = [r \in Vprs |-> Vpr(r)]
      /\ s.acc = [low |-> data.lo, mid |-> data.mid, high |-> data.hi]
      /\ s.co = data.co /\ s.cox = data.cox /\ s.cc = data.cc /\ s.ccx = data.ccx /\ s.ce = data.ce
  BY StartFacts
<1>2. l = [s |-> s.vpr[o.vs][i], t |-> Broadcasted(s.vpr[o.vt], o.e)[i], d |-> s.vpr[o.vd][i],
           lo |-> s.acc.low[i], mid |-> s.acc.mid[i], hi |-> s.acc.high[i],
           co |-> s.co[i], cox |-> s.cox[i], cc |-> s.cc[i], ccx |-> s.ccx[i], ce |-> s.ce[i]]
  BY DEF LaneOf
<1> HIDE DEF s
<1>3. s.vpr[o.vs] = Vpr(o.vs) /\ s.vpr[o.vt] = Vpr(o.vt) /\ s.vpr[o.vd] = Vpr(o.vd)
  BY <1>1, VectorOperands
<1>4. s.acc.low = data.lo /\ s.acc.mid = data.mid /\ s.acc.high = data.hi
  BY <1>1
<1>5. /\ Vpr(o.vs)[i] \in Lane /\ Vpr(o.vd)[i] \in Lane /\ Broadcasted(Vpr(o.vt), o.e)[i] \in Lane
  BY VectorOperands, VprTypes, Operand
<1>6. /\ data.lo[i] \in Lane /\ data.mid[i] \in Lane /\ data.hi[i] \in Lane
      /\ data.co[i] \in Lane /\ data.cox[i] \in Lane /\ data.cc[i] \in Lane
      /\ data.ccx[i] \in Lane /\ data.ce[i] \in Lane
  BY InputTypes
<1> QED BY <1>1, <1>2, <1>3, <1>4, <1>5, <1>6 DEF LaneRecord

\* ByLane, from the lanes it computes.
Lanewise(s, o, l) ==
  [s EXCEPT !.vpr[o.vd] = [i \in Lanes |-> l[i].d],
            !.acc = [low |-> [i \in Lanes |-> l[i].lo], mid |-> [i \in Lanes |-> l[i].mid],
                     high |-> [i \in Lanes |-> l[i].hi]],
            !.co = [i \in Lanes |-> l[i].co], !.cox = [i \in Lanes |-> l[i].cox],
            !.cc = [i \in Lanes |-> l[i].cc], !.ccx = [i \in Lanes |-> l[i].ccx],
            !.ce = [i \in Lanes |-> l[i].ce]]

\* The vector unit's registers in u are those in t.
Unmoved(t, u) == u.acc = t.acc /\ u.vpr = t.vpr /\ DOMAIN u = DOMAIN t

\* A branch moves no vector register.
LEMMA BranchUnmoved ==
    ASSUME NEW t, Fields \subseteq DOMAIN t
    PROVE  Unmoved(t, I!PerformBranch(t))
<1>1. "acc" \in DOMAIN t /\ "vpr" \in DOMAIN t
  BY DEF Fields
<1>2. I!PerformBranch(t) = [t EXCEPT !.pc = t.jump, !.pending = FALSE, !.in_slot = FALSE]
  BY Zenon DEF I!PerformBranch
<1> QED BY <1>1, <1>2 DEF Unmoved

\* Neither does what follows an instruction.
LEMMA SteppedUnmoved ==
    ASSUME NEW t, Fields \subseteq DOMAIN t
    PROVE  Unmoved(t, I!Stepped(t))
<1> DEFINE u == I!AfterInstruction(t)
<1>1. Unmoved(t, u)
  <2>1. CASE t.pending
    <3>1. u = I!PerformBranch(t)
      BY <2>1 DEF I!AfterInstruction
    <3> QED BY <3>1, BranchUnmoved
  <2>2. CASE ~t.pending
    <3>1. u = [t EXCEPT !.pending = t.in_slot, !.pc = I!Aligned(t.pc + 4)]
      BY <2>2, Zenon DEF I!AfterInstruction
    <3>2. "acc" \in DOMAIN t /\ "vpr" \in DOMAIN t
      BY DEF Fields
    <3> HIDE DEF u
    <3> QED BY <3>1, <3>2 DEF Unmoved
  <2> QED BY <2>1, <2>2
<1>2. I!Stepped(t) = u \/ I!Stepped(t) = I!PerformBranch(u)
  BY DEF I!Stepped, I!AfterLoop
<1> HIDE DEF u
<1>3. Unmoved(u, I!PerformBranch(u))
  BY <1>1, BranchUnmoved DEF Unmoved
<1> QED BY <1>1, <1>2, <1>3 DEF Unmoved

\* What the interpreter leaves are the lanes the instruction computed.
LEMMA Executed ==
    ASSUME NEW c \in Plain, NEW o \in VVV, NEW l,
           NEW t, t = Lanewise(Interpreter(c), o, l), NEW r, r = Interpreted(t)
    PROVE  /\ r.acc = [low |-> [i \in Lanes |-> l[i].lo], mid |-> [i \in Lanes |-> l[i].mid],
                       high |-> [i \in Lanes |-> l[i].hi]]
           /\ r.vpr[o.vd] = [i \in Lanes |-> l[i].d]
<1> DEFINE s == Interpreter(c)
           d == [i \in Lanes |-> l[i].d]
           a == [low |-> [i \in Lanes |-> l[i].lo], mid |-> [i \in Lanes |-> l[i].mid],
                 high |-> [i \in Lanes |-> l[i].hi]]
           co == [i \in Lanes |-> l[i].co]
           cox == [i \in Lanes |-> l[i].cox]
           cc == [i \in Lanes |-> l[i].cc]
           ccx == [i \in Lanes |-> l[i].ccx]
           ce == [i \in Lanes |-> l[i].ce]
<1>1. t = [s EXCEPT !.vpr[o.vd] = d, !.acc = a, !.co = co, !.cox = cox, !.cc = cc, !.ccx = ccx, !.ce = ce]
  BY Zenon DEF Lanewise
<1>2. Fields \subseteq DOMAIN s /\ s.vpr = [k \in Vprs |-> Vpr(k)]
  BY StartFacts
<1>3. o.vd \in Vprs
  BY VectorOperands
<1> HIDE DEF s, d, a, co, cox, cc, ccx, ce
<1>4. "acc" \in DOMAIN s /\ "vpr" \in DOMAIN s
  BY <1>2 DEF Fields
<1>5. DOMAIN t = DOMAIN s /\ t.acc = a /\ t.vpr = [s.vpr EXCEPT ![o.vd] = d]
  BY <1>1, <1>4
<1>6. t.vpr[o.vd] = d
  BY <1>2, <1>3, <1>5
<1>7. Unmoved(t, I!Stepped(t))
  BY <1>2, <1>5, SteppedUnmoved
<1>8. r.acc = I!Stepped(t).acc /\ r.vpr = I!Stepped(t).vpr
  BY DEF Interpreted, Outcome
<1>9. r.acc = a /\ r.vpr[o.vd] = d
  BY <1>5, <1>6, <1>7, <1>8 DEF Unmoved
<1> QED BY <1>9 DEF a, d

(***************************************************************************)
(* The twelve instructions.                                                *)
(***************************************************************************)
LEMMA LanewiseForms ==
    ASSUME NEW s, NEW o
    PROVE  /\ vmacf(s, o) = Lanewise(s, o, [i \in Lanes |-> vmacfLane(LaneOf(s, o, i))])
           /\ vmacu(s, o) = Lanewise(s, o, [i \in Lanes |-> vmacuLane(LaneOf(s, o, i))])
           /\ vmadl(s, o) = Lanewise(s, o, [i \in Lanes |-> vmadlLane(LaneOf(s, o, i))])
           /\ vmadm(s, o) = Lanewise(s, o, [i \in Lanes |-> vmadmLane(LaneOf(s, o, i))])
           /\ vmadn(s, o) = Lanewise(s, o, [i \in Lanes |-> vmadnLane(LaneOf(s, o, i))])
           /\ vmadh(s, o) = Lanewise(s, o, [i \in Lanes |-> vmadhLane(LaneOf(s, o, i))])
           /\ vmulf(s, o) = Lanewise(s, o, [i \in Lanes |-> vmulfLane(LaneOf(s, o, i))])
           /\ vmulu(s, o) = Lanewise(s, o, [i \in Lanes |-> vmuluLane(LaneOf(s, o, i))])
           /\ vmudl(s, o) = Lanewise(s, o, [i \in Lanes |-> vmudlLane(LaneOf(s, o, i))])
           /\ vmudm(s, o) = Lanewise(s, o, [i \in Lanes |-> vmudmLane(LaneOf(s, o, i))])
           /\ vmudn(s, o) = Lanewise(s, o, [i \in Lanes |-> vmudnLane(LaneOf(s, o, i))])
           /\ vmudh(s, o) = Lanewise(s, o, [i \in Lanes |-> vmudhLane(LaneOf(s, o, i))])
<1>1. vmacf(s, o) = Lanewise(s, o, [i \in Lanes |-> vmacfLane(LaneOf(s, o, i))])
  BY Zenon DEF vmacf, vmacfLane, ByLane, Lanewise
<1>2. vmacu(s, o) = Lanewise(s, o, [i \in Lanes |-> vmacuLane(LaneOf(s, o, i))])
  BY Zenon DEF vmacu, vmacuLane, ByLane, Lanewise
<1>3. vmadl(s, o) = Lanewise(s, o, [i \in Lanes |-> vmadlLane(LaneOf(s, o, i))])
  BY Zenon DEF vmadl, vmadlLane, ByLane, Lanewise
<1>4. vmadm(s, o) = Lanewise(s, o, [i \in Lanes |-> vmadmLane(LaneOf(s, o, i))])
  BY Zenon DEF vmadm, vmadmLane, MixedSum, ByLane, Lanewise
<1>5. vmadn(s, o) = Lanewise(s, o, [i \in Lanes |-> vmadnLane(LaneOf(s, o, i))])
  BY Zenon DEF vmadn, vmadnLane, MixedSum, ByLane, Lanewise
<1>6. vmadh(s, o) = Lanewise(s, o, [i \in Lanes |-> vmadhLane(LaneOf(s, o, i))])
  BY Zenon DEF vmadh, vmadhLane, ByLane, Lanewise
<1>7. vmulf(s, o) = Lanewise(s, o, [i \in Lanes |-> vmulfLane(LaneOf(s, o, i))])
  BY Zenon DEF vmulf, vmulfLane, ByLane, Lanewise
<1>8. vmulu(s, o) = Lanewise(s, o, [i \in Lanes |-> vmuluLane(LaneOf(s, o, i))])
  BY Zenon DEF vmulu, vmuluLane, ByLane, Lanewise
<1>9. vmudl(s, o) = Lanewise(s, o, [i \in Lanes |-> vmudlLane(LaneOf(s, o, i))])
  BY Zenon DEF vmudl, vmudlLane, ByLane, Lanewise
<1>10. vmudm(s, o) = Lanewise(s, o, [i \in Lanes |-> vmudmLane(LaneOf(s, o, i))])
  BY Zenon DEF vmudm, vmudmLane, ByLane, Lanewise
<1>11. vmudn(s, o) = Lanewise(s, o, [i \in Lanes |-> vmudnLane(LaneOf(s, o, i))])
  BY Zenon DEF vmudn, vmudnLane, ByLane, Lanewise
<1>12. vmudh(s, o) = Lanewise(s, o, [i \in Lanes |-> vmudhLane(LaneOf(s, o, i))])
  BY Zenon DEF vmudh, vmudhLane, ByLane, Lanewise
<1> QED BY <1>1, <1>2, <1>3, <1>4, <1>5, <1>6, <1>7, <1>8, <1>9, <1>10, <1>11, <1>12

\* What AccumulatorIsSum says of lane i.
LaneIsSum(i) ==
  LET left == Accumulator(interp.acc.low, interp.acc.mid, interp.acc.high, i) IN
  /\ left = (Product(i) + (IF instr \in Accumulating THEN Found(i) ELSE 0)) % Modulus
  /\ instr \in {"vmacf", "vmulf", "vmadm", "vmudm", "vmadh", "vmudh"} =>
       interp.vpr[ops.vd][i] =
         SatS((IF 2 * left < Modulus THEN left ELSE left - Modulus) \div 2^H)

\* Lane i was l before the instruction and is m after it.
Became(i, l, m) ==
  /\ l \in LaneRecord
  /\ Vpr(ops.vs)[i] = l.s /\ Broadcasted(Vpr(ops.vt), ops.e)[i] = l.t
  /\ Found(i) = Acc(l)
  /\ Accumulator(interp.acc.low, interp.acc.mid, interp.acc.high, i) = Acc(m)
  /\ interp.vpr[ops.vd][i] = m.d

\* The run of an instruction seen from lane i.
LEMMA LaneBecame ==
    ASSUME data \in Inputs, data' = data, NEW c \in Plain, NEW o \in VVV, ops' = With(o, c),
           NEW f, interp' = Interpreted(Lanewise(Interpreter(c), o, f)),
           NEW i \in Lanes, NEW l, l = LaneOf(Interpreter(c), o, i), NEW m, m = f[i]
    PROVE  Became(i, l, m)' /\ l \in LaneRecord
<1>1. /\ l \in LaneRecord
      /\ l.s = Vpr(o.vs)[i] /\ l.t = Broadcasted(Vpr(o.vt), o.e)[i]
      /\ l.lo = data.lo[i] /\ l.mid = data.mid[i] /\ l.hi = data.hi[i]
  BY LaneTypes
<1>2. ops'.vs = o.vs /\ ops'.vt = o.vt /\ ops'.vd = o.vd /\ ops'.e = o.e
  BY OperandsKept
<1>3. \A r : Vpr(r)' = Vpr(r)
  BY DEF Vpr
<1>4. (Vpr(ops.vs)[i])' = l.s /\ (Broadcasted(Vpr(ops.vt), ops.e)[i])' = l.t
  <2>1. (Vpr(ops.vs)[i])' = Vpr(o.vs)[i]
    BY <1>2, <1>3
  <2>2. (Broadcasted(Vpr(ops.vt), ops.e)[i])' = Broadcasted(Vpr(o.vt), o.e)[i]
    BY <1>2, <1>3
  <2> QED BY <1>1, <2>1, <2>2
<1>5. Found(i)' = data.lo[i] + Base * data.mid[i] + Base * Base * data.hi[i]
  BY DEF Found, Accumulator, Base
<1>6. Found(i)' = Acc(l)
  BY <1>1, <1>5 DEF Acc
<1>7. /\ interp'.acc = [low |-> [k \in Lanes |-> f[k].lo], mid |-> [k \in Lanes |-> f[k].mid],
                        high |-> [k \in Lanes |-> f[k].hi]]
      /\ interp'.vpr[o.vd] = [k \in Lanes |-> f[k].d]
  BY Executed
<1>8. interp'.acc.low[i] = m.lo /\ interp'.acc.mid[i] = m.mid /\ interp'.acc.high[i] = m.hi
      /\ interp'.vpr[ops'.vd][i] = m.d
  BY <1>2, <1>7
<1>9. Accumulator(interp.acc.low, interp.acc.mid, interp.acc.high, i)' = Acc(m)
  BY <1>8 DEF Accumulator, Acc, Base
<1> QED BY <1>1, <1>4, <1>6, <1>8, <1>9 DEF Became

\* The modulus of the property is that of the lemmas.
LEMMA ModulusIsCube == Modulus = Cube /\ Base = 2^H /\ Half = 2^(H - 1)
BY DEF Modulus, Cube, Base, Half

\* The product each instruction adds or leaves.
ProductOf(name, l) ==
  CASE name \in {"vmacf", "vmacu"} -> 2 * Fraction(l)
    [] name \in {"vmulf", "vmulu"} -> 2 * Fraction(l) + Half
    [] name \in {"vmadl", "vmudl"} -> (l.s * l.t) \div Base
    [] name \in {"vmadm", "vmudm"} -> Sl(l.s) * l.t
    [] name \in {"vmadn", "vmudn"} -> l.s * Sl(l.t)
    [] name \in {"vmadh", "vmudh"} -> Base * Fraction(l)
Saturating == {"vmacf", "vmulf", "vmadm", "vmudm", "vmadh", "vmudh"}

\* The product of two fractions.
LEMMA FractionTypes ==
    ASSUME NEW l \in LaneRecord
    PROVE  /\ Fraction(l) \in Int
           /\ 2 * Sl(l.s) * Sl(l.t) = 2 * Fraction(l)
           /\ Base * Sl(l.s) * Sl(l.t) = Base * Fraction(l)
<1> DEFINE x == Sl(l.s) y == Sl(l.t)
<1>1. x \in Int /\ y \in Int /\ Base \in Int
  BY SlFacts, Widths DEF LaneRecord
<1> HIDE DEF x, y
<1>2. x * y \in Int /\ 2 * x * y = 2 * (x * y) /\ Base * x * y = Base * (x * y)
  BY <1>1
<1> QED BY <1>2 DEF x, y, Fraction

\* The product that the property names is the one of the lane.
LEMMA ProductIs ==
    ASSUME NEW i \in Lanes, NEW l, NEW m, Became(i, l, m)', instr' \in Accumulating \cup Multiplying
    PROVE  Product(i)' = ProductOf(instr', l)
<1> DEFINE name == instr'
<1>1. (Vpr(ops.vs)[i])' = l.s /\ (Broadcasted(Vpr(ops.vt), ops.e)[i])' = l.t /\ l \in LaneRecord
  BY DEF Became
<1>2. Product(i)' =
        CASE name \in {"vmacf", "vmacu"} -> 2 * Sl(l.s) * Sl(l.t)
          [] name \in {"vmulf", "vmulu"} -> 2 * Sl(l.s) * Sl(l.t) + Half
          [] name \in {"vmadl", "vmudl"} -> (l.s * l.t) \div Base
          [] name \in {"vmadm", "vmudm"} -> Sl(l.s) * l.t
          [] name \in {"vmadn", "vmudn"} -> l.s * Sl(l.t)
          [] name \in {"vmadh", "vmudh"} -> Base * Sl(l.s) * Sl(l.t)
  BY <1>1, Zenon DEF Product, Base, Half
<1>3. 2 * Sl(l.s) * Sl(l.t) = 2 * Fraction(l) /\ Base * Sl(l.s) * Sl(l.t) = Base * Fraction(l)
  BY <1>1, FractionTypes
<1> QED BY <1>2, <1>3, Zenon DEF ProductOf

\* From what a lane holds to what the property says of it.
LEMMA LaneSum ==
    ASSUME NEW i \in Lanes, NEW l, NEW m, Became(i, l, m)', instr' \in Accumulating \cup Multiplying,
           NEW x \in Int, x = ProductOf(instr', l),
           Holds(m, IF instr' \in Accumulating THEN x + Acc(l) ELSE x),
           instr' \in Saturating => Saturated(m)
    PROVE  LaneIsSum(i)'
<1>1. Product(i)' = x /\ Found(i)' = Acc(l)
  BY ProductIs DEF Became
<1>2. Accumulator(interp.acc.low, interp.acc.mid, interp.acc.high, i)' = Acc(m)
      /\ interp'.vpr[ops'.vd][i] = m.d
  BY DEF Became
<1>3. Acc(m) = (IF instr' \in Accumulating THEN x + Acc(l) ELSE x) % Modulus
  BY ModulusIsCube DEF Holds
<1>4. instr' \in Saturating =>
        m.d = SatS((IF 2 * Acc(m) < Modulus THEN Acc(m) ELSE Acc(m) - Modulus) \div 2^H)
  BY ModulusIsCube, Zenon DEF Saturated
<1>5. x + (IF instr' \in Accumulating THEN Acc(l) ELSE 0) =
        IF instr' \in Accumulating THEN x + Acc(l) ELSE x
  OBVIOUS
<1>6. Acc(m) = (Product(i)' + (IF instr' \in Accumulating THEN Found(i)' ELSE 0)) % Modulus
  BY <1>1, <1>3, <1>5, Zenon
<1>7. instr' \in Saturating => interp'.vpr[ops'.vd][i] =
        SatS((IF 2 * Acc(m) < Modulus THEN Acc(m) ELSE Acc(m) - Modulus) \div 2^H)
  BY <1>2, <1>4, Zenon
<1> HIDE DEF Accumulator
<1> QED BY <1>2, <1>6, <1>7, Zenon DEF LaneIsSum, Saturating

\* The lane l is left as m by the instruction.
LaneCorrect(name, l, m) ==
  /\ ProductOf(name, l) \in Int
  /\ Holds(m, IF name \in Accumulating THEN ProductOf(name, l) + Acc(l) ELSE ProductOf(name, l))
  /\ name \in Saturating => Saturated(m)

\* It, instruction by instruction.
LEMMA ProductForms ==
    /\ \A l : ProductOf("vmacf", l) = 2 * Fraction(l) /\ ProductOf("vmacu", l) = 2 * Fraction(l)
    /\ \A l : ProductOf("vmulf", l) = 2 * Fraction(l) + Half /\ ProductOf("vmulu", l) = 2 * Fraction(l) + Half
    /\ \A l : ProductOf("vmadl", l) = (l.s * l.t) \div Base /\ ProductOf("vmudl", l) = (l.s * l.t) \div Base
    /\ \A l : ProductOf("vmadm", l) = Sl(l.s) * l.t /\ ProductOf("vmudm", l) = Sl(l.s) * l.t
    /\ \A l : ProductOf("vmadn", l) = l.s * Sl(l.t) /\ ProductOf("vmudn", l) = l.s * Sl(l.t)
    /\ \A l : ProductOf("vmadh", l) = Base * Fraction(l) /\ ProductOf("vmudh", l) = Base * Fraction(l)
BY DEF ProductOf

\* Each instruction leaves each lane as it should be.
LEMMA LanesCorrect ==
    ASSUME NEW l \in LaneRecord
    PROVE  /\ LaneCorrect("vmacf", l, vmacfLane(l)) /\ LaneCorrect("vmacu", l, vmacuLane(l))
           /\ LaneCorrect("vmadl", l, vmadlLane(l)) /\ LaneCorrect("vmadm", l, vmadmLane(l))
           /\ LaneCorrect("vmadn", l, vmadnLane(l)) /\ LaneCorrect("vmadh", l, vmadhLane(l))
           /\ LaneCorrect("vmulf", l, vmulfLane(l)) /\ LaneCorrect("vmulu", l, vmuluLane(l))
           /\ LaneCorrect("vmudl", l, vmudlLane(l)) /\ LaneCorrect("vmudm", l, vmudmLane(l))
           /\ LaneCorrect("vmudn", l, vmudnLane(l)) /\ LaneCorrect("vmudh", l, vmudhLane(l))
<1>1. l.s \in Lane /\ l.t \in Lane
  BY DEF LaneRecord
<1>2. /\ l.s * Sl(l.t) \in Int /\ Sl(l.s) * l.t \in Int /\ l.s * l.t \in Int /\ Fraction(l) \in Int
  BY <1>1, ProductTypes, FractionTypes
<1>3. Base \in Nat /\ Base > 0 /\ Half \in Int
  BY Widths
<1>4. 2 * Fraction(l) \in Int /\ 2 * Fraction(l) + Half \in Int /\ Base * Fraction(l) \in Int
  BY <1>2, <1>3
<1>5. (l.s * l.t) \div Base \in Int
  BY <1>2, <1>3, Division
<1>6. LaneCorrect("vmacf", l, vmacfLane(l)) /\ LaneCorrect("vmacu", l, vmacuLane(l))
  BY <1>4, ProductForms, vmacfAdds DEF LaneCorrect, Accumulating, Saturating
<1>7. LaneCorrect("vmadl", l, vmadlLane(l))
  BY <1>5, ProductForms, vmadlAdds DEF LaneCorrect, Accumulating, Saturating
<1>8. LaneCorrect("vmadm", l, vmadmLane(l))
  BY <1>2, ProductForms, vmadmAdds DEF LaneCorrect, Accumulating, Saturating
<1>9. LaneCorrect("vmadn", l, vmadnLane(l))
  BY <1>2, ProductForms, vmadnAdds DEF LaneCorrect, Accumulating, Saturating
<1>10. LaneCorrect("vmadh", l, vmadhLane(l))
  BY <1>4, ProductForms, vmadhAdds DEF LaneCorrect, Accumulating, Saturating
<1>11. LaneCorrect("vmulf", l, vmulfLane(l)) /\ LaneCorrect("vmulu", l, vmuluLane(l))
  BY <1>4, ProductForms, vmulfLeaves DEF LaneCorrect, Accumulating, Saturating
<1>12. LaneCorrect("vmudl", l, vmudlLane(l))
  BY <1>5, ProductForms, vmudlLeaves DEF LaneCorrect, Accumulating, Saturating
<1>13. LaneCorrect("vmudm", l, vmudmLane(l))
  BY <1>2, ProductForms, vmudmLeaves DEF LaneCorrect, Accumulating, Saturating
<1>14. LaneCorrect("vmudn", l, vmudnLane(l))
  BY <1>2, ProductForms, vmudnLeaves DEF LaneCorrect, Accumulating, Saturating
<1>15. LaneCorrect("vmudh", l, vmudhLane(l))
  BY <1>4, ProductForms, vmudhLeaves DEF LaneCorrect, Accumulating, Saturating
<1> QED BY <1>6, <1>7, <1>8, <1>9, <1>10, <1>11, <1>12, <1>13, <1>14, <1>15

\* An instruction that is correct lane by lane leaves the property true.
LEMMA LanesMakeTheSum ==
    ASSUME data \in Inputs, data' = data, NEW c \in Plain, NEW o \in VVV, ops' = With(o, c),
           instr' \in Accumulating \cup Multiplying,
           NEW f, interp' = Interpreted(Lanewise(Interpreter(c), o, f)),
           \A i \in Lanes : LET l == LaneOf(Interpreter(c), o, i) IN
             l \in LaneRecord => LaneCorrect(instr', l, f[i])
    PROVE  AccumulatorIsSum'
<1>1. ASSUME NEW i \in Lanes PROVE LaneIsSum(i)'
  <2>1. PICK l : l = LaneOf(Interpreter(c), o, i)
    OBVIOUS
  <2>2. PICK m : m = f[i]
    OBVIOUS
  <2>3. Became(i, l, m)' /\ l \in LaneRecord
    BY <2>1, <2>2, LaneBecame
  <2>4. LaneCorrect(instr', l, m)
    BY <2>1, <2>2, <2>3, Zenon
  <2>5. PICK x : x = ProductOf(instr', l)
    OBVIOUS
  <2>6. /\ x \in Int
        /\ Holds(m, IF instr' \in Accumulating THEN x + Acc(l) ELSE x)
        /\ instr' \in Saturating => Saturated(m)
    BY <2>4, <2>5, Zenon DEF LaneCorrect
  <2> QED BY <2>3, <2>5, <2>6, LaneSum
<1>2. AccumulatorIsSum' <=>
        (instr' \in Accumulating \cup Multiplying => \A i \in Lanes : LaneIsSum(i)')
  BY Zenon DEF AccumulatorIsSum, LaneIsSum
<1> QED BY <1>1, <1>2, Zenon

\* The run of an instruction that computes m from lane l, for every lane.
Ran(name, c, o, f) ==
  /\ instr' = name /\ data' = data /\ ops' = With(o, c)
  /\ interp' = Interpreted(Lanewise(Interpreter(c), o, f))

\* The same for a run of the instruction.
LEMMA CorrectRun ==
    ASSUME data \in Inputs, NEW name \in Accumulating \cup Multiplying, NEW c \in Plain, NEW o \in VVV,
           NEW f, Ran(name, c, o, f),
           \A i \in Lanes : LET l == LaneOf(Interpreter(c), o, i) IN
             l \in LaneRecord => LaneCorrect(name, l, f[i])
    PROVE  AccumulatorIsSum' /\ data' = data
BY LanesMakeTheSum, Zenon DEF Ran

\* Each of the twelve instructions makes the property true.
LEMMA ProductRuns ==
    ASSUME data \in Inputs,
           \/ Run("vmacf", VVV, Plain, vmacf, JV!vmacf)
           \/ Run("vmacu", VVV, Plain, vmacu, JV!vmacu)
           \/ Run("vmadl", VVV, Plain, vmadl, JV!vmadl)
           \/ Run("vmadm", VVV, Plain, vmadm, JV!vmadm)
           \/ Run("vmadn", VVV, Plain, vmadn, JV!vmadn)
           \/ Run("vmadh", VVV, Plain, vmadh, JV!vmadh)
           \/ Run("vmulf", VVV, Plain, vmulf, JV!vmulf)
           \/ Run("vmulu", VVV, Plain, vmulu, JV!vmulu)
           \/ Run("vmudl", VVV, Plain, vmudl, JV!vmudl)
           \/ Run("vmudm", VVV, Plain, vmudm, JV!vmudm)
           \/ Run("vmudn", VVV, Plain, vmudn, JV!vmudn)
           \/ Run("vmudh", VVV, Plain, vmudh, JV!vmudh)
    PROVE  AccumulatorIsSum' /\ data' = data
<1>1. CASE Run("vmacf", VVV, Plain, vmacf, JV!vmacf)
  <2>1. PICK o \in VVV, c \in Plain :
          ops' = With(o, c) /\ interp' = Interpreted(vmacf(Interpreter(c), o))
    BY <1>1, Zenon DEF Run
  <2>2. PICK f : f = [i \in Lanes |-> vmacfLane(LaneOf(Interpreter(c), o, i))]
    OBVIOUS
  <2>3. Ran("vmacf", c, o, f)
    BY <1>1, <2>1, <2>2, LanewiseForms, Zenon DEF Run, Ran
  <2> QED BY <2>2, <2>3, LanesCorrect, CorrectRun DEF Accumulating, Multiplying
<1>2. CASE Run("vmacu", VVV, Plain, vmacu, JV!vmacu)
  <2>1. PICK o \in VVV, c \in Plain :
          ops' = With(o, c) /\ interp' = Interpreted(vmacu(Interpreter(c), o))
    BY <1>2, Zenon DEF Run
  <2>2. PICK f : f = [i \in Lanes |-> vmacuLane(LaneOf(Interpreter(c), o, i))]
    OBVIOUS
  <2>3. Ran("vmacu", c, o, f)
    BY <1>2, <2>1, <2>2, LanewiseForms, Zenon DEF Run, Ran
  <2> QED BY <2>2, <2>3, LanesCorrect, CorrectRun DEF Accumulating, Multiplying
<1>3. CASE Run("vmadl", VVV, Plain, vmadl, JV!vmadl)
  <2>1. PICK o \in VVV, c \in Plain :
          ops' = With(o, c) /\ interp' = Interpreted(vmadl(Interpreter(c), o))
    BY <1>3, Zenon DEF Run
  <2>2. PICK f : f = [i \in Lanes |-> vmadlLane(LaneOf(Interpreter(c), o, i))]
    OBVIOUS
  <2>3. Ran("vmadl", c, o, f)
    BY <1>3, <2>1, <2>2, LanewiseForms, Zenon DEF Run, Ran
  <2> QED BY <2>2, <2>3, LanesCorrect, CorrectRun DEF Accumulating, Multiplying
<1>4. CASE Run("vmadm", VVV, Plain, vmadm, JV!vmadm)
  <2>1. PICK o \in VVV, c \in Plain :
          ops' = With(o, c) /\ interp' = Interpreted(vmadm(Interpreter(c), o))
    BY <1>4, Zenon DEF Run
  <2>2. PICK f : f = [i \in Lanes |-> vmadmLane(LaneOf(Interpreter(c), o, i))]
    OBVIOUS
  <2>3. Ran("vmadm", c, o, f)
    BY <1>4, <2>1, <2>2, LanewiseForms, Zenon DEF Run, Ran
  <2> QED BY <2>2, <2>3, LanesCorrect, CorrectRun DEF Accumulating, Multiplying
<1>5. CASE Run("vmadn", VVV, Plain, vmadn, JV!vmadn)
  <2>1. PICK o \in VVV, c \in Plain :
          ops' = With(o, c) /\ interp' = Interpreted(vmadn(Interpreter(c), o))
    BY <1>5, Zenon DEF Run
  <2>2. PICK f : f = [i \in Lanes |-> vmadnLane(LaneOf(Interpreter(c), o, i))]
    OBVIOUS
  <2>3. Ran("vmadn", c, o, f)
    BY <1>5, <2>1, <2>2, LanewiseForms, Zenon DEF Run, Ran
  <2> QED BY <2>2, <2>3, LanesCorrect, CorrectRun DEF Accumulating, Multiplying
<1>6. CASE Run("vmadh", VVV, Plain, vmadh, JV!vmadh)
  <2>1. PICK o \in VVV, c \in Plain :
          ops' = With(o, c) /\ interp' = Interpreted(vmadh(Interpreter(c), o))
    BY <1>6, Zenon DEF Run
  <2>2. PICK f : f = [i \in Lanes |-> vmadhLane(LaneOf(Interpreter(c), o, i))]
    OBVIOUS
  <2>3. Ran("vmadh", c, o, f)
    BY <1>6, <2>1, <2>2, LanewiseForms, Zenon DEF Run, Ran
  <2> QED BY <2>2, <2>3, LanesCorrect, CorrectRun DEF Accumulating, Multiplying
<1>7. CASE Run("vmulf", VVV, Plain, vmulf, JV!vmulf)
  <2>1. PICK o \in VVV, c \in Plain :
          ops' = With(o, c) /\ interp' = Interpreted(vmulf(Interpreter(c), o))
    BY <1>7, Zenon DEF Run
  <2>2. PICK f : f = [i \in Lanes |-> vmulfLane(LaneOf(Interpreter(c), o, i))]
    OBVIOUS
  <2>3. Ran("vmulf", c, o, f)
    BY <1>7, <2>1, <2>2, LanewiseForms, Zenon DEF Run, Ran
  <2> QED BY <2>2, <2>3, LanesCorrect, CorrectRun DEF Accumulating, Multiplying
<1>8. CASE Run("vmulu", VVV, Plain, vmulu, JV!vmulu)
  <2>1. PICK o \in VVV, c \in Plain :
          ops' = With(o, c) /\ interp' = Interpreted(vmulu(Interpreter(c), o))
    BY <1>8, Zenon DEF Run
  <2>2. PICK f : f = [i \in Lanes |-> vmuluLane(LaneOf(Interpreter(c), o, i))]
    OBVIOUS
  <2>3. Ran("vmulu", c, o, f)
    BY <1>8, <2>1, <2>2, LanewiseForms, Zenon DEF Run, Ran
  <2> QED BY <2>2, <2>3, LanesCorrect, CorrectRun DEF Accumulating, Multiplying
<1>9. CASE Run("vmudl", VVV, Plain, vmudl, JV!vmudl)
  <2>1. PICK o \in VVV, c \in Plain :
          ops' = With(o, c) /\ interp' = Interpreted(vmudl(Interpreter(c), o))
    BY <1>9, Zenon DEF Run
  <2>2. PICK f : f = [i \in Lanes |-> vmudlLane(LaneOf(Interpreter(c), o, i))]
    OBVIOUS
  <2>3. Ran("vmudl", c, o, f)
    BY <1>9, <2>1, <2>2, LanewiseForms, Zenon DEF Run, Ran
  <2> QED BY <2>2, <2>3, LanesCorrect, CorrectRun DEF Accumulating, Multiplying
<1>10. CASE Run("vmudm", VVV, Plain, vmudm, JV!vmudm)
  <2>1. PICK o \in VVV, c \in Plain :
          ops' = With(o, c) /\ interp' = Interpreted(vmudm(Interpreter(c), o))
    BY <1>10, Zenon DEF Run
  <2>2. PICK f : f = [i \in Lanes |-> vmudmLane(LaneOf(Interpreter(c), o, i))]
    OBVIOUS
  <2>3. Ran("vmudm", c, o, f)
    BY <1>10, <2>1, <2>2, LanewiseForms, Zenon DEF Run, Ran
  <2> QED BY <2>2, <2>3, LanesCorrect, CorrectRun DEF Accumulating, Multiplying
<1>11. CASE Run("vmudn", VVV, Plain, vmudn, JV!vmudn)
  <2>1. PICK o \in VVV, c \in Plain :
          ops' = With(o, c) /\ interp' = Interpreted(vmudn(Interpreter(c), o))
    BY <1>11, Zenon DEF Run
  <2>2. PICK f : f = [i \in Lanes |-> vmudnLane(LaneOf(Interpreter(c), o, i))]
    OBVIOUS
  <2>3. Ran("vmudn", c, o, f)
    BY <1>11, <2>1, <2>2, LanewiseForms, Zenon DEF Run, Ran
  <2> QED BY <2>2, <2>3, LanesCorrect, CorrectRun DEF Accumulating, Multiplying
<1>12. CASE Run("vmudh", VVV, Plain, vmudh, JV!vmudh)
  <2>1. PICK o \in VVV, c \in Plain :
          ops' = With(o, c) /\ interp' = Interpreted(vmudh(Interpreter(c), o))
    BY <1>12, Zenon DEF Run
  <2>2. PICK f : f = [i \in Lanes |-> vmudhLane(LaneOf(Interpreter(c), o, i))]
    OBVIOUS
  <2>3. Ran("vmudh", c, o, f)
    BY <1>12, <2>1, <2>2, LanewiseForms, Zenon DEF Run, Ran
  <2> QED BY <2>2, <2>3, LanesCorrect, CorrectRun DEF Accumulating, Multiplying
<1> QED BY <1>1, <1>2, <1>3, <1>4, <1>5, <1>6, <1>7, <1>8, <1>9, <1>10, <1>11, <1>12

\* The other instructions are none the property is about.
OtherRun == data' = data /\ instr' \notin Accumulating \cup Multiplying

\* No other instruction is one the property is about.
LEMMA AluRuns == Alu => OtherRun
BY DEF Alu, Run, OtherRun, Accumulating, Multiplying
LEMMA BranchRuns == BranchInstructions => OtherRun
BY DEF BranchInstructions, Run, OtherRun, Accumulating, Multiplying
LEMMA MemoryRuns == MemoryInstructions => OtherRun
BY DEF MemoryInstructions, Run, OtherRun, Accumulating, Multiplying
LEMMA VectorMemoryRuns == VectorMemory => OtherRun
BY DEF VectorMemory, Run, OtherRun, Accumulating, Multiplying
LEMMA SelectRuns == Selects => OtherRun
BY DEF Selects, Run, OtherRun, Accumulating, Multiplying
LEMMA DivisionRuns == Divisions => OtherRun
BY DEF Divisions, Run, OtherRun, Accumulating, Multiplying

\* Every multiplication keeps the property.
LEMMA ProductsRuns ==
    ASSUME data \in Inputs, Products
    PROVE  AccumulatorIsSum' /\ data' = data
<1>1. \/ Run("vmacq", VVV, Plain, vmacq, JV!vmacq) \/ Run("vmulq", VVV, Plain, vmulq, JV!vmulq)
      \/ Run("vrndn", VVV, Plain, vrndn, JV!vrndn) \/ Run("vrndp", VVV, Plain, vrndp, JV!vrndp)
      => OtherRun
  BY DEF Run, OtherRun, Accumulating, Multiplying
<1>2. OtherRun => AccumulatorIsSum' /\ data' = data
  BY Zenon DEF OtherRun, AccumulatorIsSum
<1> QED BY <1>1, <1>2, ProductRuns, Zenon DEF Products

RspInv == data \in Inputs /\ AccumulatorIsSum

\* Nothing has run at first, and the operands are among the inputs.
LEMMA RspInvInit == RspInit => RspInv
BY DEF RspInit, RspInv, AccumulatorIsSum, Accumulating, Multiplying

\* Every instruction keeps the invariant.
LEMMA RspInvNext == RspInv /\ [RspNext]_rspVars => RspInv'
<1> SUFFICES ASSUME RspInv, [RspNext]_rspVars PROVE RspInv'
  OBVIOUS
<1>1. data \in Inputs
  BY DEF RspInv
<1>2. CASE RspNext
  <2>1. OtherRun \/ Products
    BY <1>2, AluRuns, BranchRuns, MemoryRuns, VectorMemoryRuns, SelectRuns, DivisionRuns, Zenon
       DEF RspNext, Scalar, Vector
  <2>2. CASE OtherRun
    BY <1>1, <2>2, Zenon DEF OtherRun, RspInv, AccumulatorIsSum
  <2>3. CASE Products
    BY <1>1, <2>3, ProductsRuns DEF RspInv
  <2> QED BY <2>1, <2>2, <2>3
<1>3. CASE UNCHANGED rspVars
  BY <1>3, Zenon DEF RspInv, rspVars, AccumulatorIsSum, Accumulator, Found, Product, Vpr
<1> QED BY <1>2, <1>3

\* Whatever the width of a lane, the vectors, the element that is broadcast and
\* what the accumulator held, each multiplication of vu_interpreter.cpp leaves the
\* sum of products it stands for, modulo 2^48, and the signed ones its upper part,
\* saturated, in the register.
THEOREM AccumulatorHoldsTheSum == RspSpec => []AccumulatorIsSum
<1>1. RspInv => AccumulatorIsSum
  BY DEF RspInv
<1> QED BY <1>1, RspInvInit, RspInvNext, PTL DEF RspSpec
=============================================================================
