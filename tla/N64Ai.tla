------------------------------- MODULE N64Ai -------------------------------
(***************************************************************************)
(* The audio interface (n64/interface/ai.cpp): a queue of two buffers that *)
(* the scheduler's Step plays, and the driver of a program that fills it.  *)
(*                                                                         *)
(* The driver is the one interrupts are made for: it primes the queue,     *)
(* acknowledges each interrupt and then queues one buffer or more with a   *)
(* store to AI_DRAM_ADDR and one to AI_LEN; the sampler may run between    *)
(* any two of its stores.  Addresses and lengths count samples (4 bytes).  *)
(***************************************************************************)
EXTENDS N64DeviceLines, Integers, Sequences

CONSTANTS
    Space,        \* the samples of the address space (2^32 bytes)
    Page,         \* the samples of a page (0x2000 bytes)
    NoAddr,
    Addresses,    \* what the program writes to AI_DRAM_ADDR
    Lengths,      \* what it writes to AI_LEN
    Periods,      \* values of dac_period that AI_DACRATE can select
    StepCycles    \* what the scheduler passes to Step

ASSUME AiAssumption ==
    /\ Page \in Nat \ {0} /\ Space \in Nat \ {0} /\ Space % Page = 0
    /\ NoAddr \notin Nat
    /\ Addresses \subseteq 0 .. Space - 1 /\ Lengths \subseteq Nat
    /\ Periods \subseteq Nat \ {0}
    /\ StepCycles \subseteq Nat

VARIABLES
    cycles, dac_period, dma_count, dma_enable,
    dma_addr, dma_len, \* entry 0 is played, entry 1 waits
    stepping,          \* Step is in its loop
    driver,            \* what the driver does next
    latch              \* history: the address given for the next AI_LEN, if that
                       \* entry is still where AI_LEN will go

aiRegisters == <<dma_count, dma_enable, dma_addr, dma_len>>

AiInit ==
    /\ lines = {}
    /\ cycles = 0 /\ dac_period \in Periods
    /\ dma_count = 0 /\ dma_enable = FALSE
    /\ dma_addr = [i \in 0 .. 1 |-> 0] /\ dma_len = [i \in 0 .. 1 |-> 0]
    /\ stepping = FALSE
    /\ driver = "prime"
    /\ latch = NoAddr

-----------------------------------------------------------------------------
(* The registers.                                                          *)

\* A full queue ignores the address.
WriteDramAddr(a) ==
    /\ dma_addr' = IF dma_count < 2 THEN [dma_addr EXCEPT ![dma_count] = a]
                   ELSE dma_addr
    /\ latch' = IF dma_count < 2 THEN a ELSE NoAddr
    /\ UNCHANGED <<dma_count, dma_len>>

\* Faulty: the first buffer raises no interrupt.
WriteSilentLen(len) ==
    /\ IF dma_count < 2
       THEN /\ dma_len' = [dma_len EXCEPT ![dma_count] = len]
            /\ dma_count' = dma_count + 1
       ELSE UNCHANGED <<dma_len, dma_count>>
    /\ latch' = NoAddr
    /\ UNCHANGED <<lines, dma_addr>>

WriteLen(len) ==
    /\ IF dma_count < 2
       THEN /\ dma_len' = [dma_len EXCEPT ![dma_count] = len]
            /\ dma_count' = dma_count + 1
            /\ IF dma_count = 0 THEN RaiseInterrupt("AI") ELSE UNCHANGED lines
       ELSE UNCHANGED <<dma_len, dma_count, lines>>
    /\ latch' = NoAddr
    /\ UNCHANGED dma_addr

-----------------------------------------------------------------------------
(* The sampler.                                                            *)

\* The entry played after a sample: the sample is taken unless the program has
\* stopped the DMA.
Playing == dma_enable /\ dma_len[0] > 0
NextAddr == (dma_addr[0] + (IF Playing THEN 1 ELSE 0)) % Space
NextLen == dma_len[0] - (IF Playing THEN 1 ELSE 0)

\* Faulty: the next buffer is played from where the last one ended.
StayAtAddress == [dma_addr EXCEPT ![0] = NextAddr]

\* The waiting entry moves up, a page further when the last one ended a page.
TakeUpAddress ==
    [dma_addr EXCEPT ![0] =
        (dma_addr[1] + (IF NextAddr % Page = 0 THEN Page ELSE 0)) % Space]

Sample ==
    IF dma_count = 0
    THEN UNCHANGED <<lines, dma_count, dma_addr, dma_len, latch>>
    ELSE IF NextLen > 0
    THEN /\ dma_addr' = [dma_addr EXCEPT ![0] = NextAddr]
         /\ dma_len' = [dma_len EXCEPT ![0] = NextLen]
         /\ UNCHANGED <<lines, dma_count, latch>>
    ELSE /\ dma_count' = dma_count - 1
         /\ latch' = NoAddr
         /\ IF dma_count = 2
            THEN /\ RaiseInterrupt("AI")
                 /\ dma_addr' = TakeUpAddress
                 /\ dma_len' = [dma_len EXCEPT ![0] = dma_len[1]]
            ELSE /\ dma_addr' = [dma_addr EXCEPT ![0] = NextAddr]
                 /\ dma_len' = [dma_len EXCEPT ![0] = 0]
                 /\ UNCHANGED lines

\* Step, called once an update, is a loop over Sample in which the CPU does not run.
BeginStep ==
    /\ ~ stepping
    /\ \E k \in StepCycles : cycles' = cycles + k
    /\ stepping' = TRUE
    /\ UNCHANGED <<lines, dac_period, aiRegisters, driver, latch>>

StepSample ==
    /\ stepping /\ cycles >= dac_period
    /\ Sample
    /\ cycles' = cycles - dac_period
    /\ UNCHANGED <<dac_period, dma_enable, stepping, driver>>

EndStep ==
    /\ stepping /\ cycles < dac_period
    /\ stepping' = FALSE
    /\ UNCHANGED <<lines, cycles, dac_period, aiRegisters, driver, latch>>

-----------------------------------------------------------------------------
(* The program.                                                            *)

GiveAddress ==
    /\ ~ stepping
    /\ driver \in {"prime", "queue"}
    /\ \E a \in Addresses : WriteDramAddr(a)
    /\ driver' = "length"
    /\ UNCHANGED <<lines, cycles, dac_period, dma_enable, stepping>>

\* After a buffer the driver waits for the interrupt or queues another one.
GiveLength ==
    /\ ~ stepping
    /\ driver = "length"
    /\ \E len \in Lengths : WriteLen(len)
    /\ driver' \in {"idle", "queue"}
    /\ UNCHANGED <<cycles, dac_period, dma_enable, stepping>>

\* The driver's interrupt handler writes AI_STATUS before it queues.
Acknowledge ==
    /\ ~ stepping
    /\ driver = "idle" /\ "AI" \in lines
    /\ ClearInterrupt("AI")
    /\ driver' = "queue"
    /\ UNCHANGED <<cycles, dac_period, aiRegisters, stepping, latch>>

WriteControl ==
    /\ ~ stepping
    /\ dma_enable' \in BOOLEAN
    /\ UNCHANGED <<lines, cycles, dac_period, dma_count, dma_addr, dma_len,
                   stepping, driver, latch>>

WriteDacrate ==
    /\ ~ stepping
    /\ dac_period' \in Periods
    /\ UNCHANGED <<lines, cycles, aiRegisters, stepping, driver, latch>>

AiNext ==
    \/ BeginStep \/ StepSample \/ EndStep
    \/ GiveAddress \/ GiveLength \/ Acknowledge
    \/ WriteControl \/ WriteDacrate

-----------------------------------------------------------------------------
(* Properties.                                                             *)

\* The registers implement the queue of the abstract specification: no buffer is
\* lost, repeated or cut by the sampler that runs between the program's stores
\* (ai.cpp, Sample and WriteReg).
Queue == INSTANCE AudioQueue WITH
    queue <- [i \in 1 .. dma_count |->
                [next |-> dma_addr[i - 1], left |-> dma_len[i - 1]]]

PlaysLikeAQueue == Queue!Spec

=============================================================================
