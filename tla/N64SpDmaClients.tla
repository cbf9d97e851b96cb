--------------------------- MODULE N64SpDmaClients ---------------------------
(***************************************************************************)
(* The CPU and the RSP sharing the SP DMA engine: both program the same    *)
(* registers, under the SP_SEMAPHORE register that n64/rsp/rsp.cpp offers  *)
(* for this.  The engine is N64SpDma; the order in which a client accesses *)
(* the registers is that of the programs the emulator runs.                *)
(***************************************************************************)
EXTENDS N64SpDma

CONSTANT Client  \* the processors that program transfers

\* A client writes an address of its own, so addresses carry who wrote them.
ASSUME ClientAssumption ==
    Client \subseteq Address \ {ZeroAddress, EndAddress}

VARIABLES
    semaphore,    \* sp.semaphore
    stage,        \* how far each client is with programming a transfer
    wanted_by,    \* history: who asked for the transfer in progress
    queued_by     \* history: who asked for the pending one

vars == <<spVars, semaphore, stage, wanted_by, queued_by>>

Stage == {"idle", "owner", "clear", "addressed", "issued"}

ClientsTypeOK ==
    /\ TypeOK
    /\ semaphore \in {0, 1}
    /\ stage \in [Client -> Stage]
    /\ wanted_by \in Address /\ queued_by \in Address

ClientsInit ==
    /\ Init
    /\ semaphore = 0
    /\ stage = [c \in Client |-> "idle"]
    /\ wanted_by = ZeroAddress /\ queued_by = ZeroAddress

Advance(c, from, to) ==
    /\ stage[c] = from
    /\ stage' = [stage EXCEPT ![c] = to]

\* Faulty: the read does not set the semaphore.
ReadSemaphoreOnly(c) ==
    /\ stage[c] = "idle"
    /\ stage' = IF semaphore = 0 THEN [stage EXCEPT ![c] = "owner"] ELSE stage
    /\ UNCHANGED <<spVars, semaphore, wanted_by, queued_by>>

\* A read of SP_SEMAPHORE returns it and sets it; 0 means the reader owns it.
ReadSemaphore(c) ==
    /\ stage[c] = "idle"
    /\ semaphore' = 1
    /\ stage' = IF semaphore = 0 THEN [stage EXCEPT ![c] = "owner"] ELSE stage
    /\ UNCHANGED <<spVars, wanted_by, queued_by>>

\* Faulty: SP_STATUS does not show the pending request.
SeeStatus(c) ==
    /\ Advance(c, "owner", "clear")
    /\ UNCHANGED <<spVars, semaphore, wanted_by, queued_by>>

\* A read of SP_STATUS: the owner spins while a request is pending.
SeeNotFull(c) ==
    /\ Advance(c, "owner", "clear")
    /\ ~ Full
    /\ UNCHANGED <<spVars, semaphore, wanted_by, queued_by>>

ProgramAddress(c) ==
    /\ Advance(c, "clear", "addressed")
    /\ WriteAddress(c)
    /\ UNCHANGED <<semaphore, wanted_by, queued_by>>

ProgramLength(c) ==
    /\ Advance(c, "addressed", "issued")
    /\ \E type \in DmaType, length \in Length :
           \/ /\ BufferLength(type, length)
              /\ queued_by' = c /\ UNCHANGED wanted_by
           \/ /\ StartTransfer(type, length)
              /\ wanted_by' = c /\ UNCHANGED queued_by
    /\ UNCHANGED semaphore

\* A write of any value to SP_SEMAPHORE clears it.
WriteSemaphore(c) ==
    /\ Advance(c, "issued", "idle")
    /\ semaphore' = 0
    /\ UNCHANGED <<spVars, wanted_by, queued_by>>

Finish ==
    /\ OnDmaFinish
    /\ wanted_by' = IF Full THEN queued_by ELSE wanted_by
    /\ UNCHANGED <<semaphore, stage, queued_by>>

Step(c) ==
    \/ ReadSemaphore(c) \/ SeeNotFull(c) \/ ProgramAddress(c)
    \/ ProgramLength(c) \/ WriteSemaphore(c)

ClientsNext == Finish \/ \E c \in Client : Step(c)

\* Both processors keep running, and the scheduler fires every event.
ClientsSpec ==
    /\ ClientsInit /\ [][ClientsNext]_vars
    /\ WF_vars(Finish) /\ \A c \in Client : WF_vars(Step(c))

-----------------------------------------------------------------------------
Owns(c) == stage[c] # "idle"

\* The read-and-set of SP_SEMAPHORE lets one processor at a time program the
\* engine, and the semaphore is set exactly while one does.
SemaphoreExcludes ==
    /\ \A c, d \in Client : Owns(c) /\ Owns(d) => c = d
    /\ (\E c \in Client : Owns(c)) => semaphore = 1

\* Under that protocol a transfer uses the addresses its own client wrote, even
\* one that waited while the other processor took over the registers: the
\* address registers, which the engine does not buffer, are never mixed up.
TransferUsesOwnAddress == Busy => transfer.addr = wanted_by

\* No request that was issued is overwritten by a later one before it starts.
NoRequestOverwritten ==
    [][ \A c \in Client :
          stage[c] = "addressed" /\ stage'[c] = "issued" => ~ Full ]_vars

\* A processor that has the semaphore gets its request in and gives it back:
\* waiting for the engine to take up the pending request ends.
OwnerProceeds ==
    \A c \in Client : stage[c] = "owner" ~> stage[c] = "idle"
=============================================================================
