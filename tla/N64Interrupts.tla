--------------------------- MODULE N64Interrupts ---------------------------
(***************************************************************************)
(* Interrupts and exceptions of the Nintendo 64's main CPU: the MIPS       *)
(* Interface (interface/mi.cpp), the part of COP0 that decides whether an  *)
(* interrupt is taken (vr4300.cpp, exceptions.cpp, cop0.cpp) and the       *)
(* interpreter loop that runs one instruction (interpreter.cpp).           *)
(*                                                                         *)
(* A step is one instruction, or one callback of a device between two      *)
(* instructions.  The CPU is one record; the functions of the code are     *)
(* operators from record to record, composed in the order of the calls.    *)
(*                                                                         *)
(* Abstracted: addresses are word numbers that wrap around; of the data    *)
(* an instruction handles only what reaches these registers remains.  The  *)
(* ksu field of Status is kernel or not ("user").                          *)
(***************************************************************************)
EXTENDS Naturals

CONSTANTS
    LastAddr,      \* word addresses are 0 .. LastAddr, the last one all ones
    Misaligned,    \* the values of pc whose two low bits are not zero
    CommonVector,  \* what GetCommonExceptionVector returns
    RefillVector,  \* the TLB refill vector
    ResetVector,   \* 0xBFC00000
    HleEntry,      \* where InitRun starts when the PIF is emulated
    InterruptType, \* the devices that can raise an interrupt
    DP,            \* the one of them that MI_MODE acknowledges
    SoftwareIp,    \* bits 0 and 1 of Cause.IP, writable by software
    MI,            \* bit 2 of Cause.IP
    Timer,         \* bit 7 of Cause.IP
    StatusWritable,\* the bits of Status the program changes
    StatusValues,  \* what it writes to them
    Targets        \* where it branches, what it writes to EPC and ErrorEPC

Addr == 0 .. LastAddr
IpBits == SoftwareIp \cup {MI, Timer}
StatusBits == {"ie", "exl", "erl", "user", "cu0"}

ASSUME AddrAssumption ==
    /\ LastAddr \in Nat \ {0}
    /\ Misaligned \subseteq Addr
    /\ {CommonVector, RefillVector, ResetVector, HleEntry}
           \subseteq Addr \ Misaligned
    /\ Targets \subseteq Addr
ASSUME InterruptAssumption ==
    /\ DP \in InterruptType
    /\ MI # Timer /\ MI \notin SoftwareIp /\ Timer \notin SoftwareIp
    /\ StatusWritable \subseteq StatusBits
    /\ StatusValues \subseteq SUBSET StatusWritable

VARIABLES
    cpu,           \* COP0, pc and branch state
    mi_interrupt,  \* mi.interrupt, the set of devices that raised theirs
    mi_mask        \* mi.mask, the set of devices let through

vars == <<cpu, mi_interrupt, mi_mask>>

BranchState == {"NoBranch", "DelaySlotNotTaken", "DelaySlotTaken"}

Cpu == [status : SUBSET StatusBits,
        ip : SUBSET IpBits, im : SUBSET IpBits,
        interrupt : BOOLEAN,              \* the static of vr4300.cpp
        exception_occurred : BOOLEAN,
        can_exec_cop0_instrs : BOOLEAN,   \* cached from Status
        pc : Addr, epc : Addr, error_epc : Addr, bd : BOOLEAN,
        branch_state : BranchState, jump_addr : Addr]

TypeOK ==
    /\ cpu \in Cpu
    /\ mi_interrupt \subseteq InterruptType
    /\ mi_mask \subseteq InterruptType

NextAddr(a) == IF a = LastAddr THEN 0 ELSE a + 1
PrevAddr(a) == IF a = 0 THEN LastAddr ELSE a - 1

-----------------------------------------------------------------------------
(* Exceptions.                                                             *)

KernelMode(status) == "user" \notin status \/ "erl" \in status \/ "exl" \in status

SetVaddrToPaddrFuncs(c) ==
    [c EXCEPT !.can_exec_cop0_instrs =
                  KernelMode(c.status) \/ "cu0" \in c.status]

InDelaySlot(c) == c.branch_state # "NoBranch"

\* Faulty: without SignalInterruptFalse.
HandleExceptionKeepsFlag(c) ==
    LET entered == SetVaddrToPaddrFuncs(
                     [c EXCEPT !.status = @ \cup {"exl"},
                               !.bd = InDelaySlot(c),
                               !.epc = IF InDelaySlot(c) THEN PrevAddr(c.pc)
                                                         ELSE c.pc])
        recorded == IF "exl" \in c.status THEN c ELSE entered
    IN  [recorded EXCEPT !.exception_occurred = TRUE,
                         !.branch_state = "NoBranch"]

\* Faulty: a nested exception records where it happened.
HandleExceptionNested(c) ==
    LET entered == SetVaddrToPaddrFuncs(
                     [c EXCEPT !.status = @ \cup {"exl"},
                               !.bd = InDelaySlot(c),
                               !.epc = IF InDelaySlot(c) THEN PrevAddr(c.pc)
                                                         ELSE c.pc,
                               !.interrupt = FALSE])
    IN  [entered EXCEPT !.exception_occurred = TRUE,
                        !.branch_state = "NoBranch"]

\* Only the first exception records where to return: with EXL set, a nested
\* one leaves EPC and Cause.BD alone.
HandleException(c) ==
    LET entered == SetVaddrToPaddrFuncs(
                     [c EXCEPT !.status = @ \cup {"exl"},
                               !.bd = InDelaySlot(c),
                               !.epc = IF InDelaySlot(c) THEN PrevAddr(c.pc)
                                                         ELSE c.pc,
                               !.interrupt = FALSE])
        recorded == IF "exl" \in c.status THEN c ELSE entered
    IN  [recorded EXCEPT !.exception_occurred = TRUE,
                         !.branch_state = "NoBranch"]

CommonException(c) == [HandleException(c) EXCEPT !.pc = CommonVector]

TlbMissException(c) ==
    [HandleException(c) EXCEPT
        !.pc = IF "exl" \in c.status THEN CommonVector ELSE RefillVector]

InterruptsOpen(c) ==
    /\ c.status \cap {"ie", "exl", "erl"} = {"ie"}
    /\ c.ip \cap c.im # {}

\* Edge triggered: nothing happens while the flag is already up.
CheckInterrupts(c) ==
    IF InterruptsOpen(c) /\ ~ c.interrupt
    THEN CommonException([c EXCEPT !.interrupt = TRUE])
    ELSE [c EXCEPT !.interrupt = InterruptsOpen(c)]

ColdResetException(c) ==
    LET reset == HandleException(c)
    IN  CheckInterrupts(SetVaddrToPaddrFuncs(
          [reset EXCEPT !.pc = ResetVector, !.status = @ \cup {"erl"}]))

-----------------------------------------------------------------------------
(* The MIPS Interface.                                                     *)

\* What mi::CheckInterrupts tells the CPU when the registers become p and m.
MiCheckInterrupts(c, p, m) ==
    CheckInterrupts([c EXCEPT !.ip = IF p \cap m # {} THEN @ \cup {MI}
                                                      ELSE @ \ {MI}])

-----------------------------------------------------------------------------
(* One turn of the loop of RunInterpreter.                                 *)

Begin(c) == [c EXCEPT !.exception_occurred = FALSE]

PerformBranch(c) ==
    LET jumped == [c EXCEPT !.branch_state = "NoBranch", !.pc = c.jump_addr]
    IN  IF jumped.pc \in Misaligned THEN CommonException(jumped) ELSE jumped

Retire(c) ==
    CASE c.exception_occurred -> c
      [] ~ c.exception_occurred /\ c.branch_state = "DelaySlotTaken" ->
             PerformBranch(c)
      [] OTHER -> [c EXCEPT !.branch_state = "NoBranch", !.pc = NextAddr(@)]

RetireBranch(c) == [c EXCEPT !.pc = NextAddr(@)]

\* What a COP0 instruction does where the CPU may not execute it.
Privileged(c, after) ==
    IF c.can_exec_cop0_instrs THEN after ELSE CommonException(c)

Store(c, p, m) == Retire(MiCheckInterrupts(Begin(c), p, m))

Mtc0(after) == cpu' = Retire(Privileged(Begin(cpu), after))

-----------------------------------------------------------------------------
(* Initial states: after PowerOn and InitRun, with or without PIF ROM.     *)

PoweredOn == [status |-> {"cu0"}, ip |-> {}, im |-> {}, interrupt |-> FALSE,
              exception_occurred |-> FALSE, can_exec_cop0_instrs |-> TRUE,
              pc |-> 0, epc |-> LastAddr, error_epc |-> LastAddr,
              bd |-> FALSE, branch_state |-> "NoBranch", jump_addr |-> 0]

Init ==
    /\ cpu \in {[PoweredOn EXCEPT !.pc = HleEntry],
               ColdResetException(PoweredOn)}
    /\ mi_interrupt = {}
    /\ mi_mask = {}

-----------------------------------------------------------------------------
(* Instructions.                                                           *)

\* An instruction that touches none of this state.
Plain ==
    /\ cpu' = Retire(Begin(cpu))
    /\ UNCHANGED <<mi_interrupt, mi_mask>>

TakeBranch ==
    /\ \E target \in Targets :
           cpu' = RetireBranch([Begin(cpu) EXCEPT
                      !.branch_state = "DelaySlotTaken", !.jump_addr = target])
    /\ UNCHANGED <<mi_interrupt, mi_mask>>

OnBranchNotTaken ==
    /\ cpu' = RetireBranch(
                 [Begin(cpu) EXCEPT !.branch_state = "DelaySlotNotTaken"])
    /\ UNCHANGED <<mi_interrupt, mi_mask>>

\* A branch-likely that is not taken skips its delay slot.
DiscardBranch ==
    /\ cpu' = Retire([Begin(cpu) EXCEPT !.pc = NextAddr(@),
                                        !.branch_state = "NoBranch"])
    /\ UNCHANGED <<mi_interrupt, mi_mask>>

\* A system call, a trap, a fault of the instruction or of its fetch.
SynchronousException ==
    /\ cpu' \in {CommonException(Begin(cpu)), TlbMissException(Begin(cpu))}
    /\ UNCHANGED <<mi_interrupt, mi_mask>>

Mtc0Status ==
    /\ \E bits \in StatusValues, mask \in SUBSET IpBits :
           Mtc0(CheckInterrupts(SetVaddrToPaddrFuncs(
               [Begin(cpu) EXCEPT !.status = (@ \ StatusWritable) \cup bits,
                                  !.im = mask])))
    /\ UNCHANGED <<mi_interrupt, mi_mask>>

Mtc0Cause ==
    /\ \E bits \in SUBSET SoftwareIp :
           Mtc0(CheckInterrupts(
               [Begin(cpu) EXCEPT !.ip = (@ \ SoftwareIp) \cup bits]))
    /\ UNCHANGED <<mi_interrupt, mi_mask>>

Mtc0Compare ==
    /\ Mtc0(CheckInterrupts([Begin(cpu) EXCEPT !.ip = @ \ {Timer}]))
    /\ UNCHANGED <<mi_interrupt, mi_mask>>

Mtc0Epc ==
    /\ \E a \in Targets :
           \/ Mtc0([Begin(cpu) EXCEPT !.epc = a])
           \/ Mtc0([Begin(cpu) EXCEPT !.error_epc = a])
    /\ UNCHANGED <<mi_interrupt, mi_mask>>

\* Faulty: ERET leaves the cached mode as it was in the handler.
ReturnFromExceptionStale(c) ==
    LET returned == IF "erl" \in c.status
                    THEN [c EXCEPT !.status = @ \ {"erl"}, !.pc = c.error_epc]
                    ELSE [c EXCEPT !.status = @ \ {"exl"}, !.pc = c.epc]
        checked == CheckInterrupts(returned)
    IN  IF checked.pc \in Misaligned
        THEN CommonException(checked)
        ELSE [checked EXCEPT !.branch_state = "NoBranch",
                             !.exception_occurred = TRUE]

ReturnFromException(c) ==
    LET returned == IF "erl" \in c.status
                    THEN [c EXCEPT !.status = @ \ {"erl"}, !.pc = c.error_epc]
                    ELSE [c EXCEPT !.status = @ \ {"exl"}, !.pc = c.epc]
        checked == CheckInterrupts(returned)
    IN  SetVaddrToPaddrFuncs(
            IF checked.pc \in Misaligned
            THEN CommonException(checked)
            ELSE [checked EXCEPT !.branch_state = "NoBranch",
                                 !.exception_occurred = TRUE])

\* The architecture leaves ERET in a delay slot undefined: programs have none.
Eret ==
    /\ cpu.branch_state = "NoBranch"
    /\ cpu' = Retire(Privileged(Begin(cpu), ReturnFromException(Begin(cpu))))
    /\ UNCHANGED <<mi_interrupt, mi_mask>>

\* A store to MI_MODE that clears the DP interrupt.
StoreMiMode ==
    /\ mi_interrupt' = mi_interrupt \ {DP}
    /\ cpu' = Store(cpu, mi_interrupt', mi_mask)
    /\ UNCHANGED mi_mask

\* Faulty: a new mask takes effect with the next raise or acknowledge only.
StoreMiMaskUnchecked ==
    /\ \E clear, set \in SUBSET InterruptType :
           mi_mask' = (mi_mask \ clear) \cup set
    /\ cpu' = Retire(Begin(cpu))
    /\ UNCHANGED mi_interrupt

\* A store to MI_MASK; a bit both cleared and set ends up set.
StoreMiMask ==
    /\ \E clear, set \in SUBSET InterruptType :
           mi_mask' = (mi_mask \ clear) \cup set
    /\ cpu' = Store(cpu, mi_interrupt, mi_mask')
    /\ UNCHANGED mi_interrupt

\* A store to a register of a device that acknowledges its interrupt.
StoreAck(i) ==
    /\ mi_interrupt' = mi_interrupt \ {i}
    /\ cpu' = Store(cpu, mi_interrupt', mi_mask)
    /\ UNCHANGED mi_mask

\* A store that makes a device raise its interrupt at once (SP_STATUS, AI_LEN,
\* DPC_END): the exception is taken inside the store.
StoreRaise(i) ==
    /\ mi_interrupt' = mi_interrupt \cup {i}
    /\ cpu' = Store(cpu, mi_interrupt', mi_mask)
    /\ UNCHANGED mi_mask

-----------------------------------------------------------------------------
(* Callbacks between two instructions: scheduler events and the RSP.       *)

DeviceRaise(i) ==
    /\ mi_interrupt' = mi_interrupt \cup {i}
    /\ cpu' = MiCheckInterrupts(cpu, mi_interrupt', mi_mask)
    /\ UNCHANGED mi_mask

OnCountCompareMatchEvent ==
    /\ cpu' = CheckInterrupts([cpu EXCEPT !.ip = @ \cup {Timer}])
    /\ UNCHANGED <<mi_interrupt, mi_mask>>

DeviceClear(i) ==
    /\ mi_interrupt' = mi_interrupt \ {i}
    /\ cpu' = MiCheckInterrupts(cpu, mi_interrupt', mi_mask)
    /\ UNCHANGED mi_mask

Next ==
    \/ Plain \/ TakeBranch \/ OnBranchNotTaken \/ DiscardBranch
    \/ SynchronousException
    \/ Mtc0Status \/ Mtc0Cause \/ Mtc0Compare \/ Mtc0Epc \/ Eret
    \/ StoreMiMode \/ StoreMiMask
    \/ \E i \in InterruptType :
           StoreAck(i) \/ StoreRaise(i) \/ DeviceRaise(i) \/ DeviceClear(i)
    \/ OnCountCompareMatchEvent

Spec == Init /\ [][Next]_vars

-----------------------------------------------------------------------------
(* Properties.                                                             *)

\* Cause.IP2 is up exactly while some device's raised interrupt is let through
\* by MI_MASK, whichever of raise, acknowledge and mask write came last
\* (mi.cpp keeps the registers and cop0.cause.ip apart).
PendingMirrorsMi == MI \in cpu.ip <=> mi_interrupt \cap mi_mask # {}

\* Between two instructions no interrupt is both enabled and waiting: the
\* edge-triggered CheckInterrupts of vr4300.cpp, called where a register
\* changes, never swallows one (two devices at once, a second interrupt that
\* arrives in the handler of the first, ERET, a write to Status).
NoMissedInterrupt == ~ InterruptsOpen(cpu)

\* can_exec_cop0_instrs, cached by SetVaddrToPaddrFuncs, is never stale.
CachedModeIsFresh ==
    cpu.can_exec_cop0_instrs <=> KernelMode(cpu.status) \/ "cu0" \in cpu.status

\* Where the interrupted program continues.
ResumePoint(c) ==
    IF "exl" \in c.status THEN c.epc
    ELSE IF InDelaySlot(c) THEN PrevAddr(c.pc) ELSE c.pc

MayRedirect ==
    \/ Mtc0Status
    \/ "exl" \notin cpu.status /\ Eret  \* with nothing to return from, a jump
    \/ Mtc0Epc
    \/ cpu.branch_state = "DelaySlotTaken" /\ cpu.jump_addr \in Misaligned

\* Entering an exception, running its handler (with branches, nested faults and
\* nested interrupts) and leaving by ERET keep the point where the interrupted
\* program resumes, the branch and not its delay slot if it was between the two
\* (HandleException, eret); only the program redirects it.
ResumePointKept ==
    [][ "exl" \in cpu.status \/ "exl" \in cpu'.status
          => ResumePoint(cpu') = ResumePoint(cpu) \/ MayRedirect ]_vars
=============================================================================
