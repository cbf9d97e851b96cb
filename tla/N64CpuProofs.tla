----------------------------- MODULE N64CpuProofs -----------------------------
(***************************************************************************)
(* Proofs about the VR4300: about N64Interrupts, and about what the        *)
(* floating-point instructions of N64CpuLockstep do in the interpreter.    *)
(*                                                                         *)
(* The inductive invariant of N64Interrupts says of the CPU between two    *)
(* instructions that it is settled: nothing enabled waits, the edge flag   *)
(* is down, the cached mode is fresh.  Each function of the code gets a    *)
(* lemma that says what it does to a CPU, in the order of the calls.       *)
(***************************************************************************)
EXTENDS N64Interrupts, N64CpuLockstep, TLAPS

Fresh(c) ==
    c.can_exec_cop0_instrs = (KernelMode(c.status) \/ "cu0" \in c.status)

\* The flag of vr4300.cpp is down whenever CheckInterrupts is called.
FlagDown(c) == c.interrupt = FALSE

Quiet(c) == c \in Cpu /\ FlagDown(c) /\ ~ InterruptsOpen(c)

Settled(c) == Quiet(c) /\ Fresh(c)

IInv ==
    /\ Settled(cpu)
    /\ mi_interrupt \subseteq InterruptType
    /\ mi_mask \subseteq InterruptType
    /\ PendingMirrorsMi

\* Addresses wrap around within the address range.
LEMMA AddrStep ==
    ASSUME NEW a \in Addr
    PROVE  NextAddr(a) \in Addr /\ PrevAddr(a) \in Addr
BY AddrAssumption DEF Addr, NextAddr, PrevAddr

\* An exception leaves the CPU in EXL with its pending and enabled bits as they
\* were, the mode cache fresh and the flag of vr4300.cpp down.
LEMMA HandleExceptionSettles ==
    ASSUME NEW c \in Cpu,
           "exl" \in c.status => FlagDown(c)
    PROVE  /\ HandleException(c) \in Cpu
           /\ Fresh(c) => Fresh(HandleException(c))
           /\ FlagDown(HandleException(c))
           /\ "exl" \in HandleException(c).status
           /\ HandleException(c).ip = c.ip
<1>1. CASE "exl" \in c.status
  BY <1>1 DEF HandleException, Cpu, Fresh, FlagDown, KernelMode, BranchState
<1>2. CASE "exl" \notin c.status
  <2> DEFINE d == HandleException(c)
  <2>1. /\ d.status = c.status \cup {"exl"}
        /\ d.ip = c.ip /\ d.interrupt = FALSE
        /\ d.can_exec_cop0_instrs = (KernelMode(d.status) \/ "cu0" \in d.status)
    BY <1>2 DEF HandleException, SetVaddrToPaddrFuncs, Cpu, KernelMode
  <2>2. PrevAddr(c.pc) \in Addr
    BY AddrStep DEF Cpu
  <2>3. d \in Cpu
    BY <1>2, <2>2 DEF HandleException, SetVaddrToPaddrFuncs, Cpu, KernelMode,
                      BranchState, InDelaySlot, StatusBits
  <2> QED BY <2>1, <2>3 DEF Fresh, FlagDown
<1> QED BY <1>1, <1>2

\* The same for the exceptions built on it, which only set the pc.
LEMMA ExceptionSettles ==
    ASSUME NEW c \in Cpu,
           "exl" \in c.status => FlagDown(c)
    PROVE  \A d \in {CommonException(c), TlbMissException(c)} :
               Quiet(d) /\ (Fresh(c) => Fresh(d)) /\ d.ip = c.ip
<1> DEFINE h == HandleException(c)
<1>1. /\ h \in Cpu /\ (Fresh(c) => Fresh(h)) /\ FlagDown(h)
      /\ "exl" \in h.status /\ h.ip = c.ip
  BY HandleExceptionSettles
<1>2. ASSUME NEW a \in Addr
      PROVE  LET d == [h EXCEPT !.pc = a]
             IN  Quiet(d) /\ (Fresh(c) => Fresh(d)) /\ d.ip = c.ip
  <2> HIDE DEF h
  <2> QED BY <1>1 DEF Quiet, Fresh, FlagDown, InterruptsOpen, Cpu
<1>3. CommonVector \in Addr /\ RefillVector \in Addr
  BY AddrAssumption
<1> QED BY <1>2, <1>3 DEF CommonException, TlbMissException

\* CheckInterrupts settles any CPU whose flag is down, and does not touch IP.
LEMMA CheckInterruptsSettles ==
    ASSUME NEW c \in Cpu, FlagDown(c)
    PROVE  /\ Quiet(CheckInterrupts(c))
           /\ Fresh(c) => Settled(CheckInterrupts(c))
           /\ CheckInterrupts(c).ip = c.ip
<1>1. CASE InterruptsOpen(c)
  <2> DEFINE d == [c EXCEPT !.interrupt = TRUE]
  <2>1. /\ d \in Cpu /\ (Fresh(c) => Fresh(d))
        /\ d.status = c.status /\ d.ip = c.ip
    BY DEF Cpu, Fresh
  <2>2. "exl" \notin d.status
    BY <1>1, <2>1 DEF InterruptsOpen
  <2>3. CheckInterrupts(c) = CommonException(d)
    BY <1>1 DEF CheckInterrupts, FlagDown
  <2> HIDE DEF d
  <2> QED BY <2>1, <2>2, <2>3, ExceptionSettles DEF Settled
<1>2. CASE ~ InterruptsOpen(c)
  <2>0. InterruptsOpen(c) = FALSE
    BY <1>2 DEF InterruptsOpen
  <2>1. CheckInterrupts(c) = [c EXCEPT !.interrupt = FALSE]
    BY <2>0 DEF CheckInterrupts
  <2> QED BY <1>2, <2>1 DEF Settled, Quiet, Cpu, Fresh, FlagDown, InterruptsOpen
<1> QED BY <1>1, <1>2

\* Writing Status, IP or IM and then checking settles the CPU again.
LEMMA MiCheckSettles ==
    ASSUME NEW c, Settled(c), NEW p, NEW m
    PROVE  /\ Settled(MiCheckInterrupts(c, p, m))
           /\ MI \in MiCheckInterrupts(c, p, m).ip <=> p \cap m # {}
<1> DEFINE ip == IF p \cap m # {} THEN c.ip \cup {MI} ELSE c.ip \ {MI}
           d == [c EXCEPT !.ip = ip]
<1>1. ip \in SUBSET IpBits /\ (MI \in ip <=> p \cap m # {})
  BY DEF Settled, Quiet, Cpu, IpBits
<1>2. MiCheckInterrupts(c, p, m) = CheckInterrupts(d)
  BY DEF MiCheckInterrupts, Settled, Quiet, Cpu
<1> HIDE DEF ip
<1>3. d \in Cpu /\ Fresh(d) /\ FlagDown(d) /\ d.ip = ip
  BY <1>1 DEF Settled, Quiet, Cpu, Fresh, FlagDown
<1> HIDE DEF d
<1> QED BY <1>1, <1>2, <1>3, CheckInterruptsSettles

\* Changes of pc, epc, branch state and exception_occurred disturb nothing.
LEMMA ControlSettles ==
    ASSUME NEW c, Settled(c),
           NEW d \in Cpu, d.status = c.status, d.ip = c.ip, d.im = c.im,
           d.interrupt = c.interrupt,
           d.can_exec_cop0_instrs = c.can_exec_cop0_instrs
    PROVE  Settled(d)
BY DEF Settled, Quiet, Fresh, FlagDown, InterruptsOpen

\* The end of a turn of the interpreter loop keeps a CPU settled.
LEMMA RetireSettles ==
    ASSUME NEW c, Settled(c)
    PROVE  /\ Settled(Begin(c)) /\ Begin(c).ip = c.ip
           /\ Settled(Retire(c)) /\ Retire(c).ip = c.ip
           /\ Settled(RetireBranch(c)) /\ RetireBranch(c).ip = c.ip
<1>1. Settled(Begin(c)) /\ Begin(c).ip = c.ip
  <2>1. Begin(c) \in Cpu /\ Begin(c).ip = c.ip
    BY DEF Begin, Settled, Quiet, Cpu
  <2> QED BY <2>1, ControlSettles DEF Begin, Settled, Quiet, Cpu
<1>2. NextAddr(c.pc) \in Addr
  BY AddrStep DEF Settled, Quiet, Cpu
<1>3. Settled(RetireBranch(c)) /\ RetireBranch(c).ip = c.ip
  <2>1. RetireBranch(c) \in Cpu /\ RetireBranch(c).ip = c.ip
    BY <1>2 DEF RetireBranch, Settled, Quiet, Cpu
  <2> QED BY <2>1, ControlSettles DEF RetireBranch, Settled, Quiet, Cpu
<1>4. Settled(PerformBranch(c)) /\ PerformBranch(c).ip = c.ip
  <2> DEFINE d == [c EXCEPT !.branch_state = "NoBranch", !.pc = c.jump_addr]
  <2>1. d \in Cpu /\ d.ip = c.ip
    BY DEF Settled, Quiet, Cpu, BranchState
  <2>2. Settled(d)
    BY <2>1, ControlSettles DEF Settled, Quiet, Cpu
  <2>3. Settled(CommonException(d)) /\ CommonException(d).ip = d.ip
    BY <2>2, ExceptionSettles DEF Settled, Quiet
  <2> QED BY <2>1, <2>2, <2>3 DEF PerformBranch
<1>5. Settled(Retire(c)) /\ Retire(c).ip = c.ip
  <2> DEFINE d == [c EXCEPT !.branch_state = "NoBranch", !.pc = NextAddr(c.pc)]
  <2>1. d \in Cpu /\ d.ip = c.ip
    BY <1>2 DEF Settled, Quiet, Cpu, BranchState
  <2>2. Settled(d)
    BY <2>1, ControlSettles DEF Settled, Quiet, Cpu
  <2>3. Retire(c) \in {c, d, PerformBranch(c)}
    BY DEF Retire
  <2> QED BY <1>4, <2>1, <2>2, <2>3
<1> QED BY <1>1, <1>3, <1>5

\* A store that changes what the MIPS Interface signals.
LEMMA StoreSettles ==
    ASSUME NEW c, Settled(c), NEW p, NEW m
    PROVE  /\ Settled(Store(c, p, m))
           /\ MI \in Store(c, p, m).ip <=> p \cap m # {}
BY RetireSettles, MiCheckSettles DEF Store

\* A COP0 instruction, refused or not, that leaves the MI bit alone.
LEMMA PrivilegedSettles ==
    ASSUME NEW c, Settled(c),
           NEW after, Settled(after), MI \in after.ip <=> MI \in c.ip
    PROVE  /\ Settled(Retire(Privileged(c, after)))
           /\ MI \in Retire(Privileged(c, after)).ip <=> MI \in c.ip
<1>1. Settled(CommonException(c)) /\ CommonException(c).ip = c.ip
  BY ExceptionSettles DEF Settled, Quiet
<1> QED BY <1>1, RetireSettles DEF Privileged

\* A write to Status: the mode is cached afresh, then interrupts are checked.
LEMMA StatusWriteSettles ==
    ASSUME NEW c, Settled(c), NEW bits \in SUBSET StatusBits,
           NEW mask \in SUBSET IpBits
    PROVE  LET d == CheckInterrupts(SetVaddrToPaddrFuncs(
                        [c EXCEPT !.status = bits, !.im = mask]))
           IN  Settled(d) /\ d.ip = c.ip
<1> DEFINE w == [c EXCEPT !.status = bits, !.im = mask]
           d == SetVaddrToPaddrFuncs(w)
<1>1. w \in Cpu /\ w.ip = c.ip /\ w.interrupt = c.interrupt
  BY DEF Settled, Quiet, Cpu
<1> HIDE DEF w
<1>2. /\ d \in Cpu /\ d.ip = w.ip /\ d.interrupt = w.interrupt
      /\ d.status = w.status
      /\ d.can_exec_cop0_instrs = (KernelMode(w.status) \/ "cu0" \in w.status)
  BY <1>1 DEF SetVaddrToPaddrFuncs, Cpu, KernelMode
<1>3. Fresh(d) /\ FlagDown(d)
  BY <1>1, <1>2 DEF Fresh, FlagDown, Settled, Quiet
<1> HIDE DEF d
<1>4. Settled(CheckInterrupts(d)) /\ CheckInterrupts(d).ip = d.ip
  BY <1>2, <1>3, CheckInterruptsSettles
<1> QED BY <1>1, <1>2, <1>4 DEF d, w

\* ERET checks interrupts before it refreshes the mode: settled all the same.
LEMMA ReturnSettles ==
    ASSUME NEW c, Settled(c)
    PROVE  /\ Settled(ReturnFromException(c))
           /\ ReturnFromException(c).ip = c.ip
<1> DEFINE returned == IF "erl" \in c.status
                       THEN [c EXCEPT !.status = @ \ {"erl"}, !.pc = c.error_epc]
                       ELSE [c EXCEPT !.status = @ \ {"exl"}, !.pc = c.epc]
           checked == CheckInterrupts(returned)
           jumped == IF checked.pc \in Misaligned
                     THEN CommonException(checked)
                     ELSE [checked EXCEPT !.branch_state = "NoBranch",
                                          !.exception_occurred = TRUE]
<1>1. returned \in Cpu /\ FlagDown(returned) /\ returned.ip = c.ip
  <2>1. CASE "erl" \in c.status
    BY <2>1 DEF Settled, Quiet, FlagDown, Cpu
  <2>2. CASE "erl" \notin c.status
    BY <2>2 DEF Settled, Quiet, FlagDown, Cpu
  <2> QED BY <2>1, <2>2
<1> HIDE DEF returned
<1>2. Quiet(checked) /\ checked.ip = c.ip
  BY <1>1, CheckInterruptsSettles
<1> HIDE DEF checked
<1>3. Quiet(jumped) /\ jumped.ip = c.ip
  <2>1. CASE checked.pc \in Misaligned
    BY <1>2, <2>1, ExceptionSettles DEF Quiet
  <2>2. CASE checked.pc \notin Misaligned
    BY <1>2, <2>2 DEF Quiet, FlagDown, InterruptsOpen, Cpu, BranchState
  <2> QED BY <2>1, <2>2
<1> HIDE DEF jumped
<1>4. Settled(SetVaddrToPaddrFuncs(jumped)) /\ SetVaddrToPaddrFuncs(jumped).ip = c.ip
  <2> DEFINE d == SetVaddrToPaddrFuncs(jumped)
  <2>1. /\ d \in Cpu /\ d.ip = jumped.ip /\ d.im = jumped.im
        /\ d.interrupt = jumped.interrupt /\ d.status = jumped.status
        /\ d.can_exec_cop0_instrs
              = (KernelMode(jumped.status) \/ "cu0" \in jumped.status)
    BY <1>3 DEF SetVaddrToPaddrFuncs, Quiet, Cpu, KernelMode
  <2> HIDE DEF d
  <2> QED BY <1>3, <2>1 DEF Settled, Quiet, Fresh, FlagDown, InterruptsOpen, d
<1>5. ReturnFromException(c) = SetVaddrToPaddrFuncs(jumped)
  BY DEF ReturnFromException, returned, checked, jumped
<1> QED BY <1>4, <1>5

-----------------------------------------------------------------------------
(* The inductive invariant.                                                *)

\* PowerOn and InitRun, with and without a PIF ROM, leave the CPU settled.
LEMMA InitSettles == Init => IInv
<1> SUFFICES ASSUME Init PROVE IInv
  OBVIOUS
<1> DEFINE hle == [PoweredOn EXCEPT !.pc = HleEntry]
<1>1. /\ PoweredOn \in Cpu /\ hle \in Cpu
      /\ PoweredOn.ip = {} /\ hle.ip = {}
  <2>1. {"cu0"} \in SUBSET StatusBits /\ {} \in SUBSET IpBits
    BY DEF StatusBits
  <2>2. 0 \in Addr /\ LastAddr \in Addr /\ HleEntry \in Addr
    BY AddrAssumption DEF Addr
  <2>3. PoweredOn \in Cpu
    BY <2>1, <2>2 DEF PoweredOn, Cpu, BranchState
  <2>4. hle \in Cpu
    BY <2>2, <2>3 DEF Cpu
  <2> QED BY <2>3, <2>4 DEF PoweredOn
<1>2. /\ hle.status = {"cu0"} /\ PoweredOn.status = {"cu0"}
      /\ hle.interrupt = FALSE /\ PoweredOn.interrupt = FALSE
      /\ hle.can_exec_cop0_instrs = TRUE
  BY DEF PoweredOn
<1> HIDE DEF hle
<1>3. ~ InterruptsOpen(hle) /\ Fresh(hle)
  BY <1>1, <1>2 DEF InterruptsOpen, Fresh, KernelMode
<1>4. Settled(hle) /\ FlagDown(PoweredOn) /\ "exl" \notin PoweredOn.status
  BY <1>1, <1>2, <1>3 DEF Settled, Quiet, FlagDown
<1>5. /\ Settled(ColdResetException(PoweredOn))
      /\ ColdResetException(PoweredOn).ip = {}
  <2> DEFINE h == HandleException(PoweredOn)
             w == [h EXCEPT !.pc = ResetVector, !.status = @ \cup {"erl"}]
             d == SetVaddrToPaddrFuncs(w)
  <2>1. h \in Cpu /\ FlagDown(h) /\ h.ip = {}
    BY <1>1, <1>4, HandleExceptionSettles
  <2> HIDE DEF h
  <2>2. w \in Cpu /\ w.interrupt = FALSE /\ w.ip = {}
    BY <2>1, AddrAssumption DEF Cpu, StatusBits, FlagDown
  <2> HIDE DEF w
  <2>3. d \in Cpu /\ d.interrupt = FALSE /\ d.ip = {} /\ d.status = w.status
        /\ d.can_exec_cop0_instrs = (KernelMode(w.status) \/ "cu0" \in w.status)
    BY <2>2 DEF SetVaddrToPaddrFuncs, Cpu, KernelMode
  <2> HIDE DEF d
  <2>4. Fresh(d) /\ FlagDown(d)
    BY <2>3 DEF Fresh, FlagDown
  <2>5. Settled(CheckInterrupts(d)) /\ CheckInterrupts(d).ip = {}
    BY <2>3, <2>4, CheckInterruptsSettles
  <2> QED BY <2>5 DEF ColdResetException, d, w, h
<1>6. Settled(cpu) /\ cpu.ip = {}
  BY <1>1, <1>4, <1>5 DEF Init, hle
<1> QED BY <1>6 DEF Init, IInv, PendingMirrorsMi

\* Every instruction and every callback keeps the inductive invariant.
LEMMA NextSettles == IInv /\ [Next]_vars => IInv'
<1> SUFFICES ASSUME IInv, [Next]_vars PROVE IInv'
  OBVIOUS
<1> DEFINE begun == Begin(cpu)
<1>0. /\ Settled(cpu) /\ Settled(begun) /\ begun.ip = cpu.ip
      /\ mi_interrupt \subseteq InterruptType /\ mi_mask \subseteq InterruptType
      /\ MI \in cpu.ip <=> mi_interrupt \cap mi_mask # {}
  BY RetireSettles DEF IInv, PendingMirrorsMi
<1>c. ASSUME UNCHANGED <<mi_interrupt, mi_mask>>, Settled(cpu'),
             MI \in cpu'.ip <=> MI \in cpu.ip
      PROVE  IInv'
  BY <1>0, <1>c DEF IInv, PendingMirrorsMi
<1>m. ASSUME mi_interrupt' \subseteq InterruptType, mi_mask' \subseteq InterruptType,
             \/ cpu' = Store(cpu, mi_interrupt', mi_mask')
             \/ cpu' = MiCheckInterrupts(cpu, mi_interrupt', mi_mask')
      PROVE  IInv'
  BY <1>0, <1>m, StoreSettles, MiCheckSettles DEF IInv, PendingMirrorsMi
<1>p. ASSUME NEW after, Settled(after), MI \in after.ip <=> MI \in cpu.ip,
             cpu' = Retire(Privileged(begun, after)),
             UNCHANGED <<mi_interrupt, mi_mask>>
      PROVE  IInv'
  BY <1>0, <1>c, <1>p, PrivilegedSettles
<1> HIDE DEF begun
<1>1. CASE Plain
  BY <1>0, <1>1, <1>c, RetireSettles DEF Plain, begun
<1>2. CASE TakeBranch
  <2> PICK target \in Targets :
        cpu' = RetireBranch([begun EXCEPT !.branch_state = "DelaySlotTaken",
                                          !.jump_addr = target])
    BY <1>2 DEF TakeBranch, begun
  <2> DEFINE d == [begun EXCEPT !.branch_state = "DelaySlotTaken",
                                !.jump_addr = target]
  <2>1. Settled(d) /\ d.ip = begun.ip
    <3>1. d \in Cpu
      BY <1>0, AddrAssumption DEF Settled, Quiet, Cpu, BranchState
    <3> QED BY <1>0, <3>1, ControlSettles DEF Settled, Quiet, Cpu
  <2> HIDE DEF d
  <2> QED BY <1>0, <1>2, <1>c, <2>1, RetireSettles DEF TakeBranch, d
<1>3. CASE OnBranchNotTaken
  <2> DEFINE d == [begun EXCEPT !.branch_state = "DelaySlotNotTaken"]
  <2>1. Settled(d) /\ d.ip = begun.ip
    <3>1. d \in Cpu
      BY <1>0 DEF Settled, Quiet, Cpu, BranchState
    <3> QED BY <1>0, <3>1, ControlSettles DEF Settled, Quiet, Cpu
  <2> QED BY <1>0, <1>3, <1>c, <2>1, RetireSettles DEF OnBranchNotTaken, begun
<1>4. CASE DiscardBranch
  <2> DEFINE d == [begun EXCEPT !.pc = NextAddr(begun.pc),
                                !.branch_state = "NoBranch"]
  <2>1. Settled(d) /\ d.ip = begun.ip
    <3>1. d \in Cpu
      BY <1>0, AddrStep DEF Settled, Quiet, Cpu, BranchState
    <3> QED BY <1>0, <3>1, ControlSettles DEF Settled, Quiet, Cpu
  <2> QED BY <1>0, <1>4, <1>c, <2>1, RetireSettles DEF DiscardBranch, begun
<1>5. CASE SynchronousException
  BY <1>0, <1>5, <1>c, ExceptionSettles
     DEF SynchronousException, Settled, Quiet, begun
<1>6. CASE Mtc0Status
  <2> PICK bits \in StatusValues, mask \in SUBSET IpBits :
        Mtc0(CheckInterrupts(SetVaddrToPaddrFuncs(
               [begun EXCEPT !.status = (@ \ StatusWritable) \cup bits,
                             !.im = mask])))
    BY <1>6 DEF Mtc0Status, begun
  <2> DEFINE status == (begun.status \ StatusWritable) \cup bits
             d == CheckInterrupts(SetVaddrToPaddrFuncs(
                        [begun EXCEPT !.status = status, !.im = mask]))
  <2>1. status \in SUBSET StatusBits
    BY <1>0, InterruptAssumption DEF Settled, Quiet, Cpu
  <2>2. cpu' = Retire(Privileged(begun, d))
    BY <1>0 DEF Mtc0, begun
  <2> HIDE DEF status
  <2>3. Settled(d) /\ d.ip = begun.ip
    BY <1>0, <2>1, StatusWriteSettles
  <2> HIDE DEF d
  <2> QED BY <1>0, <1>6, <1>p, <2>2, <2>3 DEF Mtc0Status
<1>7. CASE Mtc0Cause
  <2> PICK bits \in SUBSET SoftwareIp :
        Mtc0(CheckInterrupts([begun EXCEPT !.ip = (@ \ SoftwareIp) \cup bits]))
    BY <1>7 DEF Mtc0Cause, begun
  <2> DEFINE ip == (begun.ip \ SoftwareIp) \cup bits
             w == [begun EXCEPT !.ip = ip]
  <2>1. ip \in SUBSET IpBits /\ (MI \in ip <=> MI \in begun.ip)
    BY <1>0, InterruptAssumption DEF Settled, Quiet, Cpu, IpBits
  <2>2. cpu' = Retire(Privileged(begun, CheckInterrupts(w)))
    BY <1>0 DEF Mtc0, begun
  <2> HIDE DEF ip
  <2>3. w \in Cpu /\ w.ip = ip /\ FlagDown(w) /\ Fresh(w)
    BY <1>0, <2>1 DEF Settled, Quiet, Cpu, FlagDown, Fresh
  <2> HIDE DEF w
  <2> QED BY <1>0, <1>7, <1>p, <2>1, <2>2, <2>3, CheckInterruptsSettles
          DEF Mtc0Cause
<1>8. CASE Mtc0Compare
  <2> DEFINE w == [begun EXCEPT !.ip = begun.ip \ {Timer}]
  <2>1. cpu' = Retire(Privileged(begun, CheckInterrupts(w)))
    BY <1>8 DEF Mtc0Compare, Mtc0, begun
  <2>2. /\ w \in Cpu /\ FlagDown(w) /\ Fresh(w)
        /\ w.ip = begun.ip \ {Timer}
    BY <1>0 DEF Settled, Quiet, Cpu, FlagDown, Fresh
  <2> HIDE DEF w
  <2>3. MI \in w.ip <=> MI \in begun.ip
    BY <2>2, InterruptAssumption
  <2> QED BY <1>0, <1>8, <1>p, <2>1, <2>2, <2>3, CheckInterruptsSettles
          DEF Mtc0Compare
<1>9. CASE Mtc0Epc
  <2> PICK a \in Targets :
        \/ Mtc0([begun EXCEPT !.epc = a])
        \/ Mtc0([begun EXCEPT !.error_epc = a])
    BY <1>9 DEF Mtc0Epc, begun
  <2>1. ASSUME NEW d \in {[begun EXCEPT !.epc = a], [begun EXCEPT !.error_epc = a]}
        PROVE  Settled(d) /\ d.ip = begun.ip
    <3>1. /\ d \in Cpu /\ d.status = begun.status /\ d.ip = begun.ip
          /\ d.im = begun.im /\ d.interrupt = begun.interrupt
          /\ d.can_exec_cop0_instrs = begun.can_exec_cop0_instrs
      BY <1>0, <2>1, AddrAssumption DEF Settled, Quiet, Cpu
    <3> QED BY <1>0, <3>1, ControlSettles
  <2>2. PICK d \in {[begun EXCEPT !.epc = a], [begun EXCEPT !.error_epc = a]} :
          cpu' = Retire(Privileged(begun, d))
    BY DEF Mtc0, begun
  <2> QED BY <1>0, <1>9, <1>p, <2>1, <2>2 DEF Mtc0Epc
<1>10. CASE Eret
  BY <1>0, <1>10, <1>p, ReturnSettles DEF Eret, begun
<1>11. CASE StoreMiMode
  BY <1>0, <1>11, <1>m DEF StoreMiMode
<1>12. CASE StoreMiMask
  BY <1>0, <1>12, <1>m DEF StoreMiMask
<1>13. ASSUME NEW i \in InterruptType,
              StoreAck(i) \/ StoreRaise(i) \/ DeviceRaise(i) \/ DeviceClear(i)
       PROVE  IInv'
  BY <1>0, <1>13, <1>m DEF StoreAck, StoreRaise, DeviceRaise, DeviceClear
<1>14. CASE OnCountCompareMatchEvent
  <2> DEFINE w == [cpu EXCEPT !.ip = cpu.ip \cup {Timer}]
  <2>1. cpu' = CheckInterrupts(w)
    BY <1>14 DEF OnCountCompareMatchEvent
  <2>2. /\ w \in Cpu /\ FlagDown(w) /\ Fresh(w)
        /\ w.ip = cpu.ip \cup {Timer}
    BY <1>0 DEF Settled, Quiet, Cpu, FlagDown, Fresh, IpBits
  <2> HIDE DEF w
  <2>3. MI \in w.ip <=> MI \in cpu.ip
    BY <2>2, InterruptAssumption
  <2> QED BY <1>14, <1>c, <2>1, <2>2, <2>3, CheckInterruptsSettles
          DEF OnCountCompareMatchEvent
<1>15. CASE UNCHANGED vars
  BY <1>0, <1>15, <1>c DEF vars
<1> QED BY <1>1, <1>2, <1>3, <1>4, <1>5, <1>6, <1>7, <1>8, <1>9, <1>10, <1>11,
           <1>12, <1>13, <1>14, <1>15 DEF Next

-----------------------------------------------------------------------------
(* Where the interrupted program resumes.                                  *)

\* What decides where it resumes is the same in both.
SamePoint(c, d) ==
    /\ d.status = c.status /\ d.pc = c.pc /\ d.epc = c.epc
    /\ d.branch_state = c.branch_state /\ d.jump_addr = c.jump_addr
    /\ d.exception_occurred = c.exception_occurred

\* d has entered an exception from which the program goes on as from c.
Entered(c, d) ==
    /\ "exl" \in d.status
    /\ ResumePoint(d) = ResumePoint(c)
    /\ d.exception_occurred = TRUE

\* The branch whose target is not aligned: the exception is the target's.
JumpsAstray(c) == c.branch_state = "DelaySlotTaken" /\ c.jump_addr \in Misaligned

PointKept(c, d) ==
    "exl" \in c.status \/ "exl" \in d.status => ResumePoint(d) = ResumePoint(c)

\* The first exception records where the program stands, a nested one keeps
\* what the first recorded.
LEMMA ExceptionKeepsPoint ==
    ASSUME NEW c \in Cpu
    PROVE  \A d \in {CommonException(c), TlbMissException(c)} :
               d \in Cpu /\ Entered(c, d)
<1> DEFINE h == HandleException(c)
<1>1. h \in Cpu /\ "exl" \in h.status /\ h.epc = ResumePoint(c)
      /\ h.exception_occurred = TRUE
  <2>1. CASE "exl" \in c.status
    BY <2>1 DEF HandleException, Cpu, ResumePoint, BranchState
  <2>2. CASE "exl" \notin c.status
    <3>1. PrevAddr(c.pc) \in Addr
      BY AddrStep DEF Cpu
    <3>2. h \in Cpu
      BY <2>2, <3>1 DEF HandleException, SetVaddrToPaddrFuncs, Cpu, KernelMode,
                        BranchState, InDelaySlot, StatusBits
    <3> QED BY <2>2, <3>2
            DEF HandleException, SetVaddrToPaddrFuncs, Cpu, InDelaySlot, ResumePoint
  <2> QED BY <2>1, <2>2
<1>2. ASSUME NEW a \in Addr
      PROVE  [h EXCEPT !.pc = a] \in Cpu /\ Entered(c, [h EXCEPT !.pc = a])
  <2> HIDE DEF h
  <2> QED BY <1>1 DEF Cpu, Entered, ResumePoint
<1>3. CommonVector \in Addr /\ RefillVector \in Addr
  BY AddrAssumption
<1> QED BY <1>2, <1>3 DEF CommonException, TlbMissException

\* An interrupt that is taken is such an exception; one that is not changes
\* nothing that matters.
LEMMA CheckKeepsPoint ==
    ASSUME NEW c \in Cpu
    PROVE  LET d == CheckInterrupts(c)
           IN  d \in Cpu /\ (SamePoint(c, d) \/ Entered(c, d))
<1>1. CASE InterruptsOpen(c) /\ ~ c.interrupt
  <2> DEFINE w == [c EXCEPT !.interrupt = TRUE]
  <2>1. w \in Cpu /\ SamePoint(c, w)
    BY DEF Cpu, SamePoint
  <2>2. CheckInterrupts(c) = CommonException(w)
    BY <1>1 DEF CheckInterrupts
  <2> HIDE DEF w
  <2>3. CommonException(w) \in Cpu /\ Entered(w, CommonException(w))
    BY <2>1, ExceptionKeepsPoint
  <2>4. ResumePoint(w) = ResumePoint(c)
    BY <2>1 DEF SamePoint, ResumePoint, InDelaySlot
  <2> QED BY <2>2, <2>3, <2>4 DEF Entered
<1>2. CASE ~ (InterruptsOpen(c) /\ ~ c.interrupt)
  <2>1. CheckInterrupts(c) = [c EXCEPT !.interrupt = InterruptsOpen(c)]
    BY <1>2 DEF CheckInterrupts
  <2>2. InterruptsOpen(c) \in BOOLEAN
    BY DEF InterruptsOpen
  <2> QED BY <2>1, <2>2 DEF Cpu, SamePoint
<1> QED BY <1>1, <1>2

\* The end of a turn leaves an exception alone, and otherwise neither enters
\* nor leaves one unless the branch it performs goes astray.
LEMMA RetireKeepsPoint ==
    ASSUME NEW c \in Cpu
    PROVE  /\ c.exception_occurred = TRUE => Retire(c) = c
           /\ ~ JumpsAstray(c) => PointKept(c, Retire(c))
           /\ PointKept(c, RetireBranch(c))
<1>1. c.exception_occurred = TRUE => Retire(c) = c
  BY DEF Retire
<1>2. PointKept(c, RetireBranch(c))
  BY DEF RetireBranch, PointKept, ResumePoint, Cpu
<1>3. ASSUME ~ JumpsAstray(c), c.exception_occurred = FALSE
      PROVE  PointKept(c, Retire(c))
  <2>1. CASE c.branch_state = "DelaySlotTaken"
    <3> DEFINE d == [c EXCEPT !.branch_state = "NoBranch", !.pc = c.jump_addr]
    <3>1. d.pc = c.jump_addr /\ d.status = c.status /\ d.epc = c.epc
      BY DEF Cpu
    <3>2. c.jump_addr \notin Misaligned
      BY <1>3, <2>1 DEF JumpsAstray
    <3>3. Retire(c) = d
      BY <1>3, <2>1, <3>1, <3>2 DEF Retire, PerformBranch
    <3> QED BY <3>1, <3>3 DEF PointKept, ResumePoint
  <2>2. CASE c.branch_state # "DelaySlotTaken"
    <3>1. Retire(c) = [c EXCEPT !.branch_state = "NoBranch", !.pc = NextAddr(@)]
      BY <1>3, <2>2 DEF Retire
    <3> QED BY <3>1 DEF PointKept, ResumePoint, Cpu
  <2> QED BY <2>1, <2>2
<1>4. c.exception_occurred \in BOOLEAN
  BY DEF Cpu
<1>5. c.exception_occurred = TRUE => PointKept(c, Retire(c))
  BY <1>1 DEF PointKept
<1> QED BY <1>1, <1>2, <1>3, <1>4, <1>5

\* An instruction that leaves the point alone or has entered an exception.
LEMMA TurnKeepsPoint ==
    ASSUME NEW c \in Cpu, NEW d \in Cpu, SamePoint(c, d) \/ Entered(c, d),
           ~ JumpsAstray(c)
    PROVE  PointKept(c, Retire(d))
<1>1. CASE SamePoint(c, d)
  <2>1. ~ JumpsAstray(d) /\ ResumePoint(d) = ResumePoint(c) /\ d.status = c.status
    BY <1>1 DEF SamePoint, JumpsAstray, ResumePoint, InDelaySlot
  <2>2. PointKept(d, Retire(d))
    BY <2>1, RetireKeepsPoint
  <2> QED BY <2>1, <2>2 DEF PointKept
<1>2. CASE Entered(c, d)
  BY <1>2, RetireKeepsPoint DEF Entered, PointKept
<1> QED BY <1>1, <1>2

\* A COP0 instruction that is refused enters an exception.
LEMMA PrivilegedKeepsPoint ==
    ASSUME NEW c \in Cpu, NEW d \in Cpu, SamePoint(c, d) \/ Entered(c, d),
           ~ JumpsAstray(c)
    PROVE  PointKept(c, Retire(Privileged(c, d)))
<1>1. CommonException(c) \in Cpu /\ Entered(c, CommonException(c))
  BY ExceptionKeepsPoint
<1> QED BY <1>1, TurnKeepsPoint DEF Privileged

\* Setting bits of IP and checking, as devices and the timer do.
LEMMA IpKeepsPoint ==
    ASSUME NEW c \in Cpu, NEW ip \in SUBSET IpBits
    PROVE  LET d == CheckInterrupts([c EXCEPT !.ip = ip])
           IN  d \in Cpu /\ (SamePoint(c, d) \/ Entered(c, d))
<1> DEFINE w == [c EXCEPT !.ip = ip]
<1>1. w \in Cpu /\ SamePoint(c, w)
  BY DEF Cpu, SamePoint
<1> HIDE DEF w
<1>2. ResumePoint(w) = ResumePoint(c)
  BY <1>1 DEF SamePoint, ResumePoint, InDelaySlot
<1>3. LET d == CheckInterrupts(w)
      IN  d \in Cpu /\ (SamePoint(w, d) \/ Entered(w, d))
  BY <1>1, CheckKeepsPoint
<1> QED BY <1>1, <1>2, <1>3 DEF w, SamePoint, Entered

\* ERET goes where EPC points, or takes from there what was waiting; from a
\* reset or an NMI it stays inside the exception.
LEMMA ReturnKeepsPoint ==
    ASSUME NEW c \in Cpu, c.branch_state = "NoBranch", "exl" \in c.status
    PROVE  LET d == ReturnFromException(c)
           IN  /\ d \in Cpu
               /\ d.exception_occurred = TRUE
               /\ ResumePoint(d) = ResumePoint(c)
<1> DEFINE returned == IF "erl" \in c.status
                       THEN [c EXCEPT !.status = @ \ {"erl"}, !.pc = c.error_epc]
                       ELSE [c EXCEPT !.status = @ \ {"exl"}, !.pc = c.epc]
           checked == CheckInterrupts(returned)
           jumped == IF checked.pc \in Misaligned
                     THEN CommonException(checked)
                     ELSE [checked EXCEPT !.branch_state = "NoBranch",
                                          !.exception_occurred = TRUE]
<1>1. /\ returned \in Cpu /\ returned.branch_state = "NoBranch"
      /\ ResumePoint(returned) = ResumePoint(c)
  <2>1. CASE "erl" \in c.status
    BY <2>1 DEF Cpu, ResumePoint, InDelaySlot
  <2>2. CASE "erl" \notin c.status
    BY <2>2 DEF Cpu, ResumePoint, InDelaySlot
  <2> QED BY <2>1, <2>2
<1> HIDE DEF returned
<1>2. /\ checked \in Cpu
      /\ SamePoint(returned, checked) \/ Entered(returned, checked)
  BY <1>1, CheckKeepsPoint
<1>3. ResumePoint(checked) = ResumePoint(c)
  BY <1>1, <1>2 DEF SamePoint, Entered, ResumePoint, InDelaySlot
<1>4. "exl" \in checked.status \/ checked.branch_state = "NoBranch"
  BY <1>1, <1>2 DEF SamePoint, Entered
<1> HIDE DEF checked
<1>5. /\ jumped \in Cpu /\ jumped.exception_occurred = TRUE
      /\ ResumePoint(jumped) = ResumePoint(c)
  <2>1. CASE checked.pc \in Misaligned
    BY <1>2, <1>3, <2>1, ExceptionKeepsPoint DEF Entered
  <2>2. CASE checked.pc \notin Misaligned
    BY <1>2, <1>3, <1>4, <2>2 DEF Cpu, BranchState, ResumePoint, InDelaySlot
  <2> QED BY <2>1, <2>2
<1> HIDE DEF jumped
<1>6. /\ SetVaddrToPaddrFuncs(jumped) \in Cpu
      /\ SamePoint(jumped, SetVaddrToPaddrFuncs(jumped))
  BY <1>5 DEF SetVaddrToPaddrFuncs, Cpu, KernelMode, SamePoint
<1>7. ReturnFromException(c) = SetVaddrToPaddrFuncs(jumped)
  BY DEF ReturnFromException, returned, checked, jumped
<1> QED BY <1>5, <1>6, <1>7 DEF SamePoint, ResumePoint, InDelaySlot

\* Every step keeps the point unless it may redirect the program.
LEMMA NextKeepsPoint ==
    IInv /\ [Next]_vars => PointKept(cpu, cpu') \/ MayRedirect
<1> SUFFICES ASSUME IInv, [Next]_vars, ~ MayRedirect PROVE PointKept(cpu, cpu')
  OBVIOUS
<1> DEFINE begun == Begin(cpu)
<1>1. cpu \in Cpu /\ ~ JumpsAstray(cpu)
  BY DEF IInv, Settled, Quiet, MayRedirect, JumpsAstray
<1>2. begun \in Cpu /\ begun = [cpu EXCEPT !.exception_occurred = FALSE]
  BY <1>1 DEF Begin, Cpu
<1>3. /\ ~ JumpsAstray(begun) /\ ResumePoint(begun) = ResumePoint(cpu)
      /\ begun.status = cpu.status /\ begun.branch_state = cpu.branch_state
      /\ begun.ip = cpu.ip
  BY <1>1, <1>2 DEF JumpsAstray, ResumePoint, InDelaySlot, Cpu
<1> HIDE DEF begun
<1>4. ASSUME NEW ip \in SUBSET IpBits,
             \/ cpu' = Retire(CheckInterrupts([begun EXCEPT !.ip = ip]))
             \/ cpu' = Retire(Privileged(begun,
                                  CheckInterrupts([begun EXCEPT !.ip = ip])))
             \/ cpu' = CheckInterrupts([cpu EXCEPT !.ip = ip])
      PROVE  PointKept(cpu, cpu')
  <2>1. CASE cpu' = Retire(CheckInterrupts([begun EXCEPT !.ip = ip]))
    BY <1>2, <1>3, <2>1, IpKeepsPoint, TurnKeepsPoint DEF PointKept
  <2>2. CASE cpu' = Retire(Privileged(begun,
                               CheckInterrupts([begun EXCEPT !.ip = ip])))
    BY <1>2, <1>3, <2>2, IpKeepsPoint, PrivilegedKeepsPoint DEF PointKept
  <2>3. CASE cpu' = CheckInterrupts([cpu EXCEPT !.ip = ip])
    BY <1>1, <2>3, IpKeepsPoint DEF PointKept, SamePoint, Entered, ResumePoint,
                                    InDelaySlot
  <2> QED BY <1>4, <2>1, <2>2, <2>3
<1>5. ASSUME NEW p, NEW m,
             cpu' = Store(cpu, p, m) \/ cpu' = MiCheckInterrupts(cpu, p, m)
      PROVE  PointKept(cpu, cpu')
  <2> DEFINE ip == IF p \cap m # {} THEN cpu.ip \cup {MI} ELSE cpu.ip \ {MI}
  <2>1. ip \in SUBSET IpBits
    BY <1>1 DEF Cpu, IpBits
  <2>2. /\ MiCheckInterrupts(cpu, p, m) = CheckInterrupts([cpu EXCEPT !.ip = ip])
        /\ Store(cpu, p, m) = Retire(CheckInterrupts([begun EXCEPT !.ip = ip]))
    BY <1>1, <1>2, <1>3 DEF MiCheckInterrupts, Store, begun, Cpu
  <2> HIDE DEF ip
  <2> QED BY <1>4, <1>5, <2>1, <2>2
<1>6. CASE Plain
  <2>1. SamePoint(begun, begun)
    BY DEF SamePoint
  <2> QED BY <1>2, <1>3, <1>6, <2>1, TurnKeepsPoint DEF Plain, PointKept, begun
<1>7. CASE TakeBranch \/ OnBranchNotTaken
  <2>1. PICK target \in Addr, state \in BranchState :
          \/ cpu' = RetireBranch([begun EXCEPT !.branch_state = state,
                                               !.jump_addr = target])
          \/ cpu' = RetireBranch([begun EXCEPT !.branch_state = state])
    <3>1. CASE TakeBranch
      BY <3>1, AddrAssumption DEF TakeBranch, begun, BranchState
    <3>2. CASE OnBranchNotTaken
      <4>1. 0 \in Addr
        BY AddrAssumption DEF Addr
      <4> QED BY <3>2, <4>1 DEF OnBranchNotTaken, begun, BranchState
    <3> QED BY <1>7, <3>1, <3>2
  <2> DEFINE d == [begun EXCEPT !.branch_state = state, !.jump_addr = target]
             e == [begun EXCEPT !.branch_state = state]
  <2>2. /\ d \in Cpu /\ d.status = begun.status /\ d.epc = begun.epc
        /\ e \in Cpu /\ e.status = begun.status /\ e.epc = begun.epc
    BY <1>2 DEF Cpu
  <2> HIDE DEF d, e
  <2>3. PICK w \in {d, e} : cpu' = RetireBranch(w)
    BY <2>1 DEF d, e
  <2>4. PointKept(w, cpu') /\ w.status = begun.status /\ w.epc = begun.epc
    BY <2>2, <2>3, RetireKeepsPoint
  <2>5. cpu'.status = w.status
    BY <2>2, <2>3 DEF RetireBranch, Cpu
  <2> QED BY <1>3, <2>4, <2>5 DEF PointKept, ResumePoint
<1>8. CASE DiscardBranch
  <2> DEFINE d == [begun EXCEPT !.pc = NextAddr(begun.pc),
                                !.branch_state = "NoBranch"]
  <2>1. /\ d \in Cpu /\ d.status = begun.status /\ d.epc = begun.epc
        /\ d.branch_state = "NoBranch" /\ d.exception_occurred = FALSE
    BY <1>2, AddrStep DEF Cpu, BranchState
  <2>2. cpu' = Retire(d)
    BY <1>2, <1>8 DEF DiscardBranch, begun
  <2> HIDE DEF d
  <2>3. cpu' = [d EXCEPT !.branch_state = "NoBranch", !.pc = NextAddr(@)]
    BY <2>1, <2>2 DEF Retire
  <2>4. cpu'.status = begun.status /\ cpu'.epc = begun.epc
    BY <2>1, <2>3 DEF Cpu
  <2> QED BY <1>3, <2>4 DEF PointKept, ResumePoint
<1>9. CASE SynchronousException
  <2>1. Entered(begun, cpu')
    BY <1>2, <1>9, ExceptionKeepsPoint DEF SynchronousException, begun
  <2> QED BY <1>3, <2>1 DEF Entered, PointKept
<1>10. CASE Mtc0Cause
  <2> PICK bits \in SUBSET SoftwareIp :
        Mtc0(CheckInterrupts([begun EXCEPT !.ip = (@ \ SoftwareIp) \cup bits]))
    BY <1>10 DEF Mtc0Cause, begun
  <2> DEFINE ip == (begun.ip \ SoftwareIp) \cup bits
  <2>1. ip \in SUBSET IpBits
    BY <1>2 DEF Cpu, IpBits
  <2>2. cpu' = Retire(Privileged(begun, CheckInterrupts([begun EXCEPT !.ip = ip])))
    BY <1>2 DEF Mtc0, begun
  <2> HIDE DEF ip
  <2> QED BY <1>4, <2>1, <2>2
<1>11. CASE Mtc0Compare
  <2> DEFINE ip == begun.ip \ {Timer}
  <2>1. ip \in SUBSET IpBits
    BY <1>2 DEF Cpu
  <2>2. cpu' = Retire(Privileged(begun, CheckInterrupts([begun EXCEPT !.ip = ip])))
    BY <1>2, <1>11 DEF Mtc0Compare, Mtc0, begun
  <2> HIDE DEF ip
  <2> QED BY <1>4, <2>1, <2>2
<1>12. CASE Eret
  <2> DEFINE d == ReturnFromException(begun)
  <2>1. begun.branch_state = "NoBranch" /\ "exl" \in begun.status
    BY <1>3, <1>12 DEF Eret, MayRedirect
  <2>2. d \in Cpu /\ d.exception_occurred = TRUE /\ ResumePoint(d) = ResumePoint(begun)
    BY <1>2, <2>1, ReturnKeepsPoint
  <2>3. cpu' = Retire(Privileged(begun, d))
    BY <1>12 DEF Eret, begun
  <2> HIDE DEF d
  <2>4. CASE begun.can_exec_cop0_instrs
    BY <1>3, <2>2, <2>3, <2>4, RetireKeepsPoint DEF Privileged, PointKept
  <2>5. CASE ~ begun.can_exec_cop0_instrs
    <3>1. CommonException(begun) \in Cpu /\ Entered(begun, CommonException(begun))
      BY <1>2, ExceptionKeepsPoint
    <3> QED BY <1>3, <2>3, <2>5, <3>1, RetireKeepsPoint
            DEF Privileged, PointKept, Entered
  <2> QED BY <2>4, <2>5
<1>13. CASE StoreMiMode
  BY <1>5, <1>13 DEF StoreMiMode
<1>14. CASE StoreMiMask
  BY <1>5, <1>14 DEF StoreMiMask
<1>15. ASSUME NEW i \in InterruptType,
              StoreAck(i) \/ StoreRaise(i) \/ DeviceRaise(i) \/ DeviceClear(i)
       PROVE  PointKept(cpu, cpu')
  BY <1>5, <1>15 DEF StoreAck, StoreRaise, DeviceRaise, DeviceClear
<1>16. CASE OnCountCompareMatchEvent
  <2> DEFINE ip == cpu.ip \cup {Timer}
  <2>1. ip \in SUBSET IpBits
    BY <1>1 DEF Cpu, IpBits
  <2>2. cpu' = CheckInterrupts([cpu EXCEPT !.ip = ip])
    BY <1>16 DEF OnCountCompareMatchEvent
  <2> HIDE DEF ip
  <2> QED BY <1>4, <2>1, <2>2
<1>17. CASE UNCHANGED vars
  BY <1>17 DEF vars, PointKept
<1>18. ~ Mtc0Status /\ ~ Mtc0Epc
  BY DEF MayRedirect
<1> QED BY <1>6, <1>7, <1>8, <1>9, <1>10, <1>11, <1>12, <1>13, <1>14, <1>15,
           <1>16, <1>17, <1>18 DEF Next

-----------------------------------------------------------------------------
(* Theorems.                                                               *)

\* The inductive invariant holds in every reachable state.
LEMMA Invariance == Spec => []IInv
BY InitSettles, NextSettles, PTL DEF Spec

\* The registers of the CPU and of the MIPS Interface keep their types
\* (cop0.hpp, mi.cpp), for any devices and any address space.
THEOREM TypeCorrect == Spec => []TypeOK
<1>1. IInv => TypeOK
  BY DEF IInv, Settled, Quiet, TypeOK
<1> QED BY <1>1, Invariance, PTL

\* Cause.IP2 always agrees with MI_INTERRUPT and MI_MASK (mi.cpp, vr4300.cpp).
THEOREM PendingIsExact == Spec => []PendingMirrorsMi
<1>1. IInv => PendingMirrorsMi
  BY DEF IInv
<1> QED BY <1>1, Invariance, PTL

\* Whatever the devices, the masks and the program, no enabled interrupt is
\* left waiting between two instructions (CheckInterrupts of vr4300.cpp).
THEOREM InterruptsAreNotMissed == Spec => []NoMissedInterrupt
<1>1. IInv => NoMissedInterrupt
  BY DEF IInv, Settled, Quiet, NoMissedInterrupt
<1> QED BY <1>1, Invariance, PTL

\* The cached privilege of COP0 instructions always follows Status (mmu.cpp).
THEOREM CachedModeNeverStale == Spec => []CachedModeIsFresh
<1>1. IInv => CachedModeIsFresh
  BY DEF IInv, Settled, Fresh, CachedModeIsFresh
<1> QED BY <1>1, Invariance, PTL

\* Through interrupts, nested faults, handlers with branches of their own and
\* ERET, a program goes on where it was interrupted, at the branch if that was
\* between a branch and its delay slot, for every program, vector and device
\* (HandleException of exceptions.cpp, eret of cop0.cpp).
THEOREM ResumePointIsKept == Spec => ResumePointKept
<1>1. IInv /\ [Next]_vars =>
        [ "exl" \in cpu.status \/ "exl" \in cpu'.status
            => ResumePoint(cpu') = ResumePoint(cpu) \/ MayRedirect ]_vars
  BY NextKeepsPoint DEF PointKept
<1> QED BY <1>1, Invariance, PTL DEF Spec, ResumePointKept

(***************************************************************************)
(* The floating-point unit of the interpreter.  An instruction goes on     *)
(* while nothing it has met traps; once it is stopped it stores nothing.   *)
(* c is the unit as the instruction found it.                              *)
(***************************************************************************)
Shaped(s) ==
    /\ {"exc", "fcr31", "fenv", "fpr", "cycles", "fpu"} \subseteq DOMAIN s
    /\ {"cause", "flag", "enable", "c"} \subseteq DOMAIN s.fcr31

\* What traps: a cause that is enabled, or that the unit does not implement.
TrapCause(r) == r.cause \cap r.enable # {} \/ "unimplemented" \in r.cause

\* The flags are those there were and those of the causes met.
FlagsExplained(r, c) == r.flag \subseteq c.fcr31.flag \cup r.cause

Untrapped(s, c) ==
    /\ s.exc = "none"
    /\ ~ TrapCause(s.fcr31)
    /\ s.fcr31.cause \subseteq s.fcr31.flag
    /\ FlagsExplained(s.fcr31, c)

Going(s, c) ==
    /\ Shaped(s)
    /\ Untrapped(s, c)
    /\ s.fpr = c.fpr /\ s.fpu = c.fpu
    /\ s.fenv \subseteq HostExceptions

Stopped(s, c) ==
    /\ "cycles" \in DOMAIN s
    /\ s.exc = "FloatingPoint"
    /\ TrapCause(s.fcr31)
    /\ FlagsExplained(s.fcr31, c)
    /\ s.fpr = c.fpr

GoesOn(s, c) == Going(s, c) \/ Stopped(s, c)
Exact(s, c) == Untrapped(s, c) \/ Stopped(s, c)

\* The host knows no exception for what the unit does not implement.
LEMMA UnimplementedIsTheUnits == "unimplemented" \notin HostExceptions
BY DEF HostExceptions

\* What is not implemented always traps.
LEMMA UnimplementedStops ==
    ASSUME NEW s, NEW c, Going(s, c)
    PROVE  Stopped(F!Unimplemented(s), c)
<1> DEFINE t == F!Unimplemented(s)
<1>1. /\ t.exc = "FloatingPoint" /\ t.fpr = s.fpr /\ "cycles" \in DOMAIN t
      /\ t.fcr31.cause = s.fcr31.cause \cup {"unimplemented"}
      /\ t.fcr31.flag = s.fcr31.flag /\ t.fcr31.enable = s.fcr31.enable
  BY DEF F!Unimplemented, F!FloatingPointException, F!I!Raise, Going, Shaped
<1> HIDE DEF t
<1> QED BY <1>1 DEF t, Going, Untrapped, Stopped, TrapCause, FlagsExplained

\* The fields of the state that a signal changes.
LEMMA SignalFields ==
    ASSUME NEW s, NEW e, Shaped(s)
    PROVE  LET t == F!Signal(s, e)
           IN  /\ Shaped(t) /\ t.exc = s.exc /\ t.fpr = s.fpr /\ t.fpu = s.fpu /\ t.fenv = s.fenv
               /\ t.fcr31.cause = s.fcr31.cause \cup {e}
               /\ t.fcr31.enable = s.fcr31.enable
               /\ t.fcr31.flag = IF e \in s.fcr31.enable THEN s.fcr31.flag
                                                         ELSE s.fcr31.flag \cup {e}
BY DEF F!Signal, Shaped

\* A signal whose exception is masked is kept in the flags; the others trap.
LEMMA SignalGoesOn ==
    ASSUME NEW s, NEW c, NEW e \in HostExceptions, Going(s, c)
    PROVE  /\ e \notin s.fcr31.enable => Going(F!Signal(s, e), c)
           /\ GoesOn(F!SignalOrTrap(s, e), c)
<1> DEFINE t == F!Signal(s, e)
<1>1. /\ Shaped(t) /\ t.exc = s.exc /\ t.fpr = s.fpr /\ t.fpu = s.fpu /\ t.fenv = s.fenv
      /\ t.fcr31.cause = s.fcr31.cause \cup {e}
      /\ t.fcr31.enable = s.fcr31.enable
      /\ t.fcr31.flag = IF e \in s.fcr31.enable THEN s.fcr31.flag ELSE s.fcr31.flag \cup {e}
  BY SignalFields DEF Going
<1> HIDE DEF t
<1>2. e # "unimplemented"
  BY UnimplementedIsTheUnits
<1>3. e \notin s.fcr31.enable => Going(t, c)
  BY <1>1, <1>2 DEF Going, Untrapped, TrapCause, FlagsExplained
<1>4. ASSUME e \in s.fcr31.enable
      PROVE  Stopped(F!FloatingPointException(t), c)
  BY <1>1, <1>4 DEF F!FloatingPointException, F!I!Raise, Going, Untrapped, Stopped, Shaped,
                    TrapCause, FlagsExplained
<1> QED BY <1>3, <1>4 DEF F!SignalOrTrap, GoesOn, t

\* Charging cycles changes nothing of the unit.
LEMMA AdvanceGoesOn ==
    ASSUME NEW s, NEW c, NEW n
    PROVE  /\ Going(s, c) => Going(I!AdvancePipeline(s, n), c)
           /\ Stopped(s, c) => Stopped(I!AdvancePipeline(s, n), c)
BY DEF I!AdvancePipeline, Going, Stopped, Untrapped, Shaped

\* An operand that is not supported stops the instruction.
LEMMA RejectGoesOn ==
    ASSUME NEW s, NEW c, NEW kinds, Going(s, c)
    PROVE  GoesOn(F!Reject(s, kinds), c)
<1>1. "invalid" \in HostExceptions
  BY DEF HostExceptions
<1> QED BY <1>1, UnimplementedStops, SignalGoesOn DEF F!Reject, GoesOn

\* What the host raises is not looked at yet.
LEMMA HostRaisesGoesOn ==
    ASSUME NEW s, NEW c, NEW raised \in SUBSET HostExceptions, Going(s, c)
    PROVE  Going(F!HostRaises(s, raised), c)
BY DEF F!HostRaises, Going, Untrapped, Shaped

\* What a step of the unit leaves of the rest, when only the control word changes.
LEMMA CausesAdded ==
    ASSUME NEW s, NEW c, Going(s, c),
           ~ TrapCause([cause |-> s.fcr31.cause \cup s.fenv, enable |-> s.fcr31.enable])
    PROVE  Going(F!TestExceptions([s EXCEPT !.fcr31.cause = @ \cup s.fenv], TRUE), c)
<1> DEFINE t == [s EXCEPT !.fcr31.cause = @ \cup s.fenv]
<1>1. /\ Shaped(t) /\ t.exc = s.exc /\ t.fpr = s.fpr /\ t.fpu = s.fpu /\ t.fenv = s.fenv
      /\ t.fcr31.cause = s.fcr31.cause \cup s.fenv
      /\ t.fcr31.enable = s.fcr31.enable /\ t.fcr31.flag = s.fcr31.flag
  BY DEF Going, Shaped
<1> HIDE DEF t
<1>2. "unimplemented" \notin t.fcr31.cause /\ t.fcr31.cause \cap t.fcr31.enable = {}
  BY <1>1 DEF TrapCause
<1>3. F!TestExceptions(t, TRUE) = [t EXCEPT !.fcr31.flag = @ \cup t.fcr31.cause]
  BY <1>2, t.fcr31.cause \ {"unimplemented"} = t.fcr31.cause,
     t.fcr31.cause \ t.fcr31.enable = t.fcr31.cause DEF F!TestExceptions
<1> DEFINE u == [t EXCEPT !.fcr31.flag = @ \cup t.fcr31.cause]
<1>4. /\ Shaped(u) /\ u.exc = t.exc /\ u.fpr = t.fpr /\ u.fpu = t.fpu /\ u.fenv = t.fenv
      /\ u.fcr31.cause = t.fcr31.cause /\ u.fcr31.enable = t.fcr31.enable
      /\ u.fcr31.flag = t.fcr31.flag \cup t.fcr31.cause
  BY <1>1 DEF Shaped
<1> HIDE DEF u
<1>5. Going(u, c)
  BY <1>1, <1>2, <1>4 DEF Going, Untrapped, TrapCause, FlagsExplained
<1> QED BY <1>3, <1>5 DEF t, u

\* TestExceptions stops on what the host raised if some of it is enabled.
LEMMA CausesTrap ==
    ASSUME NEW s, NEW c, Going(s, c),
           TrapCause([cause |-> s.fcr31.cause \cup s.fenv, enable |-> s.fcr31.enable])
    PROVE  Stopped(F!TestExceptions([s EXCEPT !.fcr31.cause = @ \cup s.fenv], TRUE), c)
<1> DEFINE t == [s EXCEPT !.fcr31.cause = @ \cup s.fenv]
<1>1. /\ Shaped(t) /\ t.exc = s.exc /\ t.fpr = s.fpr
      /\ t.fcr31.cause = s.fcr31.cause \cup s.fenv
      /\ t.fcr31.enable = s.fcr31.enable /\ t.fcr31.flag = s.fcr31.flag
  BY DEF Going, Shaped
<1> HIDE DEF t
<1>2. "unimplemented" \notin t.fcr31.cause /\ t.fcr31.cause \cap t.fcr31.enable # {}
  BY <1>1, UnimplementedIsTheUnits DEF TrapCause, Going, Untrapped
<1> DEFINE u == [t EXCEPT !.fcr31.flag = @ \cup (t.fcr31.cause \ t.fcr31.enable)]
<1>3. F!TestExceptions(t, TRUE) = F!FloatingPointException(u)
  BY <1>2, t.fcr31.cause \ {"unimplemented"} = t.fcr31.cause DEF F!TestExceptions
<1>4. /\ Shaped(u) /\ u.exc = t.exc /\ u.fpr = t.fpr
      /\ u.fcr31.cause = t.fcr31.cause /\ u.fcr31.enable = t.fcr31.enable
      /\ u.fcr31.flag = t.fcr31.flag \cup (t.fcr31.cause \ t.fcr31.enable)
  BY <1>1 DEF Shaped
<1> HIDE DEF u
<1> DEFINE v == F!FloatingPointException(u)
<1>5. /\ v.exc = "FloatingPoint" /\ v.fpr = u.fpr /\ v.fcr31 = u.fcr31 /\ "cycles" \in DOMAIN v
  BY <1>4 DEF F!FloatingPointException, F!I!Raise, Shaped
<1> HIDE DEF v
<1>6. Stopped(v, c)
  BY <1>1, <1>2, <1>4, <1>5 DEF Stopped, Going, Untrapped, TrapCause, FlagsExplained
<1> QED BY <1>3, <1>6 DEF t, v

\* Both tests of what the host raised.
LEMMA GetAndTestGoesOn ==
    ASSUME NEW s, NEW c, Going(s, c)
    PROVE  GoesOn(F!GetAndTestExceptions(s), c)
BY CausesAdded, CausesTrap, UnimplementedStops DEF F!GetAndTestExceptions, GoesOn

\* The test after a conversion to an integer.
LEMMA TestConvertedGoesOn ==
    ASSUME NEW s, NEW c, NEW to, Going(s, c)
    PROVE  GoesOn(F!TestConverted(s, to), c)
BY GetAndTestGoesOn, UnimplementedStops
   DEF F!TestConverted, F!GetAndTestExceptionsConvFloatToWord, GoesOn

\* The test of the result: flushing signals only what is masked.
LEMMA OutputGoesOn ==
    ASSUME NEW s, NEW c, NEW w, NEW f, Going(s, c)
    PROVE  GoesOn(F!IsValidOutput(s, w, f).s, c)
<1>1. CASE F!IsNan(w, f)
  BY <1>1 DEF F!IsValidOutput, F!IsNan, GoesOn
<1>2. CASE ~ F!IsNan(w, f) /\ F!Kind(w, f) # "subnormal"
  BY <1>2 DEF F!IsValidOutput, GoesOn
<1>3. CASE F!Kind(w, f) = "subnormal" /\ F!NoFlush(s)
  BY <1>3, UnimplementedStops DEF F!IsValidOutput, F!IsNan, GoesOn
<1>4. CASE F!Kind(w, f) = "subnormal" /\ ~ F!NoFlush(s)
  <2> DEFINE t == F!Signal(s, "underflow")
  <2>1. "underflow" \in HostExceptions /\ "inexact" \in HostExceptions
    BY DEF HostExceptions
  <2>2. "underflow" \notin s.fcr31.enable /\ "inexact" \notin s.fcr31.enable
    BY <1>4 DEF F!NoFlush
  <2>3. Going(t, c)
    BY <2>1, <2>2, SignalGoesOn
  <2>4. t.fcr31.enable = s.fcr31.enable
    BY SignalFields DEF Going
  <2> HIDE DEF t
  <2>5. Going(F!Signal(t, "inexact"), c)
    BY <2>1, <2>2, <2>3, <2>4, SignalGoesOn
  <2>6. F!IsValidOutput(s, w, f).s = F!Signal(t, "inexact")
    BY <1>4 DEF F!IsValidOutput, F!IsNan, t
  <2> QED BY <2>5, <2>6 DEF GoesOn
<1> QED BY <1>1, <1>2, <1>3, <1>4

\* Storing the result changes no exception.
LEMMA SetIsExact ==
    ASSUME NEW s, NEW c, NEW r, NEW w, NEW v, Going(s, c)
    PROVE  Exact(F!Set(s, r, w, v), c)
BY DEF F!Set, Going, Exact, Untrapped, Shaped

\* The end of every arithmetic instruction.
LEMMA StoredIsExact ==
    ASSUME NEW s, NEW c, NEW r, NEW w, NEW f, Going(s, c)
    PROVE  Exact(F!Stored(s, r, w, f), c)
<1> DEFINE t == F!GetAndTestExceptions(s)
           out == F!IsValidOutput(t, w, f)
<1>1. GoesOn(t, c)
  BY GetAndTestGoesOn
<1> HIDE DEF t
<1>2. CASE Stopped(t, c)
  <2>1. t.exc # "none"
    BY <1>2 DEF Stopped
  <2>2. F!Stored(s, r, w, f) = t
    BY <2>1 DEF F!Stored, F!Then, t
  <2> QED BY <1>2, <2>2 DEF Exact
<1>3. CASE Going(t, c)
  <2>1. t.exc = "none"
    BY <1>3 DEF Going, Untrapped
  <2>2. GoesOn(out.s, c)
    BY <1>3, OutputGoesOn
  <2>3. F!Stored(s, r, w, f) = IF out.s.exc = "none" THEN F!Set(out.s, r, w, out.f) ELSE out.s
    BY <2>1 DEF F!Stored, F!Then, t
  <2> HIDE DEF out
  <2>4. CASE Going(out.s, c)
    BY <2>3, <2>4, SetIsExact DEF Going, Untrapped
  <2>5. CASE Stopped(out.s, c)
    BY <2>3, <2>5 DEF Stopped, Exact
  <2> QED BY <2>2, <2>4, <2>5 DEF GoesOn
<1> QED BY <1>1, <1>2, <1>3 DEF GoesOn

\* The unit before an instruction, and once the causes of the last one are cleared.
Ready(s, c) ==
    /\ Shaped(s) /\ s.cu1 /\ s.exc = "none"
    /\ s.fpr = c.fpr /\ s.fpu = c.fpu /\ s.fcr31.flag = c.fcr31.flag
    /\ c.fpu.raised \subseteq HostExceptions

\* Clearing the causes leaves nothing that traps.
LEMMA ClearedGoes ==
    ASSUME NEW s, NEW c, Ready(s, c)
    PROVE  Going(F!ClearAllExceptions(s), c)
BY DEF F!ClearAllExceptions, Ready, Going, Shaped, Untrapped, TrapCause, FlagsExplained

\* A state that goes on, or has stopped, is one the property allows.
LEMMA GoingIsExact ==
    ASSUME NEW s, NEW c
    PROVE  /\ Going(s, c) => Exact(s, c) /\ s.exc = "none" /\ s.fpu = c.fpu
           /\ Stopped(s, c) => Exact(s, c) /\ s.exc # "none"
BY DEF Going, Stopped, Exact, Untrapped

\* A format the instruction does not have.
LEMMA InvalidFormatIsExact ==
    ASSUME NEW s, NEW c, Ready(s, c)
    PROVE  Exact(F!OnInvalidFormat(s), c)
<1> DEFINE t == F!ClearAllExceptions(s)
           u == I!AdvancePipeline(t, 1)
<1>1. Going(u, c)
  BY ClearedGoes, AdvanceGoesOn
<1>2. F!OnInvalidFormat(s) = F!Unimplemented(u)
  BY DEF F!OnInvalidFormat, F!FpuUsable, Ready, F!I!AdvancePipeline, I!AdvancePipeline
<1> HIDE DEF u
<1> QED BY <1>1, <1>2, UnimplementedStops DEF Exact

\* An operand refused ends the instruction; the rest of it is g.
LEMMA CheckedIsExact ==
    ASSUME NEW t, NEW c, NEW n, NEW g, GoesOn(t, c), Going(t, c) => Exact(g, c)
    PROVE  Exact(IF t.exc # "none" THEN I!AdvancePipeline(t, n) ELSE g, c)
BY AdvanceGoesOn, GoingIsExact DEF GoesOn

\* The tests of the operands.
LEMMA InputGoesOn ==
    ASSUME NEW s, NEW c, NEW w, NEW f, NEW f2, Going(s, c)
    PROVE  /\ GoesOn(F!IsValidInput(s, w, f), c)
           /\ GoesOn(F!IsValidInputs(s, w, f, f2), c)
           /\ GoesOn(F!IsValidInputCvtRound(s, w, f), c)
BY RejectGoesOn, UnimplementedStops
   DEF F!IsValidInput, F!IsValidInputs, F!IsValidInputCvtRound, GoesOn

\* The operations, each along its tests.
LEMMA AbsIsExact ==
    ASSUME NEW s, NEW c, NEW o, Ready(s, c)
    PROVE  Exact(F!abs(s, o), c)
<1> DEFINE w == F!Width(o.fmt)
           t == F!ClearAllExceptions(s)
           f == F!GetFs(t, w, o.fs)
           checked == F!IsValidInput(t, w, f)
           g == F!Stored(checked, o.fd, w, F!Magnitude(w, f))
<1>1. GoesOn(checked, c)
  BY ClearedGoes, InputGoesOn
<1>2. Going(checked, c) => Exact(g, c)
  BY StoredIsExact
<1>3. F!abs(s, o) = IF o.fmt \in F!Floats
                   THEN IF checked.exc # "none" THEN I!AdvancePipeline(checked, 2) ELSE g
                   ELSE F!OnInvalidFormat(s)
  BY Zenon DEF F!abs, F!OfFloat, F!Unary, F!FpuUsable, Ready, F!I!AdvancePipeline,
               I!AdvancePipeline
<1> HIDE DEF checked, g
<1> QED BY <1>1, <1>2, <1>3, CheckedIsExact, InvalidFormatIsExact

LEMMA NegIsExact ==
    ASSUME NEW s, NEW c, NEW o, Ready(s, c)
    PROVE  Exact(F!neg(s, o), c)
<1> DEFINE w == F!Width(o.fmt)
           t == F!ClearAllExceptions(s)
           f == F!GetFs(t, w, o.fs)
           checked == F!IsValidInput(t, w, f)
           g == F!Stored(checked, o.fd, w, F!Fit(w, f + 2^(w - 1)))
<1>1. GoesOn(checked, c)
  BY ClearedGoes, InputGoesOn
<1>2. Going(checked, c) => Exact(g, c)
  BY StoredIsExact
<1>3. F!neg(s, o) = IF o.fmt \in F!Floats
                   THEN IF checked.exc # "none" THEN I!AdvancePipeline(checked, 2) ELSE g
                   ELSE F!OnInvalidFormat(s)
  BY Zenon DEF F!neg, F!OfFloat, F!Unary, F!FpuUsable, Ready, F!I!AdvancePipeline,
               I!AdvancePipeline
<1> HIDE DEF checked, g
<1> QED BY <1>1, <1>2, <1>3, CheckedIsExact, InvalidFormatIsExact

LEMMA SquareRootIsExact ==
    ASSUME NEW s, NEW c, NEW o, Ready(s, c)
    PROVE  Exact(F!SquareRoot(s, o), c)
<1> DEFINE w == F!Width(o.fmt)
           t == F!ClearAllExceptions(s)
           checked == F!IsValidInput(t, w, F!GetFs(t, w, o.fs))
           on == I!AdvancePipeline(checked, F!ByWidth(o, 28, 57))
           g == F!Stored(F!HostRaises(on, t.fpu.raised), o.fd, w, F!HostFloat(t, w))
<1>1. GoesOn(checked, c)
  BY ClearedGoes, InputGoesOn
<1>2. t.fpu.raised \in SUBSET HostExceptions
  BY ClearedGoes, GoingIsExact DEF Ready
<1>3. F!SquareRoot(s, o) =
        IF checked.exc # "none" THEN I!AdvancePipeline(checked, 2) ELSE g
  BY DEF F!SquareRoot, F!FpuUsable, Ready, F!I!AdvancePipeline, I!AdvancePipeline
<1> HIDE DEF checked, t
<1>4. Going(checked, c) => Going(on, c)
  BY AdvanceGoesOn
<1> HIDE DEF on
<1>5. Going(checked, c) => Exact(g, c)
  BY <1>2, <1>4, HostRaisesGoesOn, StoredIsExact
<1> HIDE DEF g
<1> QED BY <1>1, <1>3, <1>5, CheckedIsExact

LEMMA BinaryIsExact ==
    ASSUME NEW s, NEW c, NEW o, NEW cycles, Ready(s, c)
    PROVE  Exact(F!Binary(s, o, cycles), c)
<1> DEFINE w == F!Width(o.fmt)
           t == F!ClearAllExceptions(s)
           checked == F!IsValidInputs(t, w, F!GetFs(t, w, o.fs), F!GetFt(t, w, o.ft))
           on == I!AdvancePipeline(checked, cycles)
           g == F!Stored(F!HostRaises(on, t.fpu.raised), o.fd, w, F!HostFloat(t, w))
<1>1. GoesOn(checked, c)
  BY ClearedGoes, InputGoesOn
<1>2. t.fpu.raised \in SUBSET HostExceptions
  BY ClearedGoes, GoingIsExact DEF Ready
<1>3. F!Binary(s, o, cycles) =
        IF checked.exc # "none" THEN I!AdvancePipeline(checked, 1) ELSE g
  BY DEF F!Binary, F!FpuUsable, Ready, F!I!AdvancePipeline, I!AdvancePipeline
<1> HIDE DEF checked, t
<1>4. Going(checked, c) => Going(on, c)
  BY AdvanceGoesOn
<1> HIDE DEF on
<1>5. Going(checked, c) => Exact(g, c)
  BY <1>2, <1>4, HostRaisesGoesOn, StoredIsExact
<1> HIDE DEF g
<1> QED BY <1>1, <1>3, <1>5, CheckedIsExact

\* The source of a conversion.
LEMMA SourceGoesOn ==
    ASSUME NEW s, NEW c, NEW from, NEW to, NEW v, Going(s, c)
    PROVE  GoesOn(F!ValidSource(s, from, to, v), c)
<1>1. GoesOn(s, c) /\ GoesOn(F!Unimplemented(s), c)
  BY UnimplementedStops DEF GoesOn
<1>2. /\ GoesOn(F!IsValidInput(s, F!Width(from), v), c)
      /\ GoesOn(F!IsValidInputCvtRound(s, F!Width(from), v), c)
  BY InputGoesOn
<1> DEFINE Limited == IF F!Sd(v) >= F!LongLimit \/ F!Sd(v) < -F!LongLimit
                      THEN F!Unimplemented(s) ELSE s
<1>3. F!ValidSource(s, from, to, v) \in
        {F!IsValidInput(s, F!Width(from), v), F!IsValidInputCvtRound(s, F!Width(from), v),
         Limited, s}
  BY Zenon DEF F!ValidSource
<1>4. GoesOn(Limited, c)
  BY <1>1
<1> HIDE DEF Limited
<1> QED BY <1>1, <1>2, <1>3, <1>4

\* The rest of an instruction runs if its first part raised nothing.
LEMMA ThenIsExact ==
    ASSUME NEW t, NEW c, NEW g, GoesOn(t, c), Going(t, c) => Exact(g, c)
    PROVE  Exact(IF t.exc = "none" THEN g ELSE t, c)
BY GoingIsExact DEF GoesOn

\* The conversions, and the roundings.
LEMMA ConvertIsExact ==
    ASSUME NEW s, NEW c, NEW o, NEW to, Ready(s, c)
    PROVE  Exact(F!Convert(s, o, to), c)
<1> DEFINE t == I!AdvancePipeline(F!ClearAllExceptions(s), F!ConvertCycles(o.fmt, to))
           u == F!ValidSource(t, o.fmt, to, F!GetFs(t, F!Width(o.fmt), o.fs))
           raised == F!HostRaises(u, u.fpu.raised)
           v == F!TestConverted(raised, to)
           x == F!Set(v, o.fd, F!Width(to), v.fpu.int)
           tested == IF v.exc = "none" THEN x ELSE v
           y == F!Stored(raised, o.fd, F!Width(to), F!HostFloat(u, F!Width(to)))
           g == IF to \in F!Floats THEN y ELSE tested
<1>1. F!Convert(s, o, to) =
        IF o.fmt = to \/ {o.fmt, to} = F!Integral THEN F!Unimplemented(t)
        ELSE IF u.exc = "none" THEN g ELSE u
  BY Zenon DEF F!Convert, F!FpuUsable, F!Then, Ready, F!I!AdvancePipeline, I!AdvancePipeline
<1>2. Going(t, c)
  BY ClearedGoes, AdvanceGoesOn
<1> HIDE DEF t
<1>3. GoesOn(u, c)
  BY <1>2, SourceGoesOn
<1> HIDE DEF u
<1>4. ASSUME Going(u, c) PROVE Exact(g, c)
  <2>1. u.fpu.raised \in SUBSET HostExceptions
    BY <1>4, GoingIsExact DEF Ready
  <2>2. Going(raised, c)
    BY <1>4, <2>1, HostRaisesGoesOn
  <2> HIDE DEF raised
  <2>3. Exact(y, c) /\ GoesOn(v, c)
    BY <2>2, StoredIsExact, TestConvertedGoesOn
  <2> HIDE DEF v, y
  <2>4. Going(v, c) => Exact(x, c)
    BY SetIsExact
  <2> HIDE DEF x
  <2>5. Exact(tested, c)
    BY <2>3, <2>4, ThenIsExact
  <2> HIDE DEF tested
  <2> QED BY <2>3, <2>5
<1> HIDE DEF g
<1>5. Exact(IF u.exc = "none" THEN g ELSE u, c)
  BY <1>3, <1>4, ThenIsExact
<1>6. Exact(F!Unimplemented(t), c)
  BY <1>2, UnimplementedStops, GoingIsExact
<1> QED BY <1>1, <1>5, <1>6

LEMMA RoundIsExact ==
    ASSUME NEW s, NEW c, NEW o, NEW to, NEW raises, Ready(s, c)
    PROVE  Exact(F!Round(s, o, to, raises), c)
<1> DEFINE w == F!Width(o.fmt)
           t == F!ClearAllExceptions(s)
           source == F!GetFs(t, w, o.fs)
           u == F!IsValidInputCvtRound(I!AdvancePipeline(t, 4), w, source)
           v == F!TestConverted(F!HostRaises(u, IF raises THEN u.fpu.raised ELSE {}), to)
           x == IF F!Kind(w, source) = "fraction" THEN F!SignalOrTrap(v, "inexact") ELSE v
           y == F!Set(x, o.fd, F!Width(to), x.fpu.int)
           third == IF x.exc = "none" THEN y ELSE x
           second == IF v.exc = "none" THEN third ELSE v
<1>1. F!Round(s, o, to, raises) = IF u.exc = "none" THEN second ELSE u
  BY Zenon DEF F!Round, F!FpuUsable, F!Then, Ready, F!I!AdvancePipeline, I!AdvancePipeline
<1>2. GoesOn(u, c)
  BY ClearedGoes, AdvanceGoesOn, InputGoesOn
<1> HIDE DEF u
<1>3. ASSUME Going(u, c) PROVE GoesOn(v, c)
  <2>1. (IF raises THEN u.fpu.raised ELSE {}) \in SUBSET HostExceptions
    BY <1>3, GoingIsExact DEF Ready
  <2> QED BY <1>3, <2>1, HostRaisesGoesOn, TestConvertedGoesOn
<1> HIDE DEF v
<1>4. ASSUME Going(v, c) PROVE GoesOn(x, c)
  <2>1. "inexact" \in HostExceptions
    BY DEF HostExceptions
  <2>2. GoesOn(F!SignalOrTrap(v, "inexact"), c) /\ GoesOn(v, c)
    BY <1>4, <2>1, SignalGoesOn DEF GoesOn
  <2> QED BY <2>2
<1> HIDE DEF x
<1>5. Going(x, c) => Exact(y, c)
  BY SetIsExact
<1> HIDE DEF y
<1>6. GoesOn(x, c) => Exact(third, c)
  BY <1>5, ThenIsExact
<1> HIDE DEF third
<1>7. GoesOn(v, c) => Exact(second, c)
  BY <1>4, <1>6, ThenIsExact
<1> HIDE DEF second
<1> QED BY <1>1, <1>2, <1>3, <1>7, ThenIsExact

\* A comparison with a NaN may signal it; any other stores the condition.
LEMMA CompareIsExact ==
    ASSUME NEW s, NEW c, NEW o, NEW w, Going(s, c)
    PROVE  Exact(F!Compare(s, o, w), c)
<1>1. ASSUME NEW t, NEW b, Going(t, c) PROVE Exact([t EXCEPT !.fcr31.c = b], c)
  BY <1>1 DEF Going, Exact, Untrapped, Shaped, TrapCause, FlagsExplained
<1>2. "invalid" \in HostExceptions
  BY DEF HostExceptions
<1>3. PICK t : /\ t \in {F!SignalOrTrap(s, "invalid"), s}
               /\ \E b : F!Compare(s, o, w) \in
                    {IF t.exc # "none" THEN I!AdvancePipeline(t, 1) ELSE [t EXCEPT !.fcr31.c = b],
                     [s EXCEPT !.fcr31.c = b]}
  BY Zenon DEF F!Compare, F!I!AdvancePipeline, I!AdvancePipeline
<1>4. GoesOn(t, c)
  BY <1>2, <1>3, SignalGoesOn DEF GoesOn
<1>5. PICK b : F!Compare(s, o, w) \in
                    {IF t.exc # "none" THEN I!AdvancePipeline(t, 1) ELSE [t EXCEPT !.fcr31.c = b],
                     [s EXCEPT !.fcr31.c = b]}
  BY <1>3
<1>6. Exact([s EXCEPT !.fcr31.c = b], c) /\ (Going(t, c) => Exact([t EXCEPT !.fcr31.c = b], c))
  BY <1>1
<1> DEFINE e1 == [s EXCEPT !.fcr31.c = b]
           e2 == [t EXCEPT !.fcr31.c = b]
           g == IF t.exc # "none" THEN I!AdvancePipeline(t, 1) ELSE e2
<1>7. F!Compare(s, o, w) = g \/ F!Compare(s, o, w) = e1
  BY <1>5
<1> HIDE DEF e2
<1>8. Exact(g, c)
  BY <1>4, <1>6, CheckedIsExact DEF e2
<1> QED BY <1>6, <1>7, <1>8

\* Every operation of the unit, whatever its format, operands and control word.
LEMMA ArithmeticIsExact ==
    ASSUME NEW s, NEW c, NEW o, Ready(s, c)
    PROVE  /\ Exact(F!abs(s, o), c) /\ Exact(F!neg(s, o), c) /\ Exact(F!sqrt(s, o), c)
           /\ Exact(F!add(s, o), c) /\ Exact(F!sub(s, o), c)
           /\ Exact(F!mul(s, o), c) /\ Exact(F!div(s, o), c)
BY AbsIsExact, NegIsExact, SquareRootIsExact, BinaryIsExact, InvalidFormatIsExact
   DEF F!sqrt, F!add, F!sub, F!mul, F!div, F!OfFloat

\* Every conversion and rounding.
LEMMA ConversionIsExact ==
    ASSUME NEW s, NEW c, NEW o, Ready(s, c)
    PROVE  /\ Exact(F!cvt_d(s, o), c) /\ Exact(F!cvt_s(s, o), c)
           /\ Exact(F!cvt_l(s, o), c) /\ Exact(F!cvt_w(s, o), c)
           /\ Exact(F!ceil_l(s, o), c) /\ Exact(F!ceil_w(s, o), c)
           /\ Exact(F!floor_l(s, o), c) /\ Exact(F!floor_w(s, o), c)
           /\ Exact(F!round_l(s, o), c) /\ Exact(F!round_w(s, o), c)
           /\ Exact(F!trunc_l(s, o), c) /\ Exact(F!trunc_w(s, o), c)
BY ConvertIsExact, RoundIsExact, InvalidFormatIsExact
   DEF F!cvt_d, F!cvt_s, F!cvt_l, F!cvt_w, F!ceil_l, F!ceil_w, F!floor_l, F!floor_w,
       F!round_l, F!round_w, F!trunc_l, F!trunc_w, F!OfFloat

\* The comparison.
LEMMA ComparisonIsExact ==
    ASSUME NEW s, NEW c, NEW o, Ready(s, c)
    PROVE  Exact(F!compare(s, o), c)
<1> DEFINE t == F!ClearAllExceptions(s)
<1>1. F!compare(s, o) = IF o.fmt \in F!Floats THEN F!Compare(t, o, F!Width(o.fmt))
                        ELSE F!OnInvalidFormat(s)
  BY Zenon DEF F!compare, F!FpuUsable, Ready
<1>2. Going(t, c)
  BY ClearedGoes
<1> HIDE DEF t
<1> QED BY <1>1, <1>2, CompareIsExact, InvalidFormatIsExact

\* The machine states the instructions start from.
LEMMA ContextsAreReady ==
    ASSUME NEW c \in Arithmetic \cup Compared, c.fp.cu1
    PROVE  Ready(Interpreter(c), c.fp)
<1> DEFINE s == Interpreter(c)
<1>1. AnyResult \in HostResults
  BY HostResultsAssumption DEF AnyResult
<1> DEFINE Sourced(d) == d.fp.fcr31 \in ControlWords /\ d.fp.fpu \in HostResults
<1>2. Sourced(c)
  <2>1. ASSUME NEW control \in ControlWords, NEW v, NEW result \in HostResults
        PROVE  Sourced(UnitOff(control)) /\ Sourced(UnitOn(v, control, result))
    BY <1>1 DEF UnitOff, UnitOn, Plainly, Context, Fpu, NoFpu
  <2> HIDE DEF Sourced
  <2>2. CASE c \in Disabled
    <3>1. PICK control \in ControlWords : c = UnitOff(control)
      BY <2>2 DEF Disabled
    <3> QED BY <1>1, <2>1, <3>1
  <2>3. CASE c \in Arithmetic \ Disabled
    <3>1. PICK v \in FpValues, control \in ControlWords, result \in HostResults :
                 c = UnitOn(v, control, result)
      BY <2>3 DEF Arithmetic
    <3> QED BY <2>1, <3>1
  <2>4. CASE c \in Compared \ Disabled
    <3>1. PICK v \in FpValues, control \in ControlWords : c = UnitOn(v, control, AnyResult)
      BY <2>4 DEF Compared
    <3> QED BY <1>1, <2>1, <3>1
  <2> QED BY <2>2, <2>3, <2>4
<1>3. /\ {"exc", "fcr31", "fenv", "fpr", "cycles", "fpu"} \subseteq DOMAIN s
      /\ s.exc = "none" /\ s.cu1 = c.fp.cu1
      /\ s.fpr = c.fp.fpr /\ s.fpu = c.fp.fpu /\ s.fcr31 = c.fp.fcr31
  BY DEF Interpreter, Common
<1> HIDE DEF s
<1>4. {"cause", "flag", "enable", "c"} \subseteq DOMAIN c.fp.fcr31
  BY <1>2, ControlWordsAssumption
<1>5. c.fp.fpu.raised \subseteq HostExceptions
  BY <1>2, HostResultsAssumption
<1> QED BY <1>3, <1>4, <1>5 DEF Ready, Shaped, s

\* What a step that runs an operation of the unit leaves.
OperationDone ==
    \E c, s : ctx' = c /\ interp' = Interpreted(s) /\ (c.fp.cu1 => Exact(s, c.fp))

\* Only exc, fcr31 and fpr of the state reach the property.
LEMMA DoneIsExact == OperationDone => FpuTrapsExactly'
<1> SUFFICES ASSUME OperationDone PROVE FpuTrapsExactly'
  OBVIOUS
<1>1. PICK c, s : ctx' = c /\ interp' = Interpreted(s) /\ (c.fp.cu1 => Exact(s, c.fp))
  BY DEF OperationDone
<1>2. interp'.exc = s.exc /\ interp'.fcr31 = s.fcr31 /\ interp'.fpr = s.fpr
  BY <1>1 DEF Interpreted, Result
<1> QED BY <1>1, <1>2
    DEF FpuTrapsExactly, Exact, Untrapped, Stopped, TrapCause, FlagsExplained

\* The instructions of each group.
LEMMA Cop1ArithmeticRuns ==
    ASSUME Cop1Arithmetic PROVE OperationDone
<1>0. ASSUME NEW c \in Arithmetic \cup Compared, NEW o, c.fp.cu1
      PROVE  /\ Exact(F!abs(Interpreter(c), o), c.fp) /\ Exact(F!neg(Interpreter(c), o), c.fp)
             /\ Exact(F!sqrt(Interpreter(c), o), c.fp) /\ Exact(F!add(Interpreter(c), o), c.fp)
             /\ Exact(F!sub(Interpreter(c), o), c.fp) /\ Exact(F!mul(Interpreter(c), o), c.fp)
             /\ Exact(F!div(Interpreter(c), o), c.fp)
  BY <1>0, ContextsAreReady, ArithmeticIsExact
<1>1. FpRun("abs.f", Computing, Compared, F!abs, X!abs) => OperationDone
  BY <1>0, Zenon DEF FpRun, Run, OperationDone
<1>2. FpRun("neg.f", Computing, Compared, F!neg, X!neg) => OperationDone
  BY <1>0, Zenon DEF FpRun, Run, OperationDone
<1>3. FpRun("sqrt.f", Computing, Arithmetic, F!sqrt, X!sqrt) => OperationDone
  BY <1>0, Zenon DEF FpRun, Run, OperationDone
<1>4. FpRun("add.f", Computing, Arithmetic, F!add, X!add) => OperationDone
  BY <1>0, Zenon DEF FpRun, Run, OperationDone
<1>5. FpRun("sub.f", Computing, Arithmetic, F!sub, X!sub) => OperationDone
  BY <1>0, Zenon DEF FpRun, Run, OperationDone
<1>6. FpRun("mul.f", Computing, Arithmetic, F!mul, X!mul) => OperationDone
  BY <1>0, Zenon DEF FpRun, Run, OperationDone
<1>7. FpRun("div.f", Computing, Arithmetic, F!div, X!div) => OperationDone
  BY <1>0, Zenon DEF FpRun, Run, OperationDone
<1> QED BY <1>1, <1>2, <1>3, <1>4, <1>5, <1>6, <1>7, Zenon DEF Cop1Arithmetic

LEMMA Cop1ConversionsRuns ==
    ASSUME Cop1Conversions PROVE OperationDone
<1>0. ASSUME NEW c \in Arithmetic \cup Compared, NEW o, c.fp.cu1
      PROVE  /\ Exact(F!cvt_d(Interpreter(c), o), c.fp) /\ Exact(F!cvt_l(Interpreter(c), o), c.fp)
             /\ Exact(F!cvt_s(Interpreter(c), o), c.fp) /\ Exact(F!cvt_w(Interpreter(c), o), c.fp)
             /\ Exact(F!ceil_l(Interpreter(c), o), c.fp) /\ Exact(F!ceil_w(Interpreter(c), o), c.fp)
             /\ Exact(F!floor_l(Interpreter(c), o), c.fp) /\ Exact(F!floor_w(Interpreter(c), o), c.fp)
             /\ Exact(F!round_l(Interpreter(c), o), c.fp) /\ Exact(F!round_w(Interpreter(c), o), c.fp)
             /\ Exact(F!trunc_l(Interpreter(c), o), c.fp) /\ Exact(F!trunc_w(Interpreter(c), o), c.fp)
  BY <1>0, ContextsAreReady, ConversionIsExact
<1>1. FpRun("cvt_d", Computing, Arithmetic, F!cvt_d, X!cvt_d) => OperationDone
  BY <1>0, Zenon DEF FpRun, Run, OperationDone
<1>2. FpRun("cvt_l", Computing, Arithmetic, F!cvt_l, X!cvt_l) => OperationDone
  BY <1>0, Zenon DEF FpRun, Run, OperationDone
<1>3. FpRun("cvt_s", Computing, Arithmetic, F!cvt_s, X!cvt_s) => OperationDone
  BY <1>0, Zenon DEF FpRun, Run, OperationDone
<1>4. FpRun("cvt_w", Computing, Arithmetic, F!cvt_w, X!cvt_w) => OperationDone
  BY <1>0, Zenon DEF FpRun, Run, OperationDone
<1>5. FpRun("ceil_l", Computing, Compared, F!ceil_l, X!ceil_l) => OperationDone
  BY <1>0, Zenon DEF FpRun, Run, OperationDone
<1>6. FpRun("ceil_w", Computing, Compared, F!ceil_w, X!ceil_w) => OperationDone
  BY <1>0, Zenon DEF FpRun, Run, OperationDone
<1>7. FpRun("floor_l", Computing, Compared, F!floor_l, X!floor_l) => OperationDone
  BY <1>0, Zenon DEF FpRun, Run, OperationDone
<1>8. FpRun("floor_w", Computing, Compared, F!floor_w, X!floor_w) => OperationDone
  BY <1>0, Zenon DEF FpRun, Run, OperationDone
<1>9. FpRun("round_l", Computing, Arithmetic, F!round_l, X!round_l) => OperationDone
  BY <1>0, Zenon DEF FpRun, Run, OperationDone
<1>10. FpRun("round_w", Computing, Arithmetic, F!round_w, X!round_w) => OperationDone
  BY <1>0, Zenon DEF FpRun, Run, OperationDone
<1>11. FpRun("trunc_l", Computing, Compared, F!trunc_l, X!trunc_l) => OperationDone
  BY <1>0, Zenon DEF FpRun, Run, OperationDone
<1>12. FpRun("trunc_w", Computing, Compared, F!trunc_w, X!trunc_w) => OperationDone
  BY <1>0, Zenon DEF FpRun, Run, OperationDone
<1> QED BY <1>1, <1>2, <1>3, <1>4, <1>5, <1>6, <1>7, <1>8, <1>9, <1>10, <1>11, <1>12, Zenon
       DEF Cop1Conversions

\* The comparison is among the moves; the others are none the property is about.
OtherCpuRun == instr' \notin FpOperations

LEMMA AluRuns == Alu => OtherCpuRun
BY DEF Alu, Run, OtherCpuRun, FpOperations, FpUnary, FpBinary, Roundings, Conversions
LEMMA ShiftRuns == ShiftInstructions => OtherCpuRun
BY DEF ShiftInstructions, Run, OtherCpuRun, FpOperations, FpUnary, FpBinary, Roundings, Conversions
LEMMA MulDivRuns == MulDiv => OtherCpuRun
BY DEF MulDiv, Run, OtherCpuRun, FpOperations, FpUnary, FpBinary, Roundings, Conversions
LEMMA BranchRuns == BranchInstructions => OtherCpuRun
BY DEF BranchInstructions, Run, OtherCpuRun, FpOperations, FpUnary, FpBinary, Roundings, Conversions
LEMMA MemoryRuns == Memory => OtherCpuRun
BY DEF Memory, Run, OtherCpuRun, FpOperations, FpUnary, FpBinary, Roundings, Conversions
LEMMA TrapRuns == Traps => OtherCpuRun
BY DEF Traps, Run, OtherCpuRun, FpOperations, FpUnary, FpBinary, Roundings, Conversions
LEMMA MoveRuns == Cop1Moves => OtherCpuRun \/ OperationDone
<1>1. ASSUME NEW c \in Arithmetic \cup Compared, NEW o, c.fp.cu1
      PROVE  Exact(F!compare(Interpreter(c), o), c.fp)
  BY <1>1, ContextsAreReady, ComparisonIsExact
<1>2. FpRun("compare", Comparing, Compared, F!compare, X!compare) => OperationDone
  BY <1>1, Zenon DEF FpRun, Run, OperationDone
<1>3. Cop1Moves => OtherCpuRun \/ FpRun("compare", Comparing, Compared, F!compare, X!compare)
  BY DEF Cop1Moves, FpRun, Run, OtherCpuRun, FpOperations, FpUnary, FpBinary, Roundings, Conversions
<1> QED BY <1>2, <1>3

\* Nothing has run at first.
LEMMA FpuTrapsInit == CpuInit => FpuTrapsExactly
BY DEF CpuInit, FpuTrapsExactly, FpOperations, FpUnary, FpBinary, Roundings, Conversions

\* Every instruction keeps the property.
LEMMA FpuTrapsNext == FpuTrapsExactly /\ [CpuNext]_cpuVars => FpuTrapsExactly'
<1> SUFFICES ASSUME FpuTrapsExactly, [CpuNext]_cpuVars PROVE FpuTrapsExactly'
  OBVIOUS
<1>1. CASE CpuNext
  <2>1. OtherCpuRun \/ OperationDone
    BY <1>1, AluRuns, ShiftRuns, MulDivRuns, BranchRuns, MemoryRuns, TrapRuns, MoveRuns,
       Cop1ArithmeticRuns, Cop1ConversionsRuns, Zenon DEF CpuNext
  <2>2. OtherCpuRun => FpuTrapsExactly'
    BY DEF OtherCpuRun, FpuTrapsExactly
  <2> QED BY <2>1, <2>2, DoneIsExact
<1>2. CASE UNCHANGED cpuVars
  BY <1>2, Zenon DEF cpuVars, FpuTrapsExactly
<1> QED BY <1>1, <1>2

\* Whatever the values, the control word and the exceptions the host raises, each
\* operation of cop1.cpp traps exactly when it has a cause that is enabled or not
\* implemented, and then stores nothing; a masked cause is kept in the flags.
THEOREM FpuTrapsAreExact == CpuSpec => []FpuTrapsExactly
BY FpuTrapsInit, FpuTrapsNext, PTL DEF CpuSpec
===============================================================================
