--------------------------- MODULE N64CpuLockstep ---------------------------
(***************************************************************************)
(* The two engines of the VR4300, side by side: a step executes one        *)
(* instruction from one machine state in the interpreter (N64Ipu, N64Cop1) *)
(* and in the code the recompiler emits (N64IpuX64, N64Cop1X64), and keeps *)
(* what each of them leaves.  The initial states range over the operands   *)
(* and over what the allocator has bound when the instruction is emitted.  *)
(***************************************************************************)
EXTENDS N64Words, Sequences, FiniteSets

CONSTANTS REGION, Volatile, NonVolatile, ArgRegs, Guests, Junk,
          Values,          \* the pairs of register values tried
          Imms,            \* the immediates tried
          Allocations,     \* the states of the allocator tried
          FpValues,        \* the pairs of floating-point registers tried
          ControlWords,    \* the values of fcr31 tried
          HostResults      \* what the host may compute from valid operands

\* The exceptions of IEEE 754, which the host raises; the unit has one more.
HostExceptions == {"inexact", "underflow", "overflow", "div_zero", "invalid"}
ASSUME ControlWordsAssumption ==
  ControlWords \subseteq
    [rm : 0..3, flag : SUBSET HostExceptions, enable : SUBSET HostExceptions,
     cause : SUBSET (HostExceptions \cup {"unimplemented"}), c : BOOLEAN, fs : BOOLEAN]
ASSUME HostResultsAssumption ==
  HostResults # {} /\ \A result \in HostResults : result.raised \subseteq HostExceptions

VARIABLES regs, alloc, instr, ops, ctx, interp, jit
cpuVars == <<regs, alloc, instr, ops, ctx, interp, jit>>

I == INSTANCE N64Ipu
J == INSTANCE N64IpuX64
F == INSTANCE N64Cop1
X == INSTANCE N64Cop1X64

PC == 24                 \* the instruction's pc; its block starts two before
BlockPc == 16
Jump == 44               \* jump_addr, as the last branch left it

(***************************************************************************)
(* The states the engines start from.                                      *)
(***************************************************************************)
NoAccess == [kind |-> "none", size |-> 0, align |-> "none", addr |-> 0, pc |-> 0, data |-> 0]
Reg(g) == CASE g = 0 -> 0 [] g = 31 -> 9 [] OTHER -> regs[g]
Common(c) ==
  [gpr |-> [g \in Guests |-> Reg(g)],
   hi |-> 5, lo |-> 3, branch |-> c.branch, jump |-> Jump, exc |-> "none",
   ll_bit |-> c.ll_bit, ll_addr |-> 0, cycles |-> 0, mem |-> NoAccess, last |-> FALSE,
   rv |-> c.rv, fault |-> c.fault, paddr |-> 11, dword |-> c.dword,
   fpr |-> c.fp.fpr, fcr31 |-> c.fp.fcr31, fenv |-> {"inexact"}, rounding |-> c.fp.fcr31.rm,
   cu1 |-> c.fp.cu1, fr |-> c.fp.fr, fpu |-> c.fp.fpu]
Interpreter(c) ==
  [f \in DOMAIN Common(c) \cup {"pc", "wide"} |->
     CASE f = "pc" -> PC [] f = "wide" -> c.wide [] OTHER -> Common(c)[f]]

\* A dirty binding of each guest in bound, in binding order: the host has the
\* value, memory an older one.
HostNames == {"rax", "rbp"} \cup {(Volatile \o NonVolatile)[i] : i \in 1..Len(Volatile \o NonVolatile)}
Bound(a, h) == {g \in DOMAIN a.bound : a.bound[g] = h}
Emitter(c, a) ==
  LET s == Common(c)
      extra ==
        [pc |-> BlockPc, block_pc |-> BlockPc, jit_pc |-> PC, block_cycles |-> 0,
         branched |-> FALSE, at |-> "run", stack |-> <<77>>, underflow |-> FALSE,
         evicted |-> FALSE, aligned |-> a.aligned, stack_space |-> FALSE, args |-> <<0, 0>>,
         flags |-> [eq |-> FALSE, less |-> FALSE, below |-> FALSE, sign |-> FALSE, over |-> FALSE],
         var |-> [v \in {"hs", "ht", "hd"} |-> "rax"],
         host |-> [h \in HostNames |-> IF Bound(a, h) = {} THEN Junk
                                       ELSE s.gpr[CHOOSE g \in Bound(a, h) : TRUE]],
         bindings |-> [i \in J!Indices |->
           IF Bound(a, J!Hosts[i]) = {} THEN J!Unbound
           ELSE [J!Unbound EXCEPT !.guest = CHOOSE g \in Bound(a, J!Hosts[i]) : TRUE,
                                  !.dirty = TRUE, !.access = i]],
         guest_to_host |-> [g \in Guests |->
           IF g \in DOMAIN a.bound THEN J!IndexOf(a.bound[g]) ELSE J!None],
         next_free |-> a.next_free, access_index |-> 10,
         gpr |-> [g \in Guests |-> IF g \in DOMAIN a.bound THEN Junk ELSE s.gpr[g]]]
  IN  [f \in DOMAIN s \cup DOMAIN extra |-> IF f \in DOMAIN extra THEN extra[f] ELSE s[f]]

(***************************************************************************)
(* What an instruction leaves.  In the recompiler a guest register is in   *)
(* its host register while it is bound, and the block's cycles are charged *)
(* at its end; the pc matters once the block has been left.                *)
(***************************************************************************)
Result(s, pc) ==
  [gpr |-> s.gpr, hi |-> s.hi, lo |-> s.lo, branch |-> s.branch, jump |-> s.jump,
   exc |-> s.exc, ll_bit |-> s.ll_bit, ll_addr |-> s.ll_addr, mem |-> s.mem,
   last |-> s.last, cycles |-> s.cycles, pc |-> pc,
   fpr |-> s.fpr, fcr31 |-> s.fcr31, rounding |-> s.rounding]
\* RunInterpreter adds 4 unless the instruction raised an exception; a branch
\* discarded skips one instruction more.
Interpreted(s) ==
  Result(s, CASE s.exc # "none" -> s.pc
              [] s.exc = "none" /\ s.pc # PC -> Dw(s.pc + 4)
              [] OTHER -> PC)
Guest(m, g) ==
  IF m.at = "run" /\ m.guest_to_host[g] # J!None THEN m.host[J!HostOf(m, g)] ELSE m.gpr[g]
Recompiled(m) ==
  LET r == Result([m EXCEPT !.gpr = [g \in Guests |-> Guest(m, g)]],
                  IF m.at = "left" THEN m.pc ELSE PC)
  IN  [r EXCEPT !.cycles = IF m.at = "left" THEN @ ELSE @ + m.block_cycles,
                !.last = IF m.at = "left" THEN FALSE ELSE @]

(***************************************************************************)
(* The operands and the contexts the instructions are tried with.          *)
(***************************************************************************)
Op(rs, rt, rd, imm, sa, target) ==
  [rs |-> rs, rt |-> rt, rd |-> rd, imm |-> imm, sa |-> sa, target |-> target]
\* Every way two sources and a destination can coincide, or be register 0.
RRR == {Op(r[1], r[2], r[3], 0, 0, 0) :
          r \in {<<1, 2, 1>>, <<1, 2, 2>>, <<1, 2, 0>>, <<1, 1, 1>>, <<1, 1, 2>>, <<0, 2, 1>>,
                 <<1, 0, 2>>, <<2, 1, 31>>}}
RR == {Op(r[1], r[2], 0, 0, 0, 0) : r \in {<<1, 2>>, <<1, 1>>, <<0, 2>>, <<1, 0>>}}
RRI == {Op(r[1], r[2], 0, i, 0, 0) : r \in {<<1, 2>>, <<1, 1>>, <<1, 0>>, <<0, 2>>}, i \in Imms}
Addresses == {Op(r[1], r[2], 0, i, 0, 0) : r \in {<<1, 2>>, <<1, 1>>, <<1, 0>>}, i \in Imms}
RI == {Op(r, 2, 0, i, 0, 0) : r \in {1, 0, 31}, i \in Imms}
Shifts == {Op(0, r[1], r[2], 0, n, 0) : r \in {<<1, 1>>, <<1, 2>>, <<2, 0>>}, n \in 0..W - 1}
RD == {Op(0, 0, r, 0, 0, 0) : r \in {0, 1, 31}}
RS == {Op(r, 2, 0, 0, 0, 0) : r \in {0, 1, 2}}
RSRD == {Op(r[1], 0, r[2], 0, 0, 0) : r \in {<<1, 2>>, <<1, 1>>, <<1, 31>>, <<1, 0>>}}
JumpTargets == {Op(0, 0, 0, 0, 0, t) : t \in {0, 5}}

\* The floating-point unit at rest.
NoFpu == [cu1 |-> TRUE, fr |-> TRUE, fpr |-> [r \in 0..3 |-> 0], fpu |-> "none",
          fcr31 |-> [rm |-> 0, flag |-> {}, enable |-> {}, cause |-> {}, c |-> FALSE, fs |-> FALSE]]
Context(branch, dword, ll_bit, fault, rv, wide) ==
  [branch |-> branch, dword |-> dword, ll_bit |-> ll_bit, fault |-> fault, rv |-> rv, wide |-> wide,
   fp |-> NoFpu]
PlainContext == {Context(I!NoBranch, TRUE, FALSE, FALSE, 0, FALSE)}
Sums == {Context(I!NoBranch, TRUE, FALSE, FALSE, 0, w) : w \in BOOLEAN}
Dwords == {Context(I!NoBranch, d, FALSE, FALSE, 0, FALSE) : d \in BOOLEAN}
Branches == {Context(b, TRUE, FALSE, FALSE, 0, FALSE) :
               b \in {I!DelaySlotNotTaken, I!DelaySlotTaken, I!NoBranch}}
Accesses == {Context(I!NoBranch, c[1], c[2], c[3], c[4], FALSE) :
               c \in {<<TRUE, TRUE, FALSE, 90>>, <<TRUE, FALSE, FALSE, 165>>,
                      <<TRUE, TRUE, TRUE, 165>>, <<FALSE, TRUE, FALSE, 165>>}}

\* The operands of the floating-point instructions: the first register odd or even, its
\* format, and the registers coinciding or not.
FpOp(fs, ft, fd, fmt, cond, rs, rt, imm) ==
  [fs |-> fs, ft |-> ft, fd |-> fd, fmt |-> fmt, cond |-> cond, rs |-> rs, rt |-> rt, imm |-> imm]
Computing == {FpOp(r[1], 2, r[2], fmt, 0, 0, 0, 0) : r \in {<<1, 3>>, <<0, 2>>}, fmt \in {"S", "D"}}
             \cup {FpOp(0, 2, 3, fmt, 0, 0, 0, 0) : fmt \in {"W", "L", "invalid"}}
Comparing == {FpOp(0, 2, 0, fmt, cond, 0, 0, 0) : fmt \in {"S", "D"}, cond \in 0..15}
             \cup {FpOp(1, 2, 0, fmt, 10, 0, 0, 0) : fmt \in {"S", "W"}}
Moving == {FpOp(fs, fs, 0, "S", 0, 1, rt, -1) : fs \in {0, 1, 31}, rt \in {0, 2}}
Registers == {op \in Moving : op.fs # 31}
Branching == {FpOp(0, 0, 0, "S", 0, 0, 0, 5)}
\* The contexts: the unit disabled, registers paired or not, the values and the control
\* word; for arithmetic, what the host computes.
Fpu(cu1, fr, v, control, result) ==
  [NoFpu EXCEPT !.cu1 = cu1, !.fr = fr, !.fpr = [r \in 0..3 |-> IF r < 2 THEN v[1] ELSE v[2]],
                !.fcr31 = control, !.fpu = result]
Plainly(fp) == [Context(I!NoBranch, TRUE, FALSE, FALSE, 0, FALSE) EXCEPT !.fp = fp]
AnyResult == CHOOSE result \in HostResults : TRUE
AnyValue == CHOOSE v \in FpValues : TRUE
UnitOff(control) == Plainly(Fpu(FALSE, TRUE, AnyValue, control, AnyResult))
UnitOn(v, control, result) == Plainly(Fpu(TRUE, FALSE, v, control, result))
Disabled == {UnitOff(control) : control \in ControlWords}
Arithmetic ==
  Disabled \cup {UnitOn(v, control, result) :
                   v \in FpValues, control \in ControlWords, result \in HostResults}
Compared == Disabled \cup {UnitOn(v, control, AnyResult) :
                             v \in FpValues, control \in ControlWords}
Moved ==
  Disabled \cup {[Plainly(Fpu(TRUE, fr, AnyValue, control, AnyResult))
                    EXCEPT !.fault = a[1], !.rv = a[2]] :
                   fr \in BOOLEAN, control \in ControlWords, a \in {<<FALSE, 90>>, <<TRUE, 165>>}}

Run(name, Os, Cs, InI(_, _), InJ(_, _)) ==
  /\ instr = "none"
  /\ instr' = name
  /\ \E o \in Os, c \in Cs :
       /\ ops' = o
       /\ ctx' = c
       /\ interp' = Interpreted(InI(Interpreter(c), o))
       /\ LET m == InJ(Emitter(c, alloc), o) IN
            jit' = [result |-> Recompiled(m), stack |-> m.stack, evicted |-> m.evicted,
                    at |-> m.at, vars |-> m.var]
  /\ UNCHANGED <<regs, alloc>>

CpuInit ==
  /\ regs \in Values
  /\ alloc \in Allocations
  /\ instr = "none" /\ ops = "none" /\ ctx = "none" /\ interp = "none" /\ jit = "none"

Alu ==
  \/ Run("add", RRR, PlainContext, I!add, J!add)
  \/ Run("addi", RRI, PlainContext, I!addi, J!addi)
  \/ Run("addiu", RRI, Sums, I!addiu, J!addiu)
  \/ Run("addu", RRR, Sums, I!addu, J!addu)
  \/ Run("sub", RRR, PlainContext, I!sub, J!sub)
  \/ Run("subu", RRR, Sums, I!subu, J!subu)
  \/ Run("dadd", RRR, Dwords, I!dadd, J!dadd)
  \/ Run("daddi", RRI, Dwords, I!daddi, J!daddi)
  \/ Run("daddiu", RRI, Dwords, I!daddiu, J!daddiu)
  \/ Run("daddu", RRR, Dwords, I!daddu, J!daddu)
  \/ Run("dsub", RRR, Dwords, I!dsub, J!dsub)
  \/ Run("dsubu", RRR, Dwords, I!dsubu, J!dsubu)
  \/ Run("and", RRR, PlainContext, I!and_, J!and_)
  \/ Run("or", RRR, PlainContext, I!or_, J!or_)
  \/ Run("xor", RRR, PlainContext, I!xor_, J!xor_)
  \/ Run("nor", RRR, PlainContext, I!nor, J!nor)
  \/ Run("andi", RRI, PlainContext, I!andi, J!andi)
  \/ Run("ori", RRI, PlainContext, I!ori, J!ori)
  \/ Run("xori", RRI, PlainContext, I!xori, J!xori)
  \/ Run("lui", RRI, PlainContext, I!lui, J!lui)
  \/ Run("slt", RRR, PlainContext, I!slt, J!slt)
  \/ Run("slti", RRI, PlainContext, I!slti, J!slti)
  \/ Run("sltiu", RRI, PlainContext, I!sltiu, J!sltiu)
  \/ Run("sltu", RRR, PlainContext, I!sltu, J!sltu)
ShiftInstructions ==
  \/ Run("sll", Shifts, PlainContext, I!sll, J!sll)
  \/ Run("sllv", RRR, PlainContext, I!sllv, J!sllv)
  \/ Run("sra", Shifts, PlainContext, I!sra, J!sra)
  \/ Run("srav", RRR, PlainContext, I!srav, J!srav)
  \/ Run("srl", Shifts, PlainContext, I!srl, J!srl)
  \/ Run("srlv", RRR, PlainContext, I!srlv, J!srlv)
  \/ Run("dsll", Shifts, Dwords, I!dsll, J!dsll)
  \/ Run("dsll32", Shifts, Dwords, I!dsll32, J!dsll32)
  \/ Run("dsllv", RRR, Dwords, I!dsllv, J!dsllv)
  \/ Run("dsra", Shifts, Dwords, I!dsra, J!dsra)
  \/ Run("dsra32", Shifts, Dwords, I!dsra32, J!dsra32)
  \/ Run("dsrav", RRR, Dwords, I!dsrav, J!dsrav)
  \/ Run("dsrl", Shifts, Dwords, I!dsrl, J!dsrl)
  \/ Run("dsrl32", Shifts, Dwords, I!dsrl32, J!dsrl32)
  \/ Run("dsrlv", RRR, Dwords, I!dsrlv, J!dsrlv)
MulDiv ==
  \/ Run("ddiv", RR, Dwords, I!ddiv, J!ddiv)
  \/ Run("ddivu", RR, Dwords, I!ddivu, J!ddivu)
  \/ Run("div", RR, PlainContext, I!div, J!div)
  \/ Run("divu", RR, PlainContext, I!divu, J!divu)
  \/ Run("dmult", RR, Dwords, I!dmult, J!dmult)
  \/ Run("dmultu", RR, Dwords, I!dmultu, J!dmultu)
  \/ Run("mult", RR, PlainContext, I!mult, J!mult)
  \/ Run("multu", RR, PlainContext, I!multu, J!multu)
  \/ Run("mfhi", RD, PlainContext, I!mfhi, J!mfhi)
  \/ Run("mflo", RD, PlainContext, I!mflo, J!mflo)
  \/ Run("mthi", RS, PlainContext, I!mthi, J!mthi)
  \/ Run("mtlo", RS, PlainContext, I!mtlo, J!mtlo)
BranchInstructions ==
  \/ Run("beq", RRI, Branches, I!beq, J!beq)
  \/ Run("beql", RRI, Branches, I!beql, J!beql)
  \/ Run("bne", RRI, Branches, I!bne, J!bne)
  \/ Run("bnel", RRI, Branches, I!bnel, J!bnel)
  \/ Run("bgez", RI, Branches, I!bgez, J!bgez)
  \/ Run("bgezl", RI, Branches, I!bgezl, J!bgezl)
  \/ Run("bgezal", RI, Branches, I!bgezal, J!bgezal)
  \/ Run("bgezall", RI, Branches, I!bgezall, J!bgezall)
  \/ Run("bgtz", RI, Branches, I!bgtz, J!bgtz)
  \/ Run("bgtzl", RI, Branches, I!bgtzl, J!bgtzl)
  \/ Run("blez", RI, Branches, I!blez, J!blez)
  \/ Run("blezl", RI, Branches, I!blezl, J!blezl)
  \/ Run("bltz", RI, Branches, I!bltz, J!bltz)
  \/ Run("bltzl", RI, Branches, I!bltzl, J!bltzl)
  \/ Run("bltzal", RI, Branches, I!bltzal, J!bltzal)
  \/ Run("bltzall", RI, Branches, I!bltzall, J!bltzall)
  \/ Run("j", JumpTargets, Branches, I!j, J!j)
  \/ Run("jal", JumpTargets, Branches, I!jal, J!jal)
  \/ Run("jalr", RSRD, Branches, I!jalr, J!jalr)
  \/ Run("jr", RS, Branches, I!jr, J!jr)
Memory ==
  \/ Run("lb", Addresses, Accesses, I!lb, J!lb)
  \/ Run("lbu", Addresses, Accesses, I!lbu, J!lbu)
  \/ Run("lh", Addresses, Accesses, I!lh, J!lh)
  \/ Run("lhu", Addresses, Accesses, I!lhu, J!lhu)
  \/ Run("lw", Addresses, Accesses, I!lw, J!lw)
  \/ Run("lwu", Addresses, Accesses, I!lwu, J!lwu)
  \/ Run("ld", Addresses, Accesses, I!ld, J!ld)
  \/ Run("ll", Addresses, Accesses, I!ll, J!ll)
  \/ Run("lld", Addresses, Accesses, I!lld, J!lld)
  \/ Run("ldl", Addresses, Accesses, I!ldl, J!ldl)
  \/ Run("ldr", Addresses, Accesses, I!ldr, J!ldr)
  \/ Run("lwl", Addresses, Accesses, I!lwl, J!lwl)
  \/ Run("lwr", Addresses, Accesses, I!lwr, J!lwr)
  \/ Run("sb", Addresses, Accesses, I!sb, J!sb)
  \/ Run("sh", Addresses, Accesses, I!sh, J!sh)
  \/ Run("sw", Addresses, Accesses, I!sw, J!sw)
  \/ Run("sd", Addresses, Accesses, I!sd, J!sd)
  \/ Run("sc", Addresses, Accesses, I!sc, J!sc)
  \/ Run("scd", Addresses, Accesses, I!scd, J!scd)
  \/ Run("sdl", Addresses, Accesses, I!sdl, J!sdl)
  \/ Run("sdr", Addresses, Accesses, I!sdr, J!sdr)
  \/ Run("swl", Addresses, Accesses, I!swl, J!swl)
  \/ Run("swr", Addresses, Accesses, I!swr, J!swr)
Traps ==
  \/ Run("teq", RR, PlainContext, I!teq, J!teq)
  \/ Run("teqi", RI, PlainContext, I!teqi, J!teqi)
  \/ Run("tge", RR, PlainContext, I!tge, J!tge)
  \/ Run("tgei", RI, PlainContext, I!tgei, J!tgei)
  \/ Run("tgeu", RR, PlainContext, I!tgeu, J!tgeu)
  \/ Run("tgeiu", RI, PlainContext, I!tgeiu, J!tgeiu)
  \/ Run("tlt", RR, PlainContext, I!tlt, J!tlt)
  \/ Run("tlti", RI, PlainContext, I!tlti, J!tlti)
  \/ Run("tltu", RR, PlainContext, I!tltu, J!tltu)
  \/ Run("tltiu", RI, PlainContext, I!tltiu, J!tltiu)
  \/ Run("tne", RR, PlainContext, I!tne, J!tne)
  \/ Run("tnei", RI, PlainContext, I!tnei, J!tnei)
  \/ Run("break", {Op(0, 0, 0, 0, 0, 0)}, PlainContext, I!break_, J!break_)
  \/ Run("syscall", {Op(0, 0, 0, 0, 0, 0)}, PlainContext, I!syscall, J!syscall)
  \/ Run("sync", {Op(0, 0, 0, 0, 0, 0)}, PlainContext, I!sync, J!sync)
\* The floating-point instructions are tried with one of the pairs of integers,
\* of equal ones.
FpRun(name, Os, Cs, InF(_, _), InX(_, _)) ==
  regs = (CHOOSE r \in Values : r[1] = r[2]) /\ Run(name, Os, Cs, InF, InX)
Cop1Moves ==
  \/ FpRun("bc1f", Branching, Moved, F!bc1f, X!bc1f)
  \/ FpRun("bc1fl", Branching, Moved, F!bc1fl, X!bc1fl)
  \/ FpRun("bc1t", Branching, Moved, F!bc1t, X!bc1t)
  \/ FpRun("bc1tl", Branching, Moved, F!bc1tl, X!bc1tl)
  \/ FpRun("cfc1", Moving, Moved, F!cfc1, X!cfc1)
  \/ Run("ctc1", Moving, Moved, F!ctc1, X!ctc1)
  \/ FpRun("dcfc1", Branching, Moved, F!dcfc1, X!dcfc1)
  \/ FpRun("dctc1", Branching, Moved, F!dctc1, X!dctc1)
  \/ FpRun("dmfc1", Registers, Moved, F!dmfc1, X!dmfc1)
  \/ FpRun("dmtc1", Registers, Moved, F!dmtc1, X!dmtc1)
  \/ FpRun("mfc1", Registers, Moved, F!mfc1, X!mfc1)
  \/ FpRun("mtc1", Registers, Moved, F!mtc1, X!mtc1)
  \/ FpRun("ldc1", Registers, Moved, F!ldc1, X!ldc1)
  \/ FpRun("lwc1", Registers, Moved, F!lwc1, X!lwc1)
  \/ FpRun("sdc1", Registers, Moved, F!sdc1, X!sdc1)
  \/ FpRun("swc1", Registers, Moved, F!swc1, X!swc1)
  \/ FpRun("mov.f", Computing, Compared, F!mov, X!mov)
  \/ FpRun("compare", Comparing, Compared, F!compare, X!compare)
Cop1Arithmetic ==
  \/ FpRun("abs.f", Computing, Compared, F!abs, X!abs)
  \/ FpRun("neg.f", Computing, Compared, F!neg, X!neg)
  \/ FpRun("sqrt.f", Computing, Arithmetic, F!sqrt, X!sqrt)
  \/ FpRun("add.f", Computing, Arithmetic, F!add, X!add)
  \/ FpRun("sub.f", Computing, Arithmetic, F!sub, X!sub)
  \/ FpRun("mul.f", Computing, Arithmetic, F!mul, X!mul)
  \/ FpRun("div.f", Computing, Arithmetic, F!div, X!div)
Cop1Conversions ==
  \/ FpRun("cvt_d", Computing, Arithmetic, F!cvt_d, X!cvt_d)
  \/ FpRun("cvt_l", Computing, Arithmetic, F!cvt_l, X!cvt_l)
  \/ FpRun("cvt_s", Computing, Arithmetic, F!cvt_s, X!cvt_s)
  \/ FpRun("cvt_w", Computing, Arithmetic, F!cvt_w, X!cvt_w)
  \/ FpRun("ceil_l", Computing, Compared, F!ceil_l, X!ceil_l)
  \/ FpRun("ceil_w", Computing, Compared, F!ceil_w, X!ceil_w)
  \/ FpRun("floor_l", Computing, Compared, F!floor_l, X!floor_l)
  \/ FpRun("floor_w", Computing, Compared, F!floor_w, X!floor_w)
  \/ FpRun("round_l", Computing, Arithmetic, F!round_l, X!round_l)
  \/ FpRun("round_w", Computing, Arithmetic, F!round_w, X!round_w)
  \/ FpRun("trunc_l", Computing, Compared, F!trunc_l, X!trunc_l)
  \/ FpRun("trunc_w", Computing, Compared, F!trunc_w, X!trunc_w)
CpuNext ==
  \/ Alu
  \/ ShiftInstructions
  \/ MulDiv
  \/ BranchInstructions
  \/ Memory
  \/ Traps
  \/ Cop1Moves
  \/ Cop1Arithmetic
  \/ Cop1Conversions
CpuSpec == CpuInit /\ [][CpuNext]_cpuVars

(***************************************************************************)
(* Where the engines do differ.  Each of these is a case the code really   *)
(* gets into; the README describes them one by one.                        *)
(***************************************************************************)
Loads == {"lb", "lbu", "lh", "lhu", "lw", "lwu", "ld", "ll", "lld"}
Stores == {"sb", "sh", "sw", "sd", "sc", "scd", "sdl", "sdr", "swl", "swr"}
PartialLoads == {"ldl", "ldr", "lwl", "lwr"}
Jumps == {"j", "jal", "jalr", "jr"}
FpAccesses == {"ldc1", "lwc1", "sdc1", "swc1"}
FpUnary == {"abs.f", "neg.f", "sqrt.f"}
FpBinary == {"add.f", "sub.f", "mul.f", "div.f"}
Roundings == {"ceil_l", "ceil_w", "floor_l", "floor_w", "round_l", "round_w", "trunc_l", "trunc_w"}
Conversions == {"cvt_d", "cvt_l", "cvt_s", "cvt_w"}
FpOperations == FpUnary \cup FpBinary \cup Roundings \cup Conversions \cup {"compare"}
FpCalls == FpAccesses \cup FpUnary \cup FpBinary \cup Conversions \cup {"ctc1"}
\* A block's first instruction: the host registers are handed out in order,
\* whether they are reserved or not.
FreshBlock == alloc.next_free = 1
\* The sum of two ints overflows, and the build kept it in 64 bits.
UndefinedSum == instr \in {"addiu", "addu", "subu"} /\ ctx.wide
\* rd is rt: it is overwritten before it is read.
OverwrittenSource ==
  \/ instr \in {"and", "or", "xor", "nor"} /\ ops.rt = ops.rd /\ ops.rs # ops.rt
  \/ instr \in {"subu", "dsubu"} /\ ops.rt = ops.rd /\ ops.rs = ops.rt
\* The recompiler tests the branch state for being a taken delay slot, with
\* the two outcomes exchanged.
LinkFromSlot == instr = "bgezal" /\ ctx.branch \in {I!DelaySlotTaken, I!NoBranch}
\* A jump in the delay slot of a taken branch counts as a branch when it is
\* compiled, whether or not it jumps.
JumpInSlot == instr \in Jumps /\ ctx.branch = I!DelaySlotTaken
ZeroWritten ==
  \/ instr = "jalr" /\ ops.rd = 0
  \/ instr \in {"cfc1", "dmfc1", "mfc1"} /\ ops.rt = 0
\* rdx is reserved for the quotient and handed to a source all the same.
ReservedSource ==
  FreshBlock /\ (instr = "ddiv" \/ instr \in {"ldl", "ldr", "lwl", "lwr", "sc", "scd"})
\* The interpreter looks at all of rs, the recompiler at its low word.
DividendByZero == instr = "div" /\ Reg(ops.rt) = 0 /\ Reg(ops.rs) # Dw(Sw(Reg(ops.rs)))
\* Only one of the engines checks that the processor is in 64-bit mode.
ModeUnchecked ==
  ~ctx.dword /\ instr \in {"dmultu", "lld", "sd", "scd", "sdl", "sdr"}
\* The call is emitted for one alignment of the stack only.
CallDropped ==
  \/ ~alloc.aligned /\ instr \in Loads \cup Stores \cup FpCalls
  \/ alloc.aligned /\ instr \in PartialLoads
\* lwl and lwr leave the address on the stack, and shift by something else.
AddressNotPopped == instr \in {"lwl", "lwr"}
\* The mask of the bytes kept is a word's.
NarrowMask == instr = "ldr"
\* What is loaded into a host register on one path is used on the other.
BoundOnOnePath == instr \in {"sc", "scd"}
\* The shift is not reduced to the bytes of a word.
ShiftTooFar == instr = "swr" /\ (Reg(ops.rs) + ops.imm) % 8 >= 4
\* The kinds of the operands of a floating-point instruction.
FpKinds ==
  LET w == F!Width(ops.fmt) IN
  {F!Kind(w, F!GetFs(ctx.fp, w, ops.fs))}
    \cup (IF instr \in FpUnary THEN {} ELSE {F!Kind(w, F!GetFt(ctx.fp, w, ops.ft))})
FpComputes(instructions) == instr \in instructions /\ ops.fmt \in F!Floats /\ ctx.fp.cu1
\* The cycle of an access is charged after it: a fault leaves before.
FaultNotCharged == instr \in FpAccesses /\ ctx.fault
\* The pc is not stored before the exception.
StalePc == instr = "ctc1" /\ ops.fs = 31 /\ interp.exc = "FloatingPoint"
\* The bit of the fraction that tells which NaNs are invalid is read the other way, and a
\* NaN that is not sets the flag; an exception is not charged its cycle.
NanSense == FpComputes({"compare"}) /\ FpKinds \cap {"snan", "qnan"} # {}
\* An operation refused is charged none or all of its cycles, and the second operand is
\* not looked at when the first is refused.
RefusedOperand ==
  /\ FpComputes(FpUnary \cup FpBinary)
  /\ \/ FpKinds \cap {"snan", "subnormal"} # {}
     \/ "qnan" \in FpKinds /\ "invalid" \in ctx.fp.fcr31.enable
\* The packed instruction computes on what stands beside the operands.
OtherLanes == FpComputes(FpBinary) /\ ctx.fp.fpu.others # {}
\* The tests of the operand and of the result are left out, and what they would have
\* answered is read all the same: the code leaves before it stores the result.
RoundUnfinished == FpComputes(Roundings)
Known ==
  \/ UndefinedSum \/ OverwrittenSource \/ LinkFromSlot \/ JumpInSlot \/ ZeroWritten
  \/ ReservedSource \/ DividendByZero \/ ModeUnchecked \/ CallDropped
  \/ AddressNotPopped \/ NarrowMask \/ BoundOnOnePath \/ ShiftTooFar
  \/ FaultNotCharged \/ StalePc \/ NanSense \/ RefusedOperand \/ OtherLanes \/ RoundUnfinished

(***************************************************************************)
(* Properties.                                                             *)
(***************************************************************************)
\* Whatever an instruction's operands, the registers it names (twice, or
\* register 0), the mode, the delay slot it stands in and the host registers
\* its guests are bound to, the two engines leave the same registers, the
\* same branch, the same access to memory and the same exception at the same
\* pc, except in the cases listed above.
EnginesAgree == instr # "none" /\ ~Known => interp = jit.result

\* What the comment of TestExceptions says of the interpreter: an operation traps exactly
\* when it has a cause that is enabled or that it does not implement, and then stores no
\* result; a cause that is not enabled is kept in the flags, and nothing else is.
FpuTrapsExactly ==
  LET control == interp.fcr31
      trapped == interp.exc = "FloatingPoint"
  IN instr \in FpOperations /\ ctx.fp.cu1 =>
       /\ trapped <=> \/ control.cause \cap control.enable # {}
                      \/ "unimplemented" \in control.cause
       /\ trapped => interp.fpr = ctx.fp.fpr
       /\ ~trapped => control.cause \subseteq control.flag
       /\ control.flag \subseteq ctx.fp.fcr31.flag \cup control.cause

\* Code that runs on leaves the host stack as it found it, and code that
\* leaves the block leaves the caller's part of it: every push of an emitted
\* instruction is taken back on every path through it.
StackBalanced ==
  instr # "none" /\ ~AddressNotPopped /\ ~ReservedSource =>
    jit.stack = (IF jit.at = "run" THEN <<77>> ELSE <<>>)
=============================================================================
