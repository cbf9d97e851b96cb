------------------------------- MODULE N64Rsp -------------------------------
(***************************************************************************)
(* The scalar unit of the RSP as the interpreter runs it                   *)
(* (src/n64/rsp/interpreter.cpp, with the branch and memory helpers of     *)
(* src/n64/rsp/rsp.cpp): one operator per instruction, from the state s of *)
(* the RSP and the fields o of the instruction to the state it leaves,     *)
(* and Stepped for what InterpretOneInstruction does around it.  A         *)
(* register is a word; what the register files of the SP and the DP do     *)
(* with a read or a write is s.rv and s.effect, chosen by the environment. *)
(***************************************************************************)
EXTENDS N64Words, Sequences

CONSTANT MEM        \* bytes of DMEM and of IMEM: 0x1000 in the program

Aligned(a) == ((a % MEM) \div 4) * 4           \* a & 0xFFC
Rs(s, o) == s.gpr[o.rs]
Rt(s, o) == s.gpr[o.rt]
\* gpr.set: register 0 stays 0.
Set(s, r, v) == IF r = 0 THEN s ELSE [s EXCEPT !.gpr[r] = Uw(v)]
Bool(b) == IF b THEN 1 ELSE 0

\* The bytes from addr on, first one most significant, wrapping at the end.
ReadDMEM(s, addr, n) ==
  LET upto[i \in 0..n] ==
        IF i = 0 THEN 0 ELSE upto[i - 1] * 2^BYTE + s.dmem[(addr + i - 1) % MEM]
  IN  upto[n]
WriteDMEM(s, addr, n, v) ==
  [s EXCEPT !.dmem = [a \in DOMAIN @ |->
     LET i == (a - addr) % MEM IN
     IF i < n THEN Fit(BYTE, Shr(W, v, (n - 1 - i) * BYTE)) ELSE @[a]]]

(***************************************************************************)
(* Branches.                                                               *)
(***************************************************************************)
TakeBranch(s, target) ==
  [s EXCEPT !.in_slot = TRUE, !.pending = FALSE, !.jump = Aligned(target)]
Link(s, r) == Set(s, r, (s.pc + 8) % MEM)
PerformBranch(s) == [s EXCEPT !.pc = s.jump, !.pending = FALSE, !.in_slot = FALSE]
BranchTo(s, o) == s.pc + 4 + 4 * o.imm
BranchWhen(s, o, c) == IF c THEN TakeBranch(s, BranchTo(s, o)) ELSE s

AfterInstruction(s) ==
  IF s.pending THEN PerformBranch(s)
  ELSE [s EXCEPT !.pending = s.in_slot, !.pc = Aligned(s.pc + 4)]
\* The loop of RunInterpreter stops after this instruction, and performs the
\* branch it stopped at.
Halts(s) == s.halted
AfterLoop(s) == IF Halts(s) /\ s.pending THEN PerformBranch(s) ELSE s
Stepped(s) == AfterLoop(AfterInstruction(s))

beq(s, o) == BranchWhen(s, o, Rs(s, o) = Rt(s, o))
bne(s, o) == BranchWhen(s, o, Rs(s, o) # Rt(s, o))
bgez(s, o) == BranchWhen(s, o, Sw(Rs(s, o)) >= 0)
bgtz(s, o) == BranchWhen(s, o, Sw(Rs(s, o)) > 0)
blez(s, o) == BranchWhen(s, o, Sw(Rs(s, o)) <= 0)
bltz(s, o) == BranchWhen(s, o, Sw(Rs(s, o)) < 0)
bgezal(s, o) == Link(bgez(s, o), 31)
bltzal(s, o) == Link(bltz(s, o), 31)
j(s, o) == TakeBranch(s, 4 * o.target)
jal(s, o) == Link(j(s, o), 31)
jr(s, o) == TakeBranch(s, Rs(s, o))
jalr(s, o) == Link(jr(s, o), o.rd)

(***************************************************************************)
(* Arithmetic, logic and shifts.                                           *)
(***************************************************************************)
addu(s, o) == Set(s, o.rd, Rs(s, o) + Rt(s, o))
addiu(s, o) == Set(s, o.rt, Rs(s, o) + o.imm)
add(s, o) == addu(s, o)
addi(s, o) == addiu(s, o)
subu(s, o) == Set(s, o.rd, Rs(s, o) - Rt(s, o))
sub(s, o) == subu(s, o)
and_(s, o) == Set(s, o.rd, BitAnd(Rs(s, o), Rt(s, o)))
or_(s, o) == Set(s, o.rd, BitOr(Rs(s, o), Rt(s, o)))
xor_(s, o) == Set(s, o.rd, BitXor(Rs(s, o), Rt(s, o)))
nor(s, o) == Set(s, o.rd, BitNot(W, BitOr(Rs(s, o), Rt(s, o))))
andi(s, o) == Set(s, o.rt, BitAnd(Rs(s, o), Fit(H, o.imm)))
ori(s, o) == Set(s, o.rt, BitOr(Rs(s, o), Fit(H, o.imm)))
xori(s, o) == Set(s, o.rt, BitXor(Rs(s, o), Fit(H, o.imm)))
lui(s, o) == Set(s, o.rt, o.imm * 2^H)
slt(s, o) == Set(s, o.rd, Bool(Sw(Rs(s, o)) < Sw(Rt(s, o))))
sltu(s, o) == Set(s, o.rd, Bool(Rs(s, o) < Rt(s, o)))
slti(s, o) == Set(s, o.rt, Bool(Sw(Rs(s, o)) < o.imm))
sltiu(s, o) == Set(s, o.rt, Bool(Rs(s, o) < Uw(o.imm)))
sll(s, o) == Set(s, o.rd, Shl(W, Rt(s, o), o.sa))
sra(s, o) == Set(s, o.rd, Sar(W, Rt(s, o), o.sa))
srl(s, o) == Set(s, o.rd, Shr(W, Rt(s, o), o.sa))
sllv(s, o) == Set(s, o.rd, Shl(W, Rt(s, o), Rs(s, o) % W))
srav(s, o) == Set(s, o.rd, Sar(W, Rt(s, o), Rs(s, o) % W))
srlv(s, o) == Set(s, o.rd, Shr(W, Rt(s, o), Rs(s, o) % W))

(***************************************************************************)
(* Memory, the registers of the SP and the DP, and break.                  *)
(***************************************************************************)
Address(s, o) == Rs(s, o) + o.imm
Loaded(s, o, n) == ReadDMEM(s, Address(s, o), n)
lb(s, o) == Set(s, o.rt, Signed(BYTE, Loaded(s, o, 1)))
lbu(s, o) == Set(s, o.rt, Loaded(s, o, 1))
lh(s, o) == Set(s, o.rt, Signed(H, Loaded(s, o, 2)))
lhu(s, o) == Set(s, o.rt, Loaded(s, o, 2))
lw(s, o) == Set(s, o.rt, Loaded(s, o, 4))
lwu(s, o) == lw(s, o)
sb(s, o) == WriteDMEM(s, Address(s, o), 1, Rt(s, o))
sh(s, o) == WriteDMEM(s, Address(s, o), 2, Rt(s, o))
sw(s, o) == WriteDMEM(s, Address(s, o), 4, Rt(s, o))

\* rd selects one of eight registers of the SP, or with bit 3 of the DP.
ReadReg(s, reg) == [s EXCEPT !.io = <<"read", reg, 0>>]
WriteReg(s, reg, data) ==
  [s EXCEPT !.io = <<"write", reg, Uw(data)>>,
            !.halted = @ \/ (reg = 4 /\ s.effect = "halt"),
            !.sstep = @ \/ (reg = 4 /\ s.effect = "sstep")]
mfc0(s, o) == Set(ReadReg(s, o.rd % 16), o.rt, s.rv)
mtc0(s, o) == WriteReg(s, o.rd % 16, Rt(s, o))
break_(s, o) ==
  [s EXCEPT !.halted = TRUE, !.broke = TRUE, !.irq = @ \/ s.intbreak]
=============================================================================
