------------------------------ MODULE N64RspX64 ------------------------------
(***************************************************************************)
(* The scalar unit of the RSP as the recompiler emits it for x64           *)
(* (src/n64/rsp/ipu_x64.cpp, src/n64/rsp/recompiler.cpp): one operator per *)
(* instruction of N64Rsp, the code it emits; Compiled puts it into the     *)
(* block m and runs it.  The address of DMEM is 0, and a register that was just loaded with *)
(* it is left out of the addresses formed with it.                         *)
(***************************************************************************)
EXTENDS N64RspEmitter

A0 == ArgRegs[1]
A1 == ArgRegs[2]
Hs(o) == <<"get", "hs", o.rs>>
Ht(o) == <<"get", "ht", o.rt>>
Three(o) == <<<<"dirty", "hd", o.rd>>, Hs(o), Ht(o)>>
Two(o) == <<<<"dirty", "ht", o.rt>>, Hs(o)>>
ShiftRegs(o) == <<<<"dirty", "hd", o.rd>>, Ht(o)>>
AlignedPc(a) == ((a % MEM) \div 4) * 4

(***************************************************************************)
(* Branches: the target goes to memory, and the code after the delay slot  *)
(* looks for it.                                                           *)
(***************************************************************************)
EmitBranchTaken(target) ==
  <<<<"storei", "pending", TRUE>>, <<"storei", "jump", AlignedPc(target)>>>>
EmitBranchTakenTo(r) ==
  <<<<"storei", "pending", TRUE>>, <<"mov", W, "rax", r>>, <<"andi", W, "rax", AlignedPc(MEM - 1)>>,
    <<"store", "jump", "rax">>>>
FaultyEmitLink(o, r) == <<<<"dirty", "hd", r>>, <<"movi", W, "hd", (o.pc + 4) % MEM>>>>
EmitLink(o, r) == <<<<"dirty", "hd", r>>, <<"movi", W, "hd", (o.pc + 8) % MEM>>>>
Last == <<<<"branch emitted">>>>
BranchTarget(o) == o.pc + 4 + 4 * o.imm
Branch2(o, cc) ==
  (IF o.rs = 0 THEN <<Ht(o), <<"test", W, "ht">>>>
   ELSE IF o.rt = 0 THEN <<Hs(o), <<"test", W, "hs">>>>
   ELSE <<Hs(o), Ht(o), <<"cmp", W, "hs", "ht">>>>)
  \o <<<<"j", cc, "nobranch">>>> \o EmitBranchTaken(BranchTarget(o))
  \o <<<<"bind", "nobranch">>>> \o Last
Branch1(o, cc) ==
  <<Hs(o), <<"test", W, "hs">>, <<"j", cc, "nobranch">>>> \o EmitBranchTaken(BranchTarget(o))
  \o <<<<"bind", "nobranch">>>> \o Last
beq(o) == Branch2(o, "ne")
bne(o) == Branch2(o, "e")
bgez(o) == Branch1(o, "s")
bgtz(o) == Branch1(o, "le")
blez(o) == Branch1(o, "g")
bltz(o) == Branch1(o, "ns")
bgezal(o) == Branch1(o, "s") \o EmitLink(o, 31)
bltzal(o) == Branch1(o, "ns") \o EmitLink(o, 31)
j(o) == EmitBranchTaken(4 * o.target) \o Last
jal(o) == EmitBranchTaken(4 * o.target) \o EmitLink(o, 31) \o Last
jr(o) == <<Hs(o)>> \o EmitBranchTakenTo("hs") \o Last
jalr(o) == <<Hs(o)>> \o EmitBranchTakenTo("hs") \o EmitLink(o, o.rd) \o Last

\* Compile around the instruction: the block's first one is followed by a
\* check for a branch left pending by the block before, unless it is a branch.
EmitBranchCheck == <<<<"jump unless", "pending", "no branch">>, <<"leave to PerformBranch">>,
                     <<"bind", "no branch">>>>
IsBranch(code) == \E i \in DOMAIN code : code[i] = <<"branch emitted">>
Compiled(m, code) ==
  [RspEmitted(m, IF IsBranch(code) THEN code ELSE code \o EmitBranchCheck)
     EXCEPT !.jit_pc = AlignedPc(@ + 4)]
BlockEpilogWithPcFlush(offset) == <<<<"flush pc", offset>>, <<"leave">>>>
\* RunRecompiler's loop stops, and performs the branch the block stopped at.
AfterRun(m) ==
  IF m.at = "left" /\ m.halted /\ m.pending
  THEN [m EXCEPT !.pc = m.jump, !.pending = FALSE, !.in_slot = FALSE] ELSE m

(***************************************************************************)
(* Arithmetic, logic and shifts.                                           *)
(***************************************************************************)
addiu(o) ==
  If(o.rt # 0, Two(o) \o
     <<IF o.rs = o.rt THEN <<"addi", W, "ht", o.imm>> ELSE <<"lea", W, "ht", "hs", o.imm>>>>)
addu(o) ==
  If(o.rd # 0, Three(o) \o
     <<IF o.rs = o.rd THEN <<"add", W, "hd", "ht">> ELSE <<"leax", W, "hd", "hs", "ht">>>>)
add(o) == addu(o)
addi(o) == addiu(o)
subu(o) ==
  If(o.rd # 0, Three(o) \o
     (IF o.rt = o.rd THEN <<<<"neg", W, "hd">>, <<"add", W, "hd", "hs">>>>
      ELSE If(o.rs # o.rd, <<<<"mov", W, "hd", "hs">>>>) \o <<<<"sub", W, "hd", "ht">>>>))
sub(o) == subu(o)
Logic(op, o) ==
  If(o.rd # 0, Three(o) \o If(o.rs # o.rd, <<<<"mov", W, "hd", "hs">>>>) \o <<<<op, W, "hd", "ht">>>>)
LogicImm(op, o) ==
  If(o.rt # 0, Two(o) \o If(o.rs # o.rt, <<<<"mov", W, "ht", "hs">>>>) \o <<<<op, W, "ht", Fit(H, o.imm)>>>>)
and_(o) == Logic("and", o)
or_(o) == Logic("or", o)
xor_(o) == Logic("xor", o)
nor(o) == Logic("or", o) \o If(o.rd # 0, <<<<"not", W, "hd">>>>)
andi(o) == LogicImm("andi", o)
ori(o) == LogicImm("ori", o)
xori(o) == LogicImm("xori", o)
lui(o) == If(o.rt # 0, <<<<"dirty", "ht", o.rt>>, <<"movi", W, "ht", o.imm * 2^H>>>>)
SetIf(cc, o) ==
  If(o.rd # 0, Three(o) \o <<<<"cmp", W, "hs", "ht">>, <<"set", cc>>, <<"zext", AL, "hd", "rax">>>>)
SetIfImm(cc, o) ==
  If(o.rt # 0, Two(o) \o <<<<"cmpi", W, "hs", o.imm>>, <<"set", cc>>, <<"zext", AL, "ht", "rax">>>>)
slt(o) == SetIf("l", o)
sltu(o) == SetIf("b", o)
slti(o) == SetIfImm("l", o)
sltiu(o) == SetIfImm("b", o)
ShiftBy(op, o) ==
  If(o.rd # 0, ShiftRegs(o) \o If(o.rt # o.rd, <<<<"mov", W, "hd", "ht">>>>) \o <<<<op, W, "hd", o.sa>>>>)
ShiftVar(op, o) == If(o.rd # 0, Three(o) \o <<<<op, W, "hd", "ht", "hs">>>>)
sll(o) == ShiftBy("shl", o)
sra(o) == ShiftBy("sar", o)
srl(o) == ShiftBy("shr", o)
sllv(o) == ShiftVar("shlx", o)
srav(o) == ShiftVar("sarx", o)
srlv(o) == ShiftVar("shrx", o)

(***************************************************************************)
(* Loads and stores: from a fixed address that cannot wrap at once, from   *)
(* any other byte by byte.                                                 *)
(***************************************************************************)
MaskA == <<<<"andi", W, "rax", MEM - 1>>>>
NextA == <<<<"addi", W, "rax", 1>>>> \o MaskA
Ea(o) == <<Hs(o), <<"lea", W, "rax", "hs", o.imm % MEM>>>> \o MaskA
At(r) == <<r, 0>>
Fixed(o) == <<"none", o.imm % MEM>>
LoadByte(ext, o) ==
  If(o.rt # 0, <<<<"dirty", "ht", o.rt>>>> \o
    (IF o.rs # 0 THEN Ea(o) \o <<<<"movbe load", 1, "ht", At("rax")>>>>
     ELSE <<<<"movbe load", 1, "ht", Fixed(o)>>>>) \o <<<<ext, BYTE, "ht", "ht">>>>)
LoadHalf(ext, o) ==
  If(o.rt # 0, <<<<"dirty", "ht", o.rt>>>> \o
    (IF o.rs # 0 \/ o.imm % MEM = MEM - 1
     THEN Ea(o) \o <<<<"loadb", "rdx", 1, At("rax")>>>> \o NextA \o <<<<"loadb", "rdx", 0, At("rax")>>,
                     <<ext, H, "ht", "rdx">>>>
     ELSE <<<<"movbe load", 2, "rax", Fixed(o)>>, <<ext, H, "ht", "rax">>>>))
lb(o) == LoadByte("sext", o)
lbu(o) == LoadByte("zext", o)
lh(o) == LoadHalf("sext", o)
lhu(o) == LoadHalf("zext", o)
Slow(o) == o.rs # 0 \/ o.imm % MEM > MEM - 4
BelowEnd == <<<<"cmpi", W, "rax", MEM - 4>>, <<"j", "be", "no_ov">>>>
lw(o) ==
  If(o.rt # 0, <<<<"dirty", "ht", o.rt>>>> \o
    (IF Slow(o)
     THEN Ea(o) \o BelowEnd
       \o <<<<"loadb", "rdx", 1, At("rax")>>>> \o NextA \o <<<<"loadb", "rdx", 0, At("rax")>>,
            <<"shl", W, "rdx", H>>>> \o NextA
       \o <<<<"loadb", "rdx", 1, At("rax")>>>> \o NextA \o <<<<"loadb", "rdx", 0, At("rax")>>,
            <<"mov", W, "ht", "rdx">>, <<"jmp", "end">>,
            <<"bind", "no_ov">>, <<"movbe load", 4, "ht", At("rax")>>, <<"bind", "end">>>>
     ELSE <<<<"movbe load", 4, "ht", Fixed(o)>>>>))
lwu(o) == lw(o)
sb(o) == <<Ht(o)>> \o
  (IF o.rs # 0 THEN Ea(o) \o <<<<"storeb", At("rax"), "ht", 0>>>>
   ELSE <<<<"storeb", Fixed(o), "ht", 0>>>>)
sh(o) == <<Ht(o)>> \o
  (IF o.rs # 0 \/ o.imm % MEM = MEM - 1
   THEN Ea(o) \o <<<<"mov", W, "rdx", "ht">>, <<"storeb", At("rax"), "rdx", 1>>>> \o NextA
        \o <<<<"storeb", At("rax"), "rdx", 0>>>>
   ELSE <<<<"movbe store", 2, Fixed(o), "ht">>>>)
sw(o) == <<Ht(o)>> \o
  (IF Slow(o)
   THEN Ea(o) \o BelowEnd
     \o <<<<"mov", W, "rdx", "ht">>, <<"bswap", "rdx">>, <<"storeb", At("rax"), "rdx", 0>>>> \o NextA
     \o <<<<"storeb", At("rax"), "rdx", 1>>, <<"shr", W, "rdx", H>>>> \o NextA
     \o <<<<"storeb", At("rax"), "rdx", 0>>>> \o NextA
     \o <<<<"storeb", At("rax"), "rdx", 1>>, <<"jmp", "end">>,
          <<"bind", "no_ov">>, <<"movbe store", 4, At("rax"), "ht">>, <<"bind", "end">>>>
   ELSE <<<<"movbe store", 4, Fixed(o), "ht">>>>)

(***************************************************************************)
(* The registers of the SP and the DP, and break.                          *)
(***************************************************************************)
File(o) == 8 * ((o.rd \div 8) % 2)
RegAddr(o) == <<"movi", W, A0, 4 * (o.rd % 8)>>
mfc0(o) ==
  <<<<"destroy", A0>>, RegAddr(o), <<"call register", "read", File(o)>>>>
  \o If(o.rt # 0, <<<<"dirty", "ht", o.rt>>, <<"mov", W, "ht", "rax">>>>)
mtc0(o) ==
  <<<<"reserve args", 2>>, RegAddr(o), Ht(o), <<"mov", W, A1, "ht">>,
    <<"call register", "write", File(o)>>, <<"free args", 2>>>>
  \o If(o.rd % 8 = 4,
        <<<<"jump unless", "halted", "no_halt">>>> \o BlockEpilogWithPcFlush(4)
        \o <<<<"bind", "no_halt">>, <<"jump unless", "sstep", "no_sstep">>>> \o BlockEpilogWithPcFlush(4)
        \o <<<<"bind", "no_sstep">>>>)
break_(o) ==
  <<<<"destroy", A0>>, <<"set halted, broke">>, <<"jump unless", "intbreak", "end">>,
    <<"flush pc", 0>>, <<"leave to RaiseInterrupt">>, <<"bind", "end">>>>
=============================================================================
