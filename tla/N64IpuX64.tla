----------------------------- MODULE N64IpuX64 -----------------------------
(***************************************************************************)
(* The integer unit of the VR4300 as the recompiler emits it for x64       *)
(* (src/n64/vr4300/ipu_x64.cpp): one operator per instruction, which emits *)
(* its code into the block m and runs it.  The fields of o are those of    *)
(* N64Ipu, and so are the fields of m that the code addresses in memory.   *)
(***************************************************************************)
EXTENDS X64Emitter

CONSTANT REGION

DelaySlotNotTaken == 0
DelaySlotTaken == 1
NoBranch == 2

A0 == ArgRegs[1]
A1 == ArgRegs[2]
Hs(o) == <<"get", "hs", o.rs>>
Ht(o) == <<"get", "ht", o.rt>>
Sources(o) == <<Hs(o), Ht(o)>>
\* Gpq hd = GetDirtyGpr(rd), hs = GetGpr(rs), ht = GetGpr(rt);
Three(o) == <<<<"dirty", "hd", o.rd>>, Hs(o), Ht(o)>>
\* Gpq ht = GetDirtyGpr(rt), hs = GetGpr(rs);
Two(o) == <<<<"dirty", "ht", o.rt>>, Hs(o)>>
\* Gpq hd = GetDirtyGpr(rd), ht = GetGpr(rt);
ShiftRegs(o) == <<<<"dirty", "hd", o.rd>>, Ht(o)>>

RaiseNow(e) == <<<<"flush pc", 0>>, <<"epilog jmp", e>>>>
OnNoOverflow == <<<<"j", "no", "ok">>>> \o RaiseNow("IntegerOverflow") \o <<<<"bind", "ok">>>>
\* CheckDwordOpCondJit looks at the processor when the block is compiled.
Dword(m, code) ==
  Emitted(m, IF m.dword THEN code
             ELSE RaiseNow("ReservedInstruction") \o <<<<"branched">>>>)

(***************************************************************************)
(* Arithmetic and logic.                                                   *)
(***************************************************************************)
Checked(w, op, o) ==
  Sources(o) \o <<<<"mov", w, "rax", "hs">>, <<op, w, "rax", "ht">>>> \o OnNoOverflow
  \o If(o.rd # 0, <<<<"dirty", "hd", o.rd>>, <<"movsx", w, "hd", "rax">>>>)
CheckedImm(w, o) ==
  <<Hs(o), <<"mov", w, "rax", "hs">>, <<"addi", w, "rax", o.imm>>>> \o OnNoOverflow
  \o If(o.rt # 0, <<<<"dirty", "ht", o.rt>>, <<"movsx", w, "ht", "rax">>>>)
add(m, o) == Emitted(m, Checked(W, "add", o))
addi(m, o) == Emitted(m, CheckedImm(W, o))
sub(m, o) == Emitted(m, Checked(W, "sub", o))
dadd(m, o) == Dword(m, Checked(D, "add", o))
daddi(m, o) == Dword(m, CheckedImm(D, o))
dsub(m, o) == Dword(m, Checked(D, "sub", o))

PlusImm(w, o) ==
  If(o.rt # 0, Two(o) \o
     <<IF o.rs = o.rt THEN <<"addi", w, "ht", o.imm>> ELSE <<"lea", w, "ht", "hs", o.imm>>,
       <<"movsx", w, "ht", "ht">>>>)
Plus(w, o) ==
  If(o.rd # 0, Three(o) \o
     <<IF o.rs = o.rd THEN <<"add", w, "hd", "ht">> ELSE <<"leax", w, "hd", "hs", "ht">>,
       <<"movsx", w, "hd", "hd">>>>)
Minus(w, o) ==
  If(o.rd # 0, Three(o) \o
     (IF o.rt = o.rd THEN <<<<"neg", w, "hd">>, <<"add", w, "hd", "hs">>>>
      ELSE If(o.rs # o.rd, <<<<"mov", w, "hd", "hs">>>>) \o <<<<"sub", w, "hd", "ht">>>>)
     \o <<<<"movsx", w, "hd", "hd">>>>)
addiu(m, o) == Emitted(m, PlusImm(W, o))
addu(m, o) == Emitted(m, Plus(W, o))
subu(m, o) == Emitted(m, Minus(W, o))
daddiu(m, o) == Dword(m, PlusImm(D, o))
daddu(m, o) == Dword(m, Plus(D, o))
dsubu(m, o) == Dword(m, Minus(D, o))

Logic(op, o) ==
  If(o.rd # 0, Three(o) \o If(o.rs # o.rd, <<<<"mov", D, "hd", "hs">>>>)
               \o <<<<op, D, "hd", "ht">>>>)
LogicImm(op, w, o) ==
  If(o.rt # 0, Two(o) \o If(o.rs # o.rt, <<<<"mov", w, "ht", "hs">>>>)
               \o <<<<op, w, "ht", Fit(H, o.imm)>>>>)
and_(m, o) == Emitted(m, Logic("and", o))
or_(m, o) == Emitted(m, Logic("or", o))
xor_(m, o) == Emitted(m, Logic("xor", o))
nor(m, o) == Emitted(m, Logic("or", o) \o If(o.rd # 0, <<<<"not", D, "hd">>>>))
andi(m, o) == Emitted(m, LogicImm("andi", W, o))
ori(m, o) == Emitted(m, LogicImm("ori", D, o))
xori(m, o) == Emitted(m, LogicImm("xori", D, o))
lui(m, o) == Emitted(m, If(o.rt # 0, <<<<"dirty", "ht", o.rt>>, <<"movi", D, "ht", o.imm * 2^H>>>>))

SetIf(cc, o) ==
  If(o.rd # 0, Three(o) \o <<<<"cmp", D, "hs", "ht">>, <<"set", cc>>, <<"movzx", AL, "hd", "rax">>>>)
SetIfImm(cc, o) ==
  If(o.rt # 0, Two(o) \o <<<<"cmpi", D, "hs", o.imm>>, <<"set", cc>>, <<"movzx", AL, "ht", "rax">>>>)
slt(m, o) == Emitted(m, SetIf("l", o))
sltu(m, o) == Emitted(m, SetIf("b", o))
slti(m, o) == Emitted(m, SetIfImm("l", o))
sltiu(m, o) == Emitted(m, SetIfImm("b", o))

(***************************************************************************)
(* Shifts.                                                                 *)
(***************************************************************************)
ShiftBy(op, copy, o, n) ==
  If(o.rd # 0, ShiftRegs(o) \o If(o.rt # o.rd, <<<<"mov", copy, "hd", "ht">>>>)
               \o <<<<op, D, "hd", n>>>>)
dsll(m, o) == Dword(m, ShiftBy("shl", D, o, o.sa))
dsll32(m, o) == Dword(m, ShiftBy("shl", W, o, o.sa + W))
dsra(m, o) == Dword(m, ShiftBy("sar", D, o, o.sa))
dsra32(m, o) == Dword(m, ShiftBy("sar", D, o, o.sa + W))
dsrl(m, o) == Dword(m, ShiftBy("shr", D, o, o.sa))
dsrl32(m, o) == Dword(m, ShiftBy("shr", D, o, o.sa + W))
sra(m, o) ==
  Emitted(m, ShiftBy("sar", D, o, o.sa) \o If(o.rd # 0, <<<<"movsx", W, "hd", "hd">>>>))
sll(m, o) == Emitted(m,
  If(o.rd # 0, ShiftRegs(o) \o
     (IF o.rt = o.rd THEN <<<<"shl", W, "hd", o.sa>>, <<"movsx", W, "hd", "hd">>>>
      ELSE <<<<"mov", W, "rax", "ht">>, <<"shl", W, "rax", o.sa>>, <<"movsx", W, "hd", "rax">>>>)))
srl(m, o) == Emitted(m,
  If(o.rd # 0, ShiftRegs(o) \o
     (IF o.sa # 0
      THEN If(o.rt # o.rd, <<<<"mov", W, "hd", "ht">>>>) \o <<<<"shr", W, "hd", o.sa>>>>
      ELSE <<<<"movsx", W, "hd", "ht">>>>)))
ShiftVar(op, w, o) == If(o.rd # 0, Three(o) \o <<<<op, w, "hd", "ht", "hs">>>>)
FaultyExtended(o) == <<>>
Extended(o) == If(o.rd # 0, <<<<"movsx", W, "hd", "hd">>>>)
dsllv(m, o) == Dword(m, ShiftVar("shlx", D, o))
dsrav(m, o) == Dword(m, ShiftVar("sarx", D, o))
dsrlv(m, o) == Dword(m, ShiftVar("shrx", D, o))
sllv(m, o) == Emitted(m, ShiftVar("shlx", W, o) \o Extended(o))
srlv(m, o) == Emitted(m, ShiftVar("shrx", W, o) \o Extended(o))
srav(m, o) == Emitted(m,
  If(o.rd # 0, Three(o) \o <<<<"mov", W, "rax", "hs">>, <<"and al", W - 1>>,
                             <<"sarx", D, "hd", "ht", "rax">>>>) \o Extended(o))

(***************************************************************************)
(* Multiplication and division.                                            *)
(***************************************************************************)
ToHiLo(hi) == <<<<"store", "lo", "rax">>, <<"store", "hi", hi>>>>
ddiv(m, o) == Dword(m,
  <<<<"reserve", "rdx">>>> \o Sources(o) \o
  <<<<"test", D, "ht">>, <<"j", "e", "divzero">>,
    <<"mov", D, "rax", "hs">>, <<"mov", D, "rdx", "ht">>, <<"btc", "rax", D - 1>>,
    <<"not", D, "rdx">>, <<"or", D, "rax", "rdx">>, <<"j", "ne", "div">>,
    <<"mov", D, "rax", "hs">>, <<"movi", W, "rdx", 0>>, <<"jmp", "end">>,
    <<"bind", "divzero">>, <<"mov", D, "rax", "hs">>, <<"mov", D, "rdx", "rax">>,
    <<"sar", D, "rax", D - 1>>, <<"andi", W, "rax", 2>>, <<"addi", D, "rax", -1>>,
    <<"jmp", "end">>,
    <<"bind", "div">>, <<"mov", D, "rax", "hs">>, <<"cqo">>, <<"idiv", "ht">>,
    <<"bind", "end">>>> \o ToHiLo("rdx") \o <<<<"cycles", 68>>, <<"free", "rdx">>>>)
Saved3(o, zero, divide, n) ==
  Sources(o) \o <<<<"push", "rdx">>>> \o zero \o <<<<"jmp", "end">>, <<"bind", "div">>>>
  \o divide \o <<<<"bind", "end">>>> \o ToHiLo("rdx") \o <<<<"pop", "rdx">>, <<"cycles", n>>>>
MinusOne == <<<<"movi", W, "rax", 0>>, <<"addi", D, "rax", -1>>>>
Cdqe == <<<<"movsx", W, "rax", "rax">>, <<"movsx", W, "rdx", "rdx">>>>
ddivu(m, o) == Dword(m, Saved3(o,
  <<<<"test", D, "ht">>, <<"j", "ne", "div">>>> \o MinusOne \o <<<<"mov", D, "rdx", "hs">>>>,
  <<<<"mov", D, "rax", "hs">>, <<"movi", W, "rdx", 0>>, <<"div", D, "ht or saved">>>>, 68))
div(m, o) == Emitted(m, Saved3(o,
  <<<<"test", D, "ht">>, <<"j", "ne", "div">>, <<"movsx", W, "rdx", "hs">>,
    <<"mov", W, "rax", "rdx">>, <<"sar", W, "rax", W - 1>>, <<"andi", W, "rax", 2>>,
    <<"addi", D, "rax", -1>>>>,
  <<<<"movsx", W, "rax", "hs">>, <<"cqo">>, <<"idiv", "ht or saved">>>> \o Cdqe, 36))
divu(m, o) == Emitted(m, Saved3(o,
  <<<<"test", W, "ht">>, <<"j", "ne", "div">>>> \o MinusOne \o <<<<"movsx", W, "rdx", "hs">>>>,
  <<<<"mov", W, "rax", "hs">>, <<"movi", W, "rdx", 0>>, <<"div", W, "ht or saved">>>> \o Cdqe, 36))
FaultyWideProduct(op, o) ==
  Sources(o) \o <<<<"push", "rdx">>, <<"mov", D, "rax", "hs">>, <<op, "ht or saved">>>>
  \o ToHiLo("rdx") \o <<<<"cycles", 7>>>>
WideProduct(op, o) ==
  Sources(o) \o <<<<"push", "rdx">>, <<"mov", D, "rax", "hs">>, <<"movi", W, "rdx", 0>>,
                  <<op, "ht or saved">>>>
  \o ToHiLo("rdx") \o <<<<"pop", "rdx">>, <<"cycles", 7>>>>
dmult(m, o) == Dword(m, WideProduct("imul wide", o))
dmultu(m, o) == Emitted(m, WideProduct("mul wide", o))
\* The product is built in the host register of rs, which is given back after.
Product(o, factors) ==
  Sources(o) \o <<<<"push", "hs">>>> \o factors
  \o <<<<"imul", "hs", "rax">>, <<"movsx", W, "rax", "hs">>, <<"sar", D, "hs", W>>>>
  \o ToHiLo("hs") \o <<<<"pop", "hs">>, <<"cycles", 4>>>>
\* shl 29, sar 29: all but W + 3 bits are shifted out and back in.
mult(m, o) == Emitted(m, Product(o,
  <<<<"mov", D, "rax", "ht">>, <<"shl", D, "rax", W - 3>>, <<"sar", D, "rax", W - 3>>>>))
multu(m, o) == Emitted(m, Product(o,
  <<<<"mov", W, "rax", "ht">>, <<"mov", W, "hs", "hs">>>>))
mfhi(m, o) == Emitted(m, If(o.rd # 0, <<<<"dirty", "hd", o.rd>>, <<"load", "hd", "hi">>>>))
mflo(m, o) == Emitted(m, If(o.rd # 0, <<<<"dirty", "hd", o.rd>>, <<"load", "hd", "lo">>>>))
mthi(m, o) == Emitted(m, <<Hs(o), <<"store", "hi", "hs">>>>)
mtlo(m, o) == Emitted(m, <<Hs(o), <<"store", "lo", "hs">>>>)

(***************************************************************************)
(* Branches and jumps.                                                     *)
(***************************************************************************)
EmitBranchTaken(m, target) ==
  <<<<"storei", "branch", DelaySlotTaken>>, <<"movi", D, "rax", target>>, <<"store", "jump", "rax">>>>
EmitBranchTakenTo(r) == <<<<"storei", "branch", DelaySlotTaken>>, <<"store", "jump", r>>>>
EmitBranchNotTaken == <<<<"storei", "branch", DelaySlotNotTaken>>>>
EmitBranchDiscarded == <<<<"storei", "branch", NoBranch>>, <<"flush pc", 8>>, <<"epilog">>>>
EmitLink(m) == <<<<"dirty", "hd", 31>>, <<"movi", D, "hd", m.jit_pc + 8>>>>
BranchTarget(m, o) == m.jit_pc + 4 + 4 * o.imm
JumpTarget(m, o) ==
  LET next == Dw(m.jit_pc + 4) IN
  (next - (next % 2^REGION)) + ((4 * o.target) % 2^REGION)

BranchIf(m, o, cc, likely) ==
  <<<<"j", cc, "branch">>>>
  \o (IF likely THEN EmitBranchDiscarded ELSE EmitBranchNotTaken)
  \o <<<<"jmp", "end">>, <<"bind", "branch">>>> \o EmitBranchTaken(m, BranchTarget(m, o))
  \o <<<<"bind", "end">>, <<"branch emitted">>>>
branch2(m, o, cc, likely) == Emitted(m,
  (CASE o.rs = 0 -> <<Ht(o), <<"test", D, "ht">>>>
     [] o.rs # 0 /\ o.rt = 0 -> <<Hs(o), <<"test", D, "hs">>>>
     [] OTHER -> Sources(o) \o <<<<"cmp", D, "hs", "ht">>>>)
  \o BranchIf(m, o, cc, likely))
branch1(m, o, cc, likely, link) == Emitted(m,
  (IF link THEN EmitLink(m) ELSE <<>>) \o <<Hs(o), <<"test", D, "hs">>>> \o BranchIf(m, o, cc, likely))
beq(m, o) == branch2(m, o, "e", FALSE)
beql(m, o) == branch2(m, o, "e", TRUE)
bne(m, o) == branch2(m, o, "ne", FALSE)
bnel(m, o) == branch2(m, o, "ne", TRUE)
bgez(m, o) == branch1(m, o, "ns", FALSE, FALSE)
bgezl(m, o) == branch1(m, o, "ns", TRUE, FALSE)
bgezall(m, o) == branch1(m, o, "ns", TRUE, TRUE)
bgtz(m, o) == branch1(m, o, "g", FALSE, FALSE)
bgtzl(m, o) == branch1(m, o, "g", TRUE, FALSE)
blez(m, o) == branch1(m, o, "le", FALSE, FALSE)
blezl(m, o) == branch1(m, o, "le", TRUE, FALSE)
bltz(m, o) == branch1(m, o, "s", FALSE, FALSE)
bltzl(m, o) == branch1(m, o, "s", TRUE, FALSE)
bltzal(m, o) == branch1(m, o, "s", FALSE, TRUE)
bltzall(m, o) == branch1(m, o, "s", TRUE, TRUE)
\* The saved state is compared with DelaySlotTaken | DelaySlotNotTaken = 1.
bgezal(m, o) == Emitted(m,
  <<Hs(o), <<"dirty", "hd", 31>>, <<"load", "rax", "branch">>, <<"push", "rax">>,
    <<"test", D, "hs">>, <<"j", "ns", "branch">>>> \o EmitBranchNotTaken
  \o <<<<"jmp", "link">>, <<"bind", "branch">>>> \o EmitBranchTaken(m, BranchTarget(m, o))
  \o <<<<"bind", "link">>, <<"pop", "rax">>, <<"cmpi", AL, "rax", DelaySlotTaken>>,
       <<"j", "e", "no_delay_slot">>, <<"movi", W, "hd", 4>>, <<"add mem", D, "hd", "jump">>,
       <<"jmp", "end">>, <<"bind", "no_delay_slot">>, <<"movi", D, "hd", m.jit_pc + 8>>,
       <<"bind", "end">>, <<"branch emitted">>>>)
InTakenSlot == <<"cmp mem", "branch", DelaySlotTaken>>
j(m, o) == Emitted(m,
  <<InTakenSlot, <<"j", "e", "end">>>> \o EmitBranchTaken(m, JumpTarget(m, o))
  \o <<<<"bind", "end">>, <<"branch emitted">>>>)
jr(m, o) == Emitted(m,
  <<Hs(o), InTakenSlot, <<"j", "e", "end">>>> \o EmitBranchTakenTo("hs")
  \o <<<<"bind", "end">>, <<"branch emitted">>>>)
LinkOrJump(m, jump) ==
  <<InTakenSlot, <<"j", "ne", "jump">>, <<"load", "hd", "jump">>, <<"addi", D, "hd", 4>>,
    <<"jmp", "end">>, <<"bind", "jump">>>> \o jump
  \o <<<<"bind", "end">>, <<"branch emitted">>>>
jal(m, o) == Emitted(m,
  <<<<"dirty", "hd", 31>>>> \o LinkOrJump(m,
     <<<<"movi", D, "hd", m.jit_pc + 8>>>> \o EmitBranchTaken(m, JumpTarget(m, o))))
jalr(m, o) == Emitted(m,
  <<<<"dirty", "hd", o.rd>>, Hs(o)>> \o LinkOrJump(m,
     (IF o.rs = o.rd THEN <<<<"mov", D, "rax", "hs">>>> ELSE <<>>)
     \o <<<<"movi", D, "hd", m.jit_pc + 8>>>>
     \o EmitBranchTakenTo(IF o.rs = o.rd THEN "rax" ELSE "hs")))

(***************************************************************************)
(* Loads and stores.  A call goes through the argument registers, and      *)
(* leaves the block when the access raised an exception.                   *)
(***************************************************************************)
AddressArg(o) == <<<<"flush pc", 0>>, <<"reserve args", 1>>, Hs(o), <<"lea", D, A0, "hs", o.imm>>>>
LeaveOnException == <<<<"cmp mem", "exc", "none">>, <<"j", "e", "noexception">>, <<"epilog">>,
                      <<"bind", "noexception">>>>
load(m, o, size, linked, extend) == Emitted(m,
  AddressArg(o) \o <<<<"call", "read", size, "Aligned">>, <<"free args", 1>>>>
  \o If(linked, <<<<"load", "rcx", "paddr">>, <<"storei", "ll_bit", TRUE>>,
                  <<"shr", W, "rcx", LinkShift>>, <<"store", "ll_addr", "rcx">>>>)
  \o LeaveOnException
  \o If(o.rt # 0, <<<<"dirty", "ht", o.rt>>, <<extend, size * BYTE, "ht", "rax">>>>))
lb(m, o) == load(m, o, 1, FALSE, "movsx")
lbu(m, o) == load(m, o, 1, FALSE, "movzx")
lh(m, o) == load(m, o, 2, FALSE, "movsx")
lhu(m, o) == load(m, o, 2, FALSE, "movzx")
lw(m, o) == load(m, o, 4, FALSE, "movsx")
lwu(m, o) == load(m, o, 4, FALSE, "movzx")
ll(m, o) == load(m, o, 4, TRUE, "movsx")
ld(m, o) == IF m.dword THEN load(m, o, 8, FALSE, "movzx") ELSE Dword(m, <<>>)
lld(m, o) == IF m.dword THEN load(m, o, 8, TRUE, "movzx") ELSE Dword(m, <<>>)

\* The address is kept on the stack across the call; lwl and lwr do not take
\* it back.
Partial(o, w, size, align, popped, merge) ==
  AddressArg(o) \o <<<<"push", A0>>, <<"call aligned", "read", size, align>>, <<"free args", 1>>>>
  \o If(popped, <<<<"pop", "rcx">>>>) \o LeaveOnException
  \o If(o.rt # 0, <<<<"reserve", "rcx">>, <<"reserve", "rdx">>, <<"dirty", "ht", o.rt>>>> \o merge
        \o <<<<"and", w, "ht", "rdx">>, <<"or", w, "ht", "rax">>, <<"movsx", w, "ht", "ht">>,
             <<"free", "rcx">>, <<"free", "rdx">>>>)
MergeLeft(w) ==
  <<<<"bytes", W, "rcx", "rcx">>, <<"movi", W, "rdx", 1>>, <<"shl cl", w, "rax">>,
    <<"shl cl", w, "rdx">>, <<"addi", w, "rdx", -1>>>>
MergeRight(w, bytes) ==
  <<<<"bytes", w, "rcx", "rcx">>, <<"movi", D, "rdx", 2^W - 2^BYTE>>, <<"shl cl", w, "rdx">>,
    <<"xori", W, "rcx", (bytes - 1) * BYTE>>, <<"shr cl", w, "rax">>>>
ldl(m, o) == Dword(m, Partial(o, D, 8, "UnalignedLeft", TRUE, MergeLeft(D)))
ldr(m, o) == Dword(m, Partial(o, D, 8, "UnalignedRight", TRUE, MergeRight(D, 8)))
lwl(m, o) == Emitted(m, Partial(o, W, 4, "UnalignedLeft", FALSE, MergeLeft(W)))
lwr(m, o) == Emitted(m, Partial(o, W, 4, "UnalignedRight", FALSE, MergeRight(W, 4)))

WriteCall(o, size, align, data) ==
  <<<<"flush pc", 0>>, <<"reserve args", 2>>>> \o Sources(o) \o <<<<"lea", D, A0, "hs", o.imm>>>>
  \o data \o <<<<"call", "write", size, align>>, <<"free args", 2>>>>
store(m, o, size) == Emitted(m,
  WriteCall(o, size, "Aligned", <<<<"mov", D, A1, "ht">>>>) \o LeaveOnException)
sb(m, o) == store(m, o, 1)
sh(m, o) == store(m, o, 2)
sw(m, o) == store(m, o, 4)
sd(m, o) == IF m.dword THEN store(m, o, 8) ELSE Dword(m, <<>>)
store_conditional(m, o, size) == Emitted(m,
  <<<<"cmp mem", "ll_bit", TRUE>>, <<"j", "e", "store">>>>
  \o If(o.rt # 0, <<<<"dirty", "ht", o.rt>>, <<"movi", W, "ht", 0>>>>)
  \o <<<<"jmp", "noexception">>, <<"bind", "store">>>>
  \o WriteCall(o, size, "Aligned", <<<<"mov", D, A1, "ht">>>>)
  \o If(o.rt # 0, <<<<"dirty", "ht", o.rt>>, <<"movi", W, "ht", 1>>>>)
  \o LeaveOnException)
sc(m, o) == store_conditional(m, o, 4)
scd(m, o) == IF m.dword THEN store_conditional(m, o, 8) ELSE Dword(m, <<>>)
Shifted8(o, size, align, adjust, op) ==
  WriteCall(o, size, align, <<<<"bytes", W, "rax", A0>>>> \o adjust \o <<<<op, D, A1, "ht", "rax">>>>)
  \o LeaveOnException
sdl(m, o) == Dword(m, Shifted8(o, 8, "UnalignedLeft", <<>>, "sarx"))
sdr(m, o) == Dword(m, Shifted8(o, 8, "UnalignedRight", <<<<"xor al", 7 * BYTE>>>>, "shlx"))
swl(m, o) == Emitted(m, Shifted8(o, 4, "UnalignedLeft", <<<<"and al", 3 * BYTE>>>>, "shrx"))
swr(m, o) == Emitted(m, Shifted8(o, 4, "UnalignedRight", <<<<"xor al", 3 * BYTE>>>>, "shlx"))

(***************************************************************************)
(* Traps: the jump skips the exception on the opposite condition.          *)
(***************************************************************************)
TrapUnless(cc) ==
  <<<<"j", cc, "notrap">>>> \o RaiseNow("Trap") \o <<<<"bind", "notrap">>, <<"branched">>>>
trap2(m, o, cc) == Emitted(m, Sources(o) \o <<<<"cmp", D, "hs", "ht">>>> \o TrapUnless(cc))
trap1(m, o, cc) == Emitted(m, <<Hs(o), <<"cmpi", D, "hs", o.imm>>>> \o TrapUnless(cc))
teq(m, o) == trap2(m, o, "ne")
tge(m, o) == trap2(m, o, "l")
tgeu(m, o) == trap2(m, o, "b")
tlt(m, o) == trap2(m, o, "ge")
tltu(m, o) == trap2(m, o, "ae")
tne(m, o) == trap2(m, o, "e")
teqi(m, o) == trap1(m, o, "ne")
tgei(m, o) == trap1(m, o, "l")
tgeiu(m, o) == trap1(m, o, "b")
tlti(m, o) == trap1(m, o, "ge")
tltiu(m, o) == trap1(m, o, "ae")
tnei(m, o) == trap1(m, o, "e")
break_(m, o) == Emitted(m, RaiseNow("Breakpoint") \o <<<<"branched">>>>)
syscall(m, o) == Emitted(m, RaiseNow("Syscall") \o <<<<"branched">>>>)
sync(m, o) == m
=============================================================================
