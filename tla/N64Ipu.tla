------------------------------- MODULE N64Ipu -------------------------------
(***************************************************************************)
(* The integer unit of the VR4300 as the interpreter executes it           *)
(* (src/n64/vr4300/ipu.cpp): one operator per instruction, from the state  *)
(* s before it to the state after it.  o holds the decoded fields: rs, rt, *)
(* rd, imm (sign-extended), sa, target.  s.exc is the first exception      *)
(* raised ("none": exception_occurred is false), s.mem the access made to  *)
(* memory ("none": no access).  ReadVirtual gives s.rv, and fails when     *)
(* s.fault holds; a sum that overflows an int has no defined value, and    *)
(* s.wide says whether the build kept its 64-bit value or wrapped it.      *)
(***************************************************************************)
EXTENDS N64Words, Sequences

CONSTANT REGION               \* log2 of the region a jump stays in

\* enum class BranchState
DelaySlotNotTaken == 0
DelaySlotTaken == 1
NoBranch == 2
Reg(s, r) == s.gpr[r]
Set(s, r, v) == [s EXCEPT !.gpr = [@ EXCEPT ![r] = Dw(v), ![0] = 0]]
Raise(s, e) == [s EXCEPT !.exc = e]
AdvancePipeline(s, n) == [s EXCEPT !.cycles = @ + n]
Truth(b) == IF b THEN 1 ELSE 0
Min64 == -(2^(D - 1))
\* The imm << 2 of a branch, at this width.
BranchTarget(s, o) == Dw(s.pc + 4 + 4 * o.imm)
JumpTarget(s, o) ==
  LET next == Dw(s.pc + 4) IN
  (next - (next % 2^REGION)) + ((4 * o.target) % 2^REGION)

TakeBranch(s, target) ==
  [s EXCEPT !.last = TRUE, !.branch = DelaySlotTaken, !.jump = Dw(target)]
OnBranchNotTaken(s) == [s EXCEPT !.last = TRUE, !.branch = DelaySlotNotTaken]
DiscardBranch(s) == [s EXCEPT !.pc = Dw(@ + 4), !.branch = NoBranch]
Link(s, r) == Set(s, r, s.pc + 8)

\* if (!can_execute_dword_instrs) return ReservedInstructionException();
Dword(s, t) == IF s.dword THEN t ELSE Raise(s, "ReservedInstruction")
SetOrOverflow(s, r, w, sum) ==
  IF InSigned(w, sum) THEN Set(s, r, sum) ELSE Raise(s, "IntegerOverflow")
IntSum(s, sum) == IF s.wide THEN sum ELSE Sw(sum)
HiLo(s, h, l, n) == AdvancePipeline([s EXCEPT !.hi = Dw(h), !.lo = Dw(l)], n)

(***************************************************************************)
(* Arithmetic and logic.                                                   *)
(***************************************************************************)
add(s, o) == SetOrOverflow(s, o.rd, W, Sw(Reg(s, o.rs)) + Sw(Reg(s, o.rt)))
addi(s, o) == SetOrOverflow(s, o.rt, W, Sw(Reg(s, o.rs)) + o.imm)
addiu(s, o) == Set(s, o.rt, IntSum(s, Sw(Reg(s, o.rs)) + o.imm))
addu(s, o) == Set(s, o.rd, IntSum(s, Sw(Reg(s, o.rs)) + Sw(Reg(s, o.rt))))
sub(s, o) == SetOrOverflow(s, o.rd, W, Sw(Reg(s, o.rs)) - Sw(Reg(s, o.rt)))
subu(s, o) == Set(s, o.rd, IntSum(s, Sw(Reg(s, o.rs)) - Sw(Reg(s, o.rt))))
dadd(s, o) == Dword(s, SetOrOverflow(s, o.rd, D, Sd(Reg(s, o.rs)) + Sd(Reg(s, o.rt))))
daddi(s, o) == Dword(s, SetOrOverflow(s, o.rt, D, Sd(Reg(s, o.rs)) + o.imm))
daddiu(s, o) == Dword(s, Set(s, o.rt, Reg(s, o.rs) + o.imm))
daddu(s, o) == Dword(s, Set(s, o.rd, Reg(s, o.rs) + Reg(s, o.rt)))
dsub(s, o) == Dword(s, SetOrOverflow(s, o.rd, D, Sd(Reg(s, o.rs)) - Sd(Reg(s, o.rt))))
dsubu(s, o) == Dword(s, Set(s, o.rd, Reg(s, o.rs) - Reg(s, o.rt)))

and_(s, o) == Set(s, o.rd, BitAnd(Reg(s, o.rs), Reg(s, o.rt)))
or_(s, o) == Set(s, o.rd, BitOr(Reg(s, o.rs), Reg(s, o.rt)))
xor_(s, o) == Set(s, o.rd, BitXor(Reg(s, o.rs), Reg(s, o.rt)))
nor(s, o) == Set(s, o.rd, BitNot(D, BitOr(Reg(s, o.rs), Reg(s, o.rt))))
\* The immediate of the logical instructions is a u16.
andi(s, o) == Set(s, o.rt, BitAnd(Reg(s, o.rs), Fit(H, o.imm)))
ori(s, o) == Set(s, o.rt, BitOr(Reg(s, o.rs), Fit(H, o.imm)))
xori(s, o) == Set(s, o.rt, BitXor(Reg(s, o.rs), Fit(H, o.imm)))
lui(s, o) == Set(s, o.rt, o.imm * 2^H)

slt(s, o) == Set(s, o.rd, Truth(Sd(Reg(s, o.rs)) < Sd(Reg(s, o.rt))))
slti(s, o) == Set(s, o.rt, Truth(Sd(Reg(s, o.rs)) < o.imm))
sltiu(s, o) == Set(s, o.rt, Truth(Reg(s, o.rs) < Dw(o.imm)))
sltu(s, o) == Set(s, o.rd, Truth(Reg(s, o.rs) < Reg(s, o.rt)))

(***************************************************************************)
(* Shifts.  A word shift right shifts the doubleword, then keeps a word.   *)
(***************************************************************************)
sll(s, o) == Set(s, o.rd, Sw(Reg(s, o.rt) * 2^o.sa))
sllv(s, o) == Set(s, o.rd, Sw(Reg(s, o.rt) * 2^(Reg(s, o.rs) % W)))
sra(s, o) == Set(s, o.rd, Sw(Sar(D, Reg(s, o.rt), o.sa)))
srav(s, o) == Set(s, o.rd, Sw(Sar(D, Reg(s, o.rt), Reg(s, o.rs) % W)))
srl(s, o) == Set(s, o.rd, Sw(Shr(W, Reg(s, o.rt), o.sa)))
srlv(s, o) == Set(s, o.rd, Sw(Shr(W, Reg(s, o.rt), Reg(s, o.rs) % W)))
dsll(s, o) == Dword(s, Set(s, o.rd, Shl(D, Reg(s, o.rt), o.sa)))
dsll32(s, o) == Dword(s, Set(s, o.rd, Shl(D, Reg(s, o.rt), o.sa + W)))
dsllv(s, o) == Dword(s, Set(s, o.rd, Shl(D, Reg(s, o.rt), Reg(s, o.rs) % D)))
dsra(s, o) == Dword(s, Set(s, o.rd, Sar(D, Reg(s, o.rt), o.sa)))
dsra32(s, o) == Dword(s, Set(s, o.rd, Sar(D, Reg(s, o.rt), o.sa + W)))
dsrav(s, o) == Dword(s, Set(s, o.rd, Sar(D, Reg(s, o.rt), Reg(s, o.rs) % D)))
dsrl(s, o) == Dword(s, Set(s, o.rd, Shr(D, Reg(s, o.rt), o.sa)))
dsrl32(s, o) == Dword(s, Set(s, o.rd, Shr(D, Reg(s, o.rt), o.sa + W)))
dsrlv(s, o) == Dword(s, Set(s, o.rd, Shr(D, Reg(s, o.rt), Reg(s, o.rs) % D)))

(***************************************************************************)
(* Multiplication and division: cycles as the code charges them.           *)
(***************************************************************************)
ddiv(s, o) ==
  LET a == Sd(Reg(s, o.rs))  b == Sd(Reg(s, o.rt)) IN
  Dword(s, CASE b = 0 -> HiLo(s, a, IF a >= 0 THEN -1 ELSE 1, 68)
             [] a = Min64 /\ b = -1 -> HiLo(s, 0, a, 68)
             [] OTHER -> HiLo(s, Remainder(a, b), Quotient(a, b), 68))
ddivu(s, o) ==
  LET a == Reg(s, o.rs)  b == Reg(s, o.rt) IN
  Dword(s, IF b = 0 THEN HiLo(s, a, -1, 68) ELSE HiLo(s, a % b, a \div b, 68))
div(s, o) ==
  LET a == Sd(Reg(s, o.rs))  b == Sd(Reg(s, o.rt)) IN
  IF b = 0 THEN HiLo(s, a, IF a < 0 THEN 1 ELSE -1, 36)
           ELSE HiLo(s, Sw(Remainder(Sw(a), b)), Sw(Quotient(Sw(a), b)), 36)
divu(s, o) ==
  LET a == Uw(Reg(s, o.rs))  b == Uw(Reg(s, o.rt)) IN
  IF b = 0 THEN HiLo(s, Sw(a), -1, 36) ELSE HiLo(s, Sw(a % b), Sw(a \div b), 36)
dmult(s, o) ==
  LET prod == Sd(Reg(s, o.rs)) * Sd(Reg(s, o.rt)) IN
  Dword(s, HiLo(s, prod \div 2^D, prod, 7))
dmultu(s, o) ==
  LET prod == Reg(s, o.rs) * Reg(s, o.rt) IN
  Dword(s, HiLo(s, prod \div 2^D, prod, 7))
\* gpr[rt] << 29 >> 29 keeps 35 bits of the second factor: a word and three.
mult(s, o) ==
  LET prod == Dw(Reg(s, o.rs) * Signed(W + 3, Reg(s, o.rt))) IN
  HiLo(s, Sw(Sar(D, prod, W)), Sw(prod), 4)
multu(s, o) ==
  LET prod == Uw(Reg(s, o.rs)) * Uw(Reg(s, o.rt)) IN
  HiLo(s, Sw(prod \div 2^W), Sw(prod), 4)
mfhi(s, o) == Set(s, o.rd, s.hi)
mflo(s, o) == Set(s, o.rd, s.lo)
mthi(s, o) == [s EXCEPT !.hi = Reg(s, o.rs)]
mtlo(s, o) == [s EXCEPT !.lo = Reg(s, o.rs)]

(***************************************************************************)
(* Branches and jumps.  A likely branch that is not taken skips its delay  *)
(* slot; a jump in the delay slot of a taken branch does not jump.         *)
(***************************************************************************)
Branch(s, o, cond) ==
  IF cond THEN TakeBranch(s, BranchTarget(s, o)) ELSE OnBranchNotTaken(s)
Likely(s, o, cond) ==
  IF cond THEN TakeBranch(s, BranchTarget(s, o)) ELSE DiscardBranch(s)
beq(s, o) == Branch(s, o, Reg(s, o.rs) = Reg(s, o.rt))
beql(s, o) == Likely(s, o, Reg(s, o.rs) = Reg(s, o.rt))
bne(s, o) == Branch(s, o, Reg(s, o.rs) # Reg(s, o.rt))
bnel(s, o) == Likely(s, o, Reg(s, o.rs) # Reg(s, o.rt))
bgez(s, o) == Branch(s, o, Sd(Reg(s, o.rs)) >= 0)
bgezl(s, o) == Likely(s, o, Sd(Reg(s, o.rs)) >= 0)
bgtz(s, o) == Branch(s, o, Sd(Reg(s, o.rs)) > 0)
bgtzl(s, o) == Likely(s, o, Sd(Reg(s, o.rs)) > 0)
blez(s, o) == Branch(s, o, Sd(Reg(s, o.rs)) <= 0)
blezl(s, o) == Likely(s, o, Sd(Reg(s, o.rs)) <= 0)
bltz(s, o) == Branch(s, o, Sd(Reg(s, o.rs)) < 0)
bltzl(s, o) == Likely(s, o, Sd(Reg(s, o.rs)) < 0)
\* The slot is looked up before the branch, the address read after it.
bgezal(s, o) ==
  LET slot == s.branch \in {DelaySlotTaken, DelaySlotNotTaken}
      t == bgez(s, o)
  IN  Set(t, 31, 4 + (IF slot THEN t.jump ELSE t.pc + 4))
bgezall(s, o) == bgezl(Link(s, 31), o)
bltzal(s, o) == bltz(Link(s, 31), o)
bltzall(s, o) == bltzl(Link(s, 31), o)
j(s, o) ==
  IF s.branch = DelaySlotTaken THEN s ELSE TakeBranch(s, JumpTarget(s, o))
jal(s, o) ==
  IF s.branch = DelaySlotTaken THEN Set(s, 31, s.jump + 4)
  ELSE TakeBranch(Set(s, 31, s.pc + 8), JumpTarget(s, o))
jalr(s, o) ==
  IF s.branch = DelaySlotTaken THEN Set(s, o.rd, s.jump + 4)
  ELSE TakeBranch(Set(s, o.rd, s.pc + 8), Reg(s, o.rs))
jr(s, o) ==
  IF s.branch = DelaySlotTaken THEN s ELSE TakeBranch(s, Reg(s, o.rs))

(***************************************************************************)
(* Loads and stores.                                                       *)
(***************************************************************************)
Address(s, o) == Dw(Reg(s, o.rs) + o.imm)
Access(s, kind, size, align, addr, data) ==
  [s EXCEPT !.mem = [kind |-> kind, size |-> size, align |-> align, addr |-> addr,
                     data |-> data, pc |-> s.pc],
            !.exc = IF s.fault THEN "Memory" ELSE @]
ReadVirtual(s, size, align, addr) == Access(s, "read", size, align, addr, 0)
WriteVirtual(s, size, align, addr, data) ==
  Access(s, "write", size, align, addr, Fit(size * BYTE, data))
\* if (!exception_occurred) gpr.set(rt, val);
Loaded(t, r, val) == IF t.exc = "none" THEN Set(t, r, val) ELSE t
Load(s, o, size, val) == Loaded(ReadVirtual(s, size, "Aligned", Address(s, o)), o.rt, val)
LinkLoad(s) == [s EXCEPT !.ll_addr = s.paddr \div 2^LinkShift, !.ll_bit = TRUE]

lb(s, o) == Load(s, o, 1, Signed(BYTE, s.rv))
lbu(s, o) == Load(s, o, 1, Fit(BYTE, s.rv))
lh(s, o) == Load(s, o, 2, Signed(H, s.rv))
lhu(s, o) == Load(s, o, 2, Fit(H, s.rv))
lw(s, o) == Load(s, o, 4, Sw(s.rv))
lwu(s, o) == Load(s, o, 4, Uw(s.rv))
ld(s, o) == Dword(s, Load(s, o, 8, s.rv))
ll(s, o) ==
  LET t == LinkLoad(ReadVirtual(s, 4, "Aligned", Address(s, o))) IN Loaded(t, o.rt, Sw(s.rv))
lld(s, o) ==
  LET t == LinkLoad(ReadVirtual(s, 8, "Aligned", Address(s, o))) IN Loaded(t, o.rt, s.rv)
\* The bits from the last boundary are the bytes of the address in its word.
Bits(s, o, size) == (Address(s, o) % size) * BYTE
ldl(s, o) ==
  LET n == Bits(s, o, 8) IN
  Dword(s, Loaded(ReadVirtual(s, 8, "UnalignedLeft", Address(s, o)), o.rt,
                  Shl(D, s.rv, n) + Fit(n, Reg(s, o.rt))))
ldr(s, o) ==
  LET n == Bits(s, o, 8) IN
  Dword(s, Loaded(ReadVirtual(s, 8, "UnalignedRight", Address(s, o)), o.rt,
                  BitOr(Shr(D, s.rv, 7 * BYTE - n),
                     BitAnd(Reg(s, o.rt), Shl(D, 2^D - 2^BYTE, n)))))
lwl(s, o) ==
  LET n == Bits(s, o, 4) IN
  Loaded(ReadVirtual(s, 4, "UnalignedLeft", Address(s, o)), o.rt,
         Sw(Shl(W, s.rv, n) + Fit(n, Reg(s, o.rt))))
lwr(s, o) ==
  LET n == Bits(s, o, 4) IN
  Loaded(ReadVirtual(s, 4, "UnalignedRight", Address(s, o)), o.rt,
         Sw(BitOr(Shr(W, s.rv, 3 * BYTE - n), BitAnd(Reg(s, o.rt), Shl(W, 2^W - 2^BYTE, n)))))

Store(s, o, size) == WriteVirtual(s, size, "Aligned", Address(s, o), Reg(s, o.rt))
sb(s, o) == Store(s, o, 1)
sh(s, o) == Store(s, o, 2)
sw(s, o) == Store(s, o, 4)
sd(s, o) == Store(s, o, 8)
StoreConditional(s, o, size) ==
  Set(IF s.ll_bit THEN Store(s, o, size) ELSE s, o.rt, Truth(s.ll_bit))
sc(s, o) == StoreConditional(s, o, 4)
scd(s, o) == StoreConditional(s, o, 8)
sdl(s, o) == WriteVirtual(s, 8, "UnalignedLeft", Address(s, o),
                          Sar(D, Reg(s, o.rt), Bits(s, o, 8)))
sdr(s, o) == WriteVirtual(s, 8, "UnalignedRight", Address(s, o),
                          Shl(D, Reg(s, o.rt), 7 * BYTE - Bits(s, o, 8)))
swl(s, o) == WriteVirtual(s, 4, "UnalignedLeft", Address(s, o),
                          Shr(D, Reg(s, o.rt), Bits(s, o, 4)))
swr(s, o) == WriteVirtual(s, 4, "UnalignedRight", Address(s, o),
                          Shl(D, Reg(s, o.rt), 3 * BYTE - Bits(s, o, 4)))

(***************************************************************************)
(* Traps.                                                                  *)
(***************************************************************************)
Trap(s, cond) == IF cond THEN Raise(s, "Trap") ELSE s
teq(s, o) == Trap(s, Reg(s, o.rs) = Reg(s, o.rt))
teqi(s, o) == Trap(s, Sd(Reg(s, o.rs)) = o.imm)
tge(s, o) == Trap(s, Sd(Reg(s, o.rs)) >= Sd(Reg(s, o.rt)))
tgei(s, o) == Trap(s, Sd(Reg(s, o.rs)) >= o.imm)
tgeu(s, o) == Trap(s, Reg(s, o.rs) >= Reg(s, o.rt))
tgeiu(s, o) == Trap(s, Reg(s, o.rs) >= Dw(o.imm))
tlt(s, o) == Trap(s, Sd(Reg(s, o.rs)) < Sd(Reg(s, o.rt)))
tlti(s, o) == Trap(s, Sd(Reg(s, o.rs)) < o.imm)
tltu(s, o) == Trap(s, Reg(s, o.rs) < Reg(s, o.rt))
tltiu(s, o) == Trap(s, Reg(s, o.rs) < Dw(o.imm))
tne(s, o) == Trap(s, Reg(s, o.rs) # Reg(s, o.rt))
tnei(s, o) == Trap(s, Sd(Reg(s, o.rs)) # o.imm)
break_(s, o) == Raise(s, "Breakpoint")
syscall(s, o) == Raise(s, "Syscall")
sync(s, o) == s
=============================================================================
