---------------------------- MODULE N64RspLockstep ----------------------------
(***************************************************************************)
(* The two engines of the RSP side by side: a step executes one            *)
(* instruction from one state of the RSP in the interpreter (N64Rsp for    *)
(* the scalar unit, N64Vu for the vector unit) and in the code the         *)
(* recompiler emits (N64RspX64, N64VuX64), and keeps what each leaves.     *)
(* The initial states range over the operands and over what the allocator  *)
(* has bound when the instruction is emitted.                              *)
(***************************************************************************)
EXTENDS N64Vu, FiniteSets

CONSTANTS Volatile, NonVolatile, ArgRegs, Guests, Junk,
          VecVolatile, VecGuests, JunkVec,
          Inputs,          \* the register contents tried
          Allocations,     \* the states of the allocators tried
          Elements         \* the element numbers tried in vector operands

\* The memories of the program are 0x1000 bytes, for which a small one stands.
ASSUME MemAssumption == MEM \in {16 * n : n \in 1..256}
\* A lane is a bit pattern, a condition is 0 or Ones, and an element has four bits.
ASSUME InputsAssumption ==
  \A d \in Inputs :
    /\ \A v \in {d.a, d.b, d.lo, d.mid, d.hi} : v \in [Lanes -> 0..Ones]
    /\ \A v \in {d.co, d.cox, d.cc, d.ccx, d.ce} : v \in [Lanes -> {0, Ones}]
ASSUME ElementsAssumption == Elements \subseteq 0..15

VARIABLES data, alloc, instr, ops, code, interp, jit
rspVars == <<data, alloc, instr, ops, code, interp, jit>>

I == INSTANCE N64Rsp
J == INSTANCE N64RspX64
JV == INSTANCE N64VuX64

Vprs == 0..7
PCs == {8, MEM - 4}
Jump == 20               \* jump_addr, as the last branch left it

(***************************************************************************)
(* The states the engines start from.  Inputs has the two general          *)
(* registers, the vectors of registers 1 and 2, the three slices of the    *)
(* accumulator and the control registers.                                  *)
(***************************************************************************)
Gpr(g) == CASE g = 0 -> 0 [] g = 1 -> data.x [] g = 2 -> data.y [] OTHER -> 77
Vpr(r) == CASE r = 1 -> data.a [] r = 2 -> data.b
            [] OTHER -> [i \in Lanes |-> (3 * r + 5 * i) % (Ones + 1)]
Memory == [a \in 0..MEM - 1 |-> (a + a \div 4 + 3 * (a \div 8)) % 2^BYTE]
Context(c) ==
  [pending |-> c.pending, in_slot |-> c.pending, jump |-> Jump, halted |-> FALSE, broke |-> FALSE,
   sstep |-> FALSE, intbreak |-> c.intbreak, irq |-> FALSE, io |-> "none", rv |-> data.y,
   effect |-> c.effect, dmem |-> Memory, co |-> data.co, cox |-> data.cox, cc |-> data.cc,
   ccx |-> data.ccx, ce |-> data.ce, dout |-> 3, din |-> 6, ddp |-> c.ddp, cycles |-> 0]
With(f, g) == [k \in DOMAIN f \cup DOMAIN g |-> IF k \in DOMAIN g THEN g[k] ELSE f[k]]
Interpreter(c) ==
  With(Context(c),
    [gpr |-> [g \in Guests |-> Gpr(g)], vpr |-> [r \in Vprs |-> Vpr(r)], pc |-> c.pc,
     acc |-> [low |-> data.lo, mid |-> data.mid, high |-> data.hi]])

\* What an allocator holds: a dirty binding of each guest in bound, in binding
\* order; the host has the value, memory an older one.
BoundTo(bound, h) == {g \in DOMAIN bound : bound[g] = h}
Allocator(hosts, extra, guests, bound, next_free, Value(_), junk) ==
  LET IndexOf(h) == CHOOSE i \in 1..Len(hosts) : hosts[i] = h IN
  [bindings |-> [i \in 1..Len(hosts) |->
     IF BoundTo(bound, hosts[i]) = {} THEN J!Unbound
     ELSE [J!Unbound EXCEPT !.guest = CHOOSE g \in BoundTo(bound, hosts[i]) : TRUE,
                            !.dirty = TRUE, !.access = i]],
   guest_to_host |-> [g \in guests |-> IF g \in DOMAIN bound THEN IndexOf(bound[g]) ELSE J!None],
   next_free |-> next_free, access_index |-> 20,
   host |-> [h \in extra \cup {hosts[i] : i \in 1..Len(hosts)} |->
     IF BoundTo(bound, h) = {} THEN junk ELSE Value(CHOOSE g \in BoundTo(bound, h) : TRUE)],
   gpr |-> [g \in guests |-> IF g \in DOMAIN bound THEN junk ELSE Value(g)],
   at |-> "run", underflow |-> FALSE, evicted |-> FALSE, aligned |-> TRUE, stack_space |-> FALSE]
VecValue(g) ==
  CASE g = J!AccLow -> data.lo [] g = J!AccMid -> data.mid [] g = J!AccHigh -> data.hi
    [] OTHER -> Vpr(g - 1)
Emitter(c) ==
  With(With(Context(c), Allocator(Volatile \o NonVolatile, {"rax", "rcx", "rdx", "rbp"}, Guests,
                                  alloc.bound, alloc.next_free, Gpr, Junk)),
    [v |-> With(Allocator(VecVolatile, {"x0", "x1", "x2", "vte"}, VecGuests,
                          alloc.vbound, alloc.vnext_free, VecValue, JunkVec), [stack |-> <<>>]),
     pc |-> c.block_pc, block_pc |-> c.block_pc, jit_pc |-> c.pc, block_cycles |-> 1,
     branched |-> FALSE, stack |-> <<77>>, args |-> <<0, 0>>, last |-> FALSE, wild |-> FALSE,
     flags |-> [eq |-> FALSE, less |-> FALSE, below |-> FALSE, sign |-> FALSE, over |-> FALSE],
     var |-> [n \in {"hs", "ht", "hd"} |-> "rax"],
     vvar |-> [n \in {"hd", "hs", "ht", "hte", "haccl", "haccm", "hacch"} |-> "x0"],
     s16 |-> JunkVec, s32 |-> JunkVec])

(***************************************************************************)
(* What an instruction leaves.  In the recompiler a guest register is in   *)
(* its host register while it is bound; jump_addr counts while a jump is   *)
(* pending, and the loop of the engine ends only between blocks.           *)
(***************************************************************************)
Outcome(s, gpr, vpr, acc, pc, stops, cycles) ==
  [gpr |-> gpr, vpr |-> vpr, acc |-> acc, pc |-> pc, stops |-> stops, cycles |-> cycles,
   pending |-> s.pending, jump |-> IF s.pending THEN s.jump ELSE 0, halted |-> s.halted,
   broke |-> s.broke, sstep |-> s.sstep, irq |-> s.irq, io |-> s.io, dmem |-> s.dmem,
   co |-> s.co, cox |-> s.cox, cc |-> s.cc, ccx |-> s.ccx, ce |-> s.ce,
   dout |-> s.dout, din |-> s.din, ddp |-> s.ddp]
Interpreted(s) ==
  LET t == I!Stepped(s) IN
  Outcome(t, t.gpr, t.vpr, t.acc, t.pc, t.halted \/ t.sstep, 1)
Guest(m, g) ==
  IF m.at = "run" /\ m.guest_to_host[g] # J!None THEN m.host[J!HostOf(m, g)] ELSE m.gpr[g]
VecGuestOf(m, g) ==
  IF m.at = "run" /\ m.v.guest_to_host[g] # J!None THEN m.v.host[J!V!HostOf(m.v, g)] ELSE m.v.gpr[g]
Recompiled(m) ==
  Outcome(m, [g \in Guests |-> Guest(m, g)],
    [r \in Vprs |-> VecGuestOf(m, J!VecGuest(r))],
    [low |-> VecGuestOf(m, J!AccLow), mid |-> VecGuestOf(m, J!AccMid), high |-> VecGuestOf(m, J!AccHigh)],
    IF m.at = "left" THEN m.pc ELSE m.jit_pc,
    m.at = "left" /\ (m.halted \/ m.sstep),
    IF m.at = "left" THEN m.cycles ELSE m.cycles + m.block_cycles)
\* The registers as the end of the block leaves them in memory: all but vector
\* register 0, which is never stored, being taken for the register that is 0.
Stored(r) == [gpr |-> r.gpr, vpr |-> [v \in Vprs \ {0} |-> r.vpr[v]], acc |-> r.acc]

(***************************************************************************)
(* The operands and the contexts the instructions are tried with.  An      *)
(* instruction stands in a delay slot that did not fit in the block before *)
(* (it is the first of its own), in one that did, or in none.              *)
(***************************************************************************)
Op(rs, rt, rd, imm, sa, target) ==
  [rs |-> rs, rt |-> rt, rd |-> rd, imm |-> imm, sa |-> sa, target |-> target]
RRR == {Op(r[1], r[2], r[3], 0, 0, 0) :
          r \in {<<1, 2, 1>>, <<1, 2, 2>>, <<1, 2, 0>>, <<1, 1, 1>>, <<1, 1, 2>>, <<0, 2, 1>>,
                 <<1, 0, 2>>, <<2, 1, 31>>}}
RRI == {Op(r[1], r[2], 0, i, 0, 0) : r \in {<<1, 2>>, <<1, 1>>, <<1, 0>>, <<0, 2>>}, i \in {-2, -1, 1, 3}}
RI == {Op(r, 2, 0, i, 0, 0) : r \in {1, 0, 31}, i \in {-2, 1}}
Addresses == RRI \cup {Op(0, 1, 0, i, 0, 0) : i \in {4, -3}}
Shifts == {Op(0, r[1], r[2], 0, n, 0) : r \in {<<1, 1>>, <<1, 2>>, <<2, 0>>}, n \in {0, 1, W - 1}}
RS == {Op(r, 2, 0, 0, 0, 0) : r \in {0, 1, 2}}
RSRD == {Op(r[1], 0, r[2], 0, 0, 0) : r \in {<<1, 2>>, <<1, 1>>, <<1, 31>>, <<1, 0>>}}
Targets == {Op(0, 0, 0, 0, 0, t) : t \in {0, 5}}
Registers == {Op(0, r, d, 0, 0, 0) : r \in {0, 1, 2}, d \in {3, 4, 12}}

VOp(vs, vt, vd, e, rs, rt, imm) ==
  [vs |-> vs, vt |-> vt, vd |-> vd, e |-> e, rs |-> rs, rt |-> rt, imm |-> imm]
VVV == {VOp(r[1], r[2], r[3], e, 0, 0, 0) :
          r \in {<<1, 2, 3>>, <<1, 2, 1>>, <<2, 1, 1>>, <<1, 1, 1>>, <<1, 2, 0>>}, e \in Elements}
OneLane == {VOp(r[1], r[2], r[3], e, 0, 0, 0) :
              r \in {<<0, 1, 2>>, <<7, 2, 1>>, <<5, 1, 1>>}, e \in {0, 3, 6, 9, 15}}
Sars == {VOp(1, 2, d, e, 0, 0, 0) : d \in {0, 1}, e \in 7..11}
VMoves == {VOp(v, 0, 0, e, 0, r, 0) : v \in {1, 2}, e \in 0..15, r \in {0, 1}}
VAddresses ==
  {VOp(0, v, 0, e, 1, 0, i) : v \in {1, 4}, e \in {0, 1, 2, 5, 8, 9, 12, 15}, i \in {0, -1}}

Where(pending, first, pc) ==
  [pending |-> pending, pc |-> pc, block_pc |-> IF first THEN pc ELSE pc - 4,
   intbreak |-> FALSE, effect |-> "none", ddp |-> 0]
Plain == {Where(FALSE, FALSE, 8)}
Slots == {Where(p, f, pc) : p \in BOOLEAN, f \in BOOLEAN, pc \in PCs}
Effects == {[w EXCEPT !.effect = x] : w \in Slots, x \in {"none", "halt", "sstep"}}
Breaks == {[w EXCEPT !.intbreak = b] : w \in Slots, b \in BOOLEAN}
Divider == {[w EXCEPT !.ddp = d] : w \in Plain, d \in {0, 1}}

Run(name, Os, Cs, InI(_, _), Code(_)) ==
  /\ instr = "none"
  /\ instr' = name
  /\ \E o \in Os, c \in Cs :
       /\ ops' = With(o, c)
       /\ interp' = Interpreted(InI(Interpreter(c), o))
       /\ code' = Code(With(o, c))
  /\ UNCHANGED <<data, alloc>>
\* The block the code emitted for the instruction makes runs.
Block ==
  \E m \in {J!Compiled(Emitter(ops'), code')} :
    jit' = [result |-> Recompiled(J!AfterRun(m)), wild |-> m.wild,
            stored |-> Stored(Recompiled(J!RspEpilog(m)))]

RspInit ==
  /\ data \in Inputs
  /\ alloc \in Allocations
  /\ instr = "none" /\ ops = "none" /\ code = <<>> /\ interp = "none" /\ jit = "none"

Alu ==
  \/ Run("add", RRR, Plain, I!add, J!add)
  \/ Run("addi", RRI, Plain, I!addi, J!addi)
  \/ Run("addiu", RRI, Slots, I!addiu, J!addiu)
  \/ Run("addu", RRR, Plain, I!addu, J!addu)
  \/ Run("sub", RRR, Plain, I!sub, J!sub)
  \/ Run("subu", RRR, Plain, I!subu, J!subu)
  \/ Run("and", RRR, Plain, I!and_, J!and_)
  \/ Run("or", RRR, Plain, I!or_, J!or_)
  \/ Run("xor", RRR, Plain, I!xor_, J!xor_)
  \/ Run("nor", RRR, Plain, I!nor, J!nor)
  \/ Run("andi", RRI, Plain, I!andi, J!andi)
  \/ Run("ori", RRI, Plain, I!ori, J!ori)
  \/ Run("xori", RRI, Plain, I!xori, J!xori)
  \/ Run("lui", RRI, Plain, I!lui, J!lui)
  \/ Run("slt", RRR, Plain, I!slt, J!slt)
  \/ Run("sltu", RRR, Plain, I!sltu, J!sltu)
  \/ Run("slti", RRI, Plain, I!slti, J!slti)
  \/ Run("sltiu", RRI, Plain, I!sltiu, J!sltiu)
  \/ Run("sll", Shifts, Plain, I!sll, J!sll)
  \/ Run("sra", Shifts, Plain, I!sra, J!sra)
  \/ Run("srl", Shifts, Plain, I!srl, J!srl)
  \/ Run("sllv", RRR, Plain, I!sllv, J!sllv)
  \/ Run("srav", RRR, Plain, I!srav, J!srav)
  \/ Run("srlv", RRR, Plain, I!srlv, J!srlv)
BranchInstructions ==
  \/ Run("beq", RRI, Slots, I!beq, J!beq)
  \/ Run("bne", RRI, Slots, I!bne, J!bne)
  \/ Run("bgez", RI, Slots, I!bgez, J!bgez)
  \/ Run("bgtz", RI, Slots, I!bgtz, J!bgtz)
  \/ Run("blez", RI, Slots, I!blez, J!blez)
  \/ Run("bltz", RI, Slots, I!bltz, J!bltz)
  \/ Run("bgezal", RI, Slots, I!bgezal, J!bgezal)
  \/ Run("bltzal", RI, Slots, I!bltzal, J!bltzal)
  \/ Run("j", Targets, Slots, I!j, J!j)
  \/ Run("jal", Targets, Slots, I!jal, J!jal)
  \/ Run("jr", RS, Slots, I!jr, J!jr)
  \/ Run("jalr", RSRD, Slots, I!jalr, J!jalr)
MemoryInstructions ==
  \/ Run("lb", Addresses, Plain, I!lb, J!lb)
  \/ Run("lbu", Addresses, Plain, I!lbu, J!lbu)
  \/ Run("lh", Addresses, Plain, I!lh, J!lh)
  \/ Run("lhu", Addresses, Plain, I!lhu, J!lhu)
  \/ Run("lw", Addresses, Plain, I!lw, J!lw)
  \/ Run("lwu", Addresses, Plain, I!lwu, J!lwu)
  \/ Run("sb", Addresses, Plain, I!sb, J!sb)
  \/ Run("sh", Addresses, Plain, I!sh, J!sh)
  \/ Run("sw", Addresses, Plain, I!sw, J!sw)
  \/ Run("mfc0", Registers, Slots, I!mfc0, J!mfc0)
  \/ Run("mtc0", Registers, Effects, I!mtc0, J!mtc0)
  \/ Run("break", {Op(0, 0, 0, 0, 0, 0)}, Breaks, I!break_, J!break_)
VectorMemory ==
  \/ Run("mfc2", VMoves, Plain, mfc2, JV!mfc2)
  \/ Run("mtc2", VMoves, Plain, mtc2, JV!mtc2)
  \/ Run("lbv", VAddresses, Plain, lbv, JV!lbv)
  \/ Run("lsv", VAddresses, Plain, lsv, JV!lsv)
  \/ Run("llv", VAddresses, Plain, llv, JV!llv)
  \/ Run("ldv", VAddresses, Plain, ldv, JV!ldv)
  \/ Run("lfv", VAddresses, Plain, lfv, JV!lfv)
  \/ Run("lhv", VAddresses, Plain, lhv, JV!lhv)
  \/ Run("lpv", VAddresses, Plain, lpv, JV!lpv)
  \/ Run("luv", VAddresses, Plain, luv, JV!luv)
  \/ Run("lqv", VAddresses, Plain, lqv, JV!lqv)
  \/ Run("lrv", VAddresses, Plain, lrv, JV!lrv)
  \/ Run("ltv", VAddresses, Plain, ltv, JV!ltv)
  \/ Run("sbv", VAddresses, Plain, sbv, JV!sbv)
  \/ Run("ssv", VAddresses, Plain, ssv, JV!ssv)
  \/ Run("slv", VAddresses, Plain, slv, JV!slv)
  \/ Run("sdv", VAddresses, Plain, sdv, JV!sdv)
  \/ Run("sfv", VAddresses, Plain, sfv, JV!sfv)
  \/ Run("shv", VAddresses, Plain, shv, JV!shv)
  \/ Run("spv", VAddresses, Plain, spv, JV!spv)
  \/ Run("suv", VAddresses, Plain, suv, JV!suv)
  \/ Run("sqv", VAddresses, Plain, sqv, JV!sqv)
  \/ Run("srv", VAddresses, Plain, srv, JV!srv)
  \/ Run("stv", VAddresses, Plain, stv, JV!stv)
  \/ Run("swv", VAddresses, Plain, swv, JV!swv)
Selects ==
  \/ Run("vabs", VVV, Plain, vabs, JV!vabs)
  \/ Run("vadd", VVV, Plain, vadd, JV!vadd)
  \/ Run("vaddc", VVV, Plain, vaddc, JV!vaddc)
  \/ Run("vsub", VVV, Plain, vsub, JV!vsub)
  \/ Run("vsubc", VVV, Plain, vsubc, JV!vsubc)
  \/ Run("vand", VVV, Plain, vand, JV!vand)
  \/ Run("vnand", VVV, Plain, vnand, JV!vnand)
  \/ Run("vor", VVV, Plain, vor, JV!vor)
  \/ Run("vnor", VVV, Plain, vnor, JV!vnor)
  \/ Run("vxor", VVV, Plain, vxor, JV!vxor)
  \/ Run("vnxor", VVV, Plain, vnxor, JV!vnxor)
  \/ Run("vzero", VVV, Plain, vzero, JV!vzero)
  \/ Run("vnop", VVV, Plain, vnop, JV!vnop)
  \/ Run("veq", VVV, Plain, veq, JV!veq)
  \/ Run("vne", VVV, Plain, vne, JV!vne)
  \/ Run("vge", VVV, Plain, vge, JV!vge)
  \/ Run("vlt", VVV, Plain, vlt, JV!vlt)
  \/ Run("vmrg", VVV, Plain, vmrg, JV!vmrg)
  \/ Run("vch", VVV, Plain, vch, JV!vch)
  \/ Run("vcl", VVV, Plain, vcl, JV!vcl)
  \/ Run("vcr", VVV, Plain, vcr, JV!vcr)
  \/ Run("vsar", Sars, Plain, vsar, JV!vsar)
Products ==
  \/ Run("vmacf", VVV, Plain, vmacf, JV!vmacf)
  \/ Run("vmacu", VVV, Plain, vmacu, JV!vmacu)
  \/ Run("vmacq", VVV, Plain, vmacq, JV!vmacq)
  \/ Run("vmadh", VVV, Plain, vmadh, JV!vmadh)
  \/ Run("vmadl", VVV, Plain, vmadl, JV!vmadl)
  \/ Run("vmadm", VVV, Plain, vmadm, JV!vmadm)
  \/ Run("vmadn", VVV, Plain, vmadn, JV!vmadn)
  \/ Run("vmudh", VVV, Plain, vmudh, JV!vmudh)
  \/ Run("vmudl", VVV, Plain, vmudl, JV!vmudl)
  \/ Run("vmudm", VVV, Plain, vmudm, JV!vmudm)
  \/ Run("vmudn", VVV, Plain, vmudn, JV!vmudn)
  \/ Run("vmulf", VVV, Plain, vmulf, JV!vmulf)
  \/ Run("vmulu", VVV, Plain, vmulu, JV!vmulu)
  \/ Run("vmulq", VVV, Plain, vmulq, JV!vmulq)
  \/ Run("vrndn", VVV, Plain, vrndn, JV!vrndn)
  \/ Run("vrndp", VVV, Plain, vrndp, JV!vrndp)
Divisions ==
  \/ Run("vmov", OneLane, Plain, vmov, JV!vmov)
  \/ Run("vrcp", OneLane, Divider, vrcp, JV!vrcp)
  \/ Run("vrsq", OneLane, Divider, vrsq, JV!vrsq)
  \/ Run("vrcpl", OneLane, Divider, vrcpl, JV!vrcpl)
  \/ Run("vrsql", OneLane, Divider, vrsql, JV!vrsql)
  \/ Run("vrcph", OneLane, Divider, vrcph, JV!vrcph)
  \/ Run("vrsqh", OneLane, Divider, vrsqh, JV!vrsqh)
Scalar ==
  /\ data.unit = "scalar"
  /\ \/ Alu
     \/ BranchInstructions
     \/ MemoryInstructions
     \/ VectorMemory
Vector ==
  /\ data.unit = "vector"
  /\ \/ Selects
     \/ Products
     \/ Divisions
RspNext == (Scalar \/ Vector) /\ Block
RspSpec == RspInit /\ [][RspNext]_rspVars

(***************************************************************************)
(* Where the engines do differ.  Each of these is a case the code really   *)
(* gets into; the README describes them one by one.                        *)
(***************************************************************************)
Conditional == {"beq", "bne", "bgez", "bgtz", "blez", "bltz", "bgezal", "bltzal"}
\* A block's first instruction: the host registers are handed out in order,
\* whether they are reserved or not.
FreshBlock == alloc.next_free = 1
\* rd is rt: it is overwritten before it is read.
OverwrittenSource ==
  \/ instr \in {"and", "or", "xor", "nor"} /\ ops.rt = ops.rd /\ ops.rs # ops.rt
  \/ instr \in {"sub", "subu"} /\ ops.rt = ops.rd /\ ops.rs = ops.rt
ZeroWritten == instr = "jalr" /\ ops.rd = 0
\* A branch that is not taken in the slot of one that is: the interpreter jumps
\* at once, the recompiler first executes one more instruction.
NotTakenInSlot == instr \in Conditional /\ ops.pending /\ ~interp.pending
\* The code runs on after a break outside a delay slot; with the interrupt
\* enabled it stops with the pc at the break.
RunsOn == instr = "break" /\ ~ops.pending
\* The first argument's register, already loaded, is handed out to rt.
ReservedArgument == FreshBlock /\ instr = "mtc0"
\* A write to SP_STATUS that sets single step in a delay slot: the recompiler
\* leaves the block with the jump still pending.
StepInSlot == instr = "mtc0" /\ ops.pending /\ ops.effect = "sstep" /\ ops.rd = 4
\* One that stops the RSP at the last word of IMEM leaves the pc past the end.
StopAtEnd == instr = "mtc0" /\ ops.pc = MEM - 4 /\ interp.stops /\ ~ops.pending
\* The vector scratch registers are reserved and handed out all the same.
ReservedScratch == FreshBlock /\ instr \in {"vch", "vcl", "vmacf", "vmacu", "vrndn", "vrndp"}
\* The carry out of rounding is tested with > 0 for >= 0: in these lanes, the
\* upper slices of the accumulator and the result differ.
LostCarry == IF instr \in {"vmulf", "vmulu"} THEN {i \in Lanes : interp.acc.low[i] = 0} ELSE {}
Agreeing(lanes) == [i \in Lanes |-> IF i \in LostCarry THEN 0 ELSE lanes[i]]
Compared(r) ==
  IF LostCarry = {} THEN r
  ELSE [r EXCEPT !.acc.mid = Agreeing(@), !.acc.high = Agreeing(@),
                 !.vpr = [v \in DOMAIN @ |-> IF v = ops.vd THEN Agreeing(@[v]) ELSE @[v]]]
\* The address that wraps is masked before it is compared with one that is not.
WrapMissed ==
  LET a == Gpr(ops.rs) + ops.imm * 16 IN instr = "ltv" /\ ((a % 2^W) \div 8) * 8 + 16 > MEM
Known ==
  \/ OverwrittenSource \/ ZeroWritten \/ NotTakenInSlot \/ RunsOn \/ ReservedArgument
  \/ StepInSlot \/ StopAtEnd \/ ReservedScratch \/ WrapMissed

(***************************************************************************)
(* Properties.                                                             *)
(***************************************************************************)
\* Whatever the operands, the registers an instruction names twice, the
\* element, the slot it stands in and the host registers its guests are bound
\* to, the two engines leave the same registers, accumulator, control
\* registers and memory, the same pc with the same branch pending, and stop
\* or go on alike; and what the end of the block stores is what the
\* interpreter would have, except in the cases and lanes listed above.
RspEnginesAgree ==
  instr # "none" /\ ~Known =>
    /\ Compared(interp) = Compared(jit.result)
    /\ ~jit.wild
    /\ Compared(Stored(interp)) = Compared(jit.stored)

\* The accumulator is one number of three halfwords, and the products that are
\* added to it slice by slice, with the carries handed on by comparisons, add
\* up: what a multiply-accumulate leaves is what it found and the product
\* (twice it for fractions, shifted and signed as the instruction says),
\* modulo 2^48; and the signed results are its upper part, saturated.
Modulus == 2^H * 2^H * 2^H
Accumulator(lo, mid, hi, i) == lo[i] + 2^H * mid[i] + 2^H * 2^H * hi[i]
Found(i) == Accumulator(data.lo, data.mid, data.hi, i)
Product(i) ==
  LET s == Vpr(ops.vs)[i] t == Broadcasted(Vpr(ops.vt), ops.e)[i] IN
  CASE instr \in {"vmacf", "vmacu"} -> 2 * Sl(s) * Sl(t)
    [] instr \in {"vmulf", "vmulu"} -> 2 * Sl(s) * Sl(t) + 2^(H - 1)
    [] instr \in {"vmadl", "vmudl"} -> (s * t) \div 2^H
    [] instr \in {"vmadm", "vmudm"} -> Sl(s) * t
    [] instr \in {"vmadn", "vmudn"} -> s * Sl(t)
    [] instr \in {"vmadh", "vmudh"} -> 2^H * Sl(s) * Sl(t)
Accumulating == {"vmacf", "vmacu", "vmadl", "vmadm", "vmadn", "vmadh"}
Multiplying == {"vmulf", "vmulu", "vmudl", "vmudm", "vmudn", "vmudh"}
AccumulatorIsSum ==
  instr \in Accumulating \cup Multiplying =>
    \A i \in Lanes :
      LET left == Accumulator(interp.acc.low, interp.acc.mid, interp.acc.high, i) IN
      /\ left = (Product(i) + (IF instr \in Accumulating THEN Found(i) ELSE 0)) % Modulus
      /\ instr \in {"vmacf", "vmulf", "vmadm", "vmudm", "vmadh", "vmudh"} =>
           interp.vpr[ops.vd][i] =
             SatS((IF 2 * left < Modulus THEN left ELSE left - Modulus) \div 2^H)
=============================================================================
