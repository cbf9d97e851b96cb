----------------------------- MODULE X64Emitter -----------------------------
(***************************************************************************)
(* What the recompilers do with the assembler: an instruction is compiled  *)
(* by emitting a sequence of operations, each a tuple whose first element  *)
(* names it, and Emitted(m, code) is the state after emitting the sequence *)
(* and running it.  Operations of the allocator and of the compiler change *)
(* the compile-time part of m wherever they stand; x86 instructions change *)
(* the run-time part only where control reaches them.  A register operand  *)
(* is a host register or one of the names hs, ht, hd that the code gives   *)
(* to what GetGpr returned.                                                *)
(***************************************************************************)
EXTENDS N64Words, RegisterAllocatorState

AL == IF BYTE = 8 THEN 8 ELSE W     \* bits of al: more than a shift count has

If(c, code) == IF c THEN code ELSE <<>>
HostReg(m, r) == IF r \in DOMAIN m.var THEN m.var[r] ELSE r
\* "ht or saved": if (ht == rdx) the copy that was pushed, else ht.
Val(m, r) ==
  IF r = "ht or saved"
  THEN IF m.var["ht"] = "rdx" THEN Head(m.stack) ELSE m.host[m.var["ht"]]
  ELSE m.host[HostReg(m, r)]
\* Writing a 32-bit register clears the upper half of the 64-bit one.
Put(m, r, w, v) == [m EXCEPT !.host[HostReg(m, r)] = Fit(w, v)]
\* Writing al keeps the rest of rax.
PutLow(m, r, v) ==
  [m EXCEPT !.host[HostReg(m, r)] = (@ - Fit(AL, @)) + Fit(AL, v)]

\* The flags a comparison of a with b leaves.
Flags(w, a, b) ==
  [eq |-> Fit(w, a) = Fit(w, b), less |-> Signed(w, a) < Signed(w, b),
   below |-> Fit(w, a) < Fit(w, b), sign |-> Signed(w, a - b) < 0,
   over |-> ~InSigned(w, Signed(w, a) - Signed(w, b))]
Holds(f, cc) ==
  CASE cc = "e" -> f.eq             [] cc = "ne" -> ~f.eq
    [] cc = "s" -> f.sign           [] cc = "ns" -> ~f.sign
    [] cc = "l" -> f.less           [] cc = "ge" -> ~f.less
    [] cc = "le" -> f.less \/ f.eq  [] cc = "g" -> ~f.less /\ ~f.eq
    [] cc = "b" -> f.below          [] cc = "ae" -> ~f.below
    [] cc = "be" -> f.below \/ f.eq [] cc = "o" -> f.over [] cc = "no" -> ~f.over

\* dst := dst op v, with the flags of the result.
Alu(m, w, r, v, over) ==
  [Put(m, r, w, v) EXCEPT !.flags = [Flags(w, v, 0) EXCEPT !.over = over]]
Sum(m, w, r, v) ==
  LET a == Val(m, r) IN Alu(m, w, r, a + v, ~InSigned(w, Signed(w, a) + Signed(w, v)))
Difference(m, w, r, v) ==
  LET a == Val(m, r) IN Alu(m, w, r, a - v, ~InSigned(w, Signed(w, a) - Signed(w, v)))

\* x86 takes a shift count modulo the operand's width.
Shifted(op, w, v, n) ==
  CASE op = "shl" -> Shl(w, v, n % w) [] op = "shr" -> Shr(w, v, n % w)
    [] op = "sar" -> Sar(w, v, n % w)

\* rdx:rax := rax * v, and rdx:rax divided by v: a quotient that does not fit
\* faults.
Wide(m, lo, hi) == Put(Put(m, "rax", D, lo), "rdx", D, hi)
DivideError(m) == [m EXCEPT !.at = "left", !.exc = "#DE"]
Divided(m, w, dividend, v, Fits(_)) ==
  IF v = 0 \/ ~Fits(Quotient(dividend, v)) THEN DivideError(m)
  ELSE Put(Put(m, "rax", w, Quotient(dividend, v)), "rdx", w, Remainder(dividend, v))
Dividend(m) == Signed(D, m.host["rdx"]) * 2^D + m.host["rax"]

Moves(m, e) ==
  CASE e[1] = "mov" -> Put(m, e[3], e[2], Val(m, e[4]))
    [] e[1] = "movi" -> Put(m, e[3], e[2], e[4])
    [] e[1] = "movsx" -> Put(m, e[3], D, Signed(e[2], Val(m, e[4])))
    [] e[1] = "movzx" -> Put(m, e[3], D, Fit(e[2], Val(m, e[4])))
    [] e[1] = "lea" -> Put(m, e[3], e[2], Val(m, e[4]) + e[5])
    [] e[1] = "leax" -> Put(m, e[3], e[2], Val(m, e[4]) + Val(m, e[5]))
    [] e[1] = "load" -> Put(m, e[2], D, m[e[3]])
    [] e[1] = "store" -> [m EXCEPT ![e[2]] = Val(m, e[3])]
    [] e[1] = "storei" -> [m EXCEPT ![e[2]] = e[3]]
    [] e[1] = "push" -> Push(m, Val(m, e[2]))
    [] e[1] = "pop" -> Pop(m, HostReg(m, e[2]))
    [] e[1] = "cqo" -> Put(m, "rdx", D, IF Sd(m.host["rax"]) < 0 THEN -1 ELSE 0)
    [] e[1] = "set" -> PutLow(m, "rax", IF Holds(m.flags, e[2]) THEN 1 ELSE 0)

Arithmetic(m, e) ==
  CASE e[1] = "add" -> Sum(m, e[2], e[3], Val(m, e[4]))
    [] e[1] = "addi" -> Sum(m, e[2], e[3], e[4])
    [] e[1] = "add mem" -> Sum(m, e[2], e[3], m[e[4]])
    [] e[1] = "sub" -> Difference(m, e[2], e[3], Val(m, e[4]))
    [] e[1] = "neg" -> Put(m, e[3], e[2], -Val(m, e[3]))
    [] e[1] = "and" -> Alu(m, e[2], e[3], BitAnd(Val(m, e[3]), Val(m, e[4])), FALSE)
    [] e[1] = "andi" -> Alu(m, e[2], e[3], BitAnd(Val(m, e[3]), Fit(e[2], e[4])), FALSE)
    [] e[1] = "or" -> Alu(m, e[2], e[3], BitOr(Val(m, e[3]), Val(m, e[4])), FALSE)
    [] e[1] = "ori" -> Alu(m, e[2], e[3], BitOr(Val(m, e[3]), Fit(e[2], e[4])), FALSE)
    [] e[1] = "xor" -> Alu(m, e[2], e[3], BitXor(Val(m, e[3]), Val(m, e[4])), FALSE)
    [] e[1] = "xori" -> Alu(m, e[2], e[3], BitXor(Val(m, e[3]), Fit(e[2], e[4])), FALSE)
    [] e[1] = "and al" -> PutLow(m, "rax", BitAnd(Fit(AL, m.host["rax"]), e[2]))
    [] e[1] = "xor al" -> PutLow(m, "rax", BitXor(Fit(AL, m.host["rax"]), e[2]))
    [] e[1] = "not" -> Put(m, e[3], e[2], BitNot(D, Val(m, e[3])))
    [] e[1] = "btc" -> Put(m, e[2], D, BitXor(Val(m, e[2]), 2^e[3]))
    [] e[1] = "bytes" -> Put(m, e[3], e[2], Val(m, e[4]) * BYTE)
    [] e[1] \in {"shl", "shr", "sar"} -> Put(m, e[3], e[2], Shifted(e[1], e[2], Val(m, e[3]), e[4]))
    [] e[1] = "shl cl" -> Put(m, e[3], e[2], Shifted("shl", e[2], Val(m, e[3]), m.host["rcx"]))
    [] e[1] = "shr cl" -> Put(m, e[3], e[2], Shifted("shr", e[2], Val(m, e[3]), m.host["rcx"]))
    [] e[1] = "shlx" -> Put(m, e[3], e[2], Shifted("shl", e[2], Val(m, e[4]), Val(m, e[5])))
    [] e[1] = "shrx" -> Put(m, e[3], e[2], Shifted("shr", e[2], Val(m, e[4]), Val(m, e[5])))
    [] e[1] = "sarx" -> Put(m, e[3], e[2], Shifted("sar", e[2], Val(m, e[4]), Val(m, e[5])))
    [] e[1] = "imul" -> Put(m, e[2], D, Val(m, e[2]) * Val(m, e[3]))
    [] e[1] = "imul wide" ->
         LET p == Sd(m.host["rax"]) * Sd(Val(m, e[2])) IN Wide(m, p, p \div 2^D)
    [] e[1] = "mul wide" ->
         LET p == m.host["rax"] * Val(m, e[2]) IN Wide(m, p, p \div 2^D)
    [] e[1] = "idiv" -> Divided(m, D, Dividend(m), Sd(Val(m, e[2])), LAMBDA q : InSigned(D, q))
    [] e[1] = "div" -> Divided(m, e[2], Fit(e[2], m.host["rax"]), Fit(e[2], Val(m, e[3])),
                                 LAMBDA q : q < 2^e[2])

Comparisons(m, e) ==
  CASE e[1] = "cmp" -> [m EXCEPT !.flags = Flags(e[2], Val(m, e[3]), Val(m, e[4]))]
    [] e[1] = "cmpi" -> [m EXCEPT !.flags = Flags(e[2], Val(m, e[3]), e[4])]
    [] e[1] = "test" -> [m EXCEPT !.flags = Flags(e[2], Val(m, e[3]), 0)]
    [] e[1] = "cmp mem" -> [m EXCEPT !.flags.eq = (m[e[2]] = e[3])]
    [] e[1] = "jmp" -> [m EXCEPT !.at = e[2]]
    [] e[1] = "j" -> IF Holds(m.flags, e[2]) THEN [m EXCEPT !.at = e[3]] ELSE m

\* FlushPc adds to the pc in memory what the emitter's pc is past the block's
\* start; RecordBlockCycles charges the block up to here.
FlushPc(m, offset) ==
  IF Running(m) THEN [m EXCEPT !.pc = Dw(@ + (m.jit_pc + offset - m.block_pc))] ELSE m
RecordBlockCycles(m) ==
  IF Running(m) THEN [m EXCEPT !.cycles = @ + m.block_cycles] ELSE m
EpilogWithJmp(m, exception) ==
  LET t == BlockEpilog(RecordBlockCycles(m)) IN
  IF Running(m) THEN [t EXCEPT !.exc = exception] ELSE t

Access(m, kind, size, align) ==
  [m EXCEPT !.mem = [kind |-> kind, size |-> size, align |-> align,
                     addr |-> m.args[1], pc |-> m.pc,
                     data |-> IF kind = "write" THEN Fit(size * BYTE, m.args[2]) ELSE 0],
            !.exc = IF m.fault THEN "Memory" ELSE @,
            \* only the low size bytes of rax are the value
            !.host["rax"] = IF kind = "write" THEN Junk
                            ELSE Fit(size * BYTE, m.rv) + (2^D - 2^(size * BYTE))]
\* The arguments are what the argument registers hold at the call, before
\* the callee clobbers them.
WithArgs(m) == [m EXCEPT !.args = <<m.host[ArgRegs[1]], m.host[ArgRegs[2]]>>]

Compiler(m, e) ==
  CASE e[1] = "get" -> LET t == GetGpr(m, e[3], FALSE) IN [t EXCEPT !.var[e[2]] = HostOf(t, e[3])]
    [] e[1] = "dirty" -> LET t == GetGpr(m, e[3], e[3] # 0) IN [t EXCEPT !.var[e[2]] = HostOf(t, e[3])]
    [] e[1] = "reserve" -> Reserve(m, e[2])
    [] e[1] = "free" -> Free(m, e[2])
    [] e[1] = "reserve args" -> ReserveArgs(m, e[2])
    [] e[1] = "free args" -> FreeArgs(m, e[2])
    [] e[1] = "destroy" -> DestroyVolatile(m, e[2])
    [] e[1] = "call" -> Call(WithArgs(m), LAMBDA t : Access(t, e[2], e[3], e[4]))
    [] e[1] = "call aligned" ->
         CallWithStackAlignment(WithArgs(m), LAMBDA t : Access(t, e[2], e[3], e[4]))
    [] e[1] = "bind" -> IF m.at = e[2] THEN [m EXCEPT !.at = "run"] ELSE m
    [] e[1] = "flush pc" -> FlushPc(m, e[2])
    [] e[1] = "epilog" -> BlockEpilog(RecordBlockCycles(m))
    [] e[1] = "epilog jmp" -> EpilogWithJmp(m, e[2])
    [] e[1] = "cycles" -> [m EXCEPT !.block_cycles = @ + e[2]]
    [] e[1] = "branched" -> [m EXCEPT !.branched = TRUE]
    [] e[1] = "branch emitted" -> [m EXCEPT !.last = TRUE]

MoveOps == {"mov", "movi", "movsx", "movzx", "lea", "leax", "load", "store", "storei",
            "push", "pop", "cqo", "set"}
CompareOps == {"cmp", "cmpi", "test", "cmp mem", "jmp", "j"}
CompilerOps == {"get", "dirty", "reserve", "free", "reserve args", "free args", "destroy",
                "call", "call aligned", "bind", "flush pc", "epilog", "epilog jmp",
                "cycles", "branched", "branch emitted"}
Exec(m, e) ==
  CASE e[1] \in CompilerOps -> Compiler(m, e)
    [] ~Running(m) /\ e[1] \notin CompilerOps -> m
    [] Running(m) /\ e[1] \in MoveOps -> Moves(m, e)
    [] Running(m) /\ e[1] \in CompareOps -> Comparisons(m, e)
    [] OTHER -> Arithmetic(m, e)

Emitted(m, code) ==
  LET after[i \in 0..Len(code)] == IF i = 0 THEN m ELSE Exec(after[i - 1], code[i])
  IN  after[Len(code)]
=============================================================================
