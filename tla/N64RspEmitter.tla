---------------------------- MODULE N64RspEmitter ----------------------------
(***************************************************************************)
(* What the RSP's recompiler does with the assembler, on top of            *)
(* X64Emitter: accesses to DMEM byte by byte, vector instructions, the     *)
(* vector half of the register allocator and the ends of a block           *)
(* (src/n64/rsp/recompiler.cpp, src/n64/rsp/register_allocator.cpp).  The  *)
(* vector allocator is the scalar one over other registers: its state is   *)
(* m.v, a vector is a sequence of eight lanes, and the accumulators are    *)
(* guests after the 32 registers.  Vector scratch registers are x0 to x2.  *)
(***************************************************************************)
EXTENDS X64Emitter, N64Lanes

CONSTANTS MEM, VecVolatile, VecGuests, JunkVec, Rcp(_), Rsq(_)

V == INSTANCE RegisterAllocatorState WITH
       Volatile <- VecVolatile, NonVolatile <- <<>>, ArgRegs <- <<>>,
       Guests <- VecGuests, Junk <- JunkVec

AccLow == 33
AccMid == 34
AccHigh == 35
VecGuest(r) == r + 1                       \* register r's number among VecGuests
VState(m) == [m.v EXCEPT !.at = m.at]
\* A guest whose index is 0 is never marked dirty.
VGet(m, g, dirty) == [m EXCEPT !.v = V!GetGpr(VState(m), g, dirty /\ g # VecGuest(0))]
VVar(m, name, g) == [m EXCEPT !.vvar[name] = V!HostOf(m.v, g)]
VVal(m, r) ==
  CASE r \in DOMAIN m.vvar -> m.v.host[m.vvar[r]]
    [] r \in DOMAIN m.v.host -> m.v.host[r]
    [] r = "mask32" -> [i \in Lanes |-> Thirty2]
    [] OTHER -> m[r]                       \* in memory
VPut(m, r, val) ==
  [m EXCEPT !.v.host[IF r \in DOMAIN m.vvar THEN m.vvar[r] ELSE r] = val]

\* GetVte: the register itself when nothing is broadcast, else a copy in vte.
GetVte(m, name, vt, e) ==
  LET t == VGet(m, VecGuest(vt), FALSE) IN
  IF e < 2 THEN VVar(t, name, VecGuest(vt))
  ELSE [(IF Running(t) THEN VPut(t, "vte", Broadcasted(t.v.host[V!HostOf(t.v, VecGuest(vt))], e))
         ELSE t) EXCEPT !.vvar[name] = "vte"]

(***************************************************************************)
(* Vector instructions.                                                    *)
(***************************************************************************)
Each(F(_, _), a, b) == [i \in Lanes |-> F(a[i], b[i])]
Packed(F(_), a, b) == [i \in Lanes |-> F(IF i <= 4 THEN Dword(a, i) ELSE Dword(b, i - 4))]
Unpacked(a, b, first) ==
  [i \in Lanes |-> IF i % 2 = 1 THEN a[first + (i + 1) \div 2] ELSE b[first + i \div 2]]
VectorOf(op, a, b) ==
  CASE op = "paddw" -> Each(LAMBDA p, q : Fit(H, p + q), a, b)
    [] op = "psubw" -> Each(LAMBDA p, q : Fit(H, p - q), a, b)
    [] op = "paddsw" -> Each(LAMBDA p, q : SatS(Sl(p) + Sl(q)), a, b)
    [] op = "psubsw" -> Each(LAMBDA p, q : SatS(Sl(p) - Sl(q)), a, b)
    [] op = "paddusw" -> Each(LAMBDA p, q : SatU(p + q), a, b)
    [] op = "psubusw" -> Each(LAMBDA p, q : SatU(p - q), a, b)
    [] op = "pminsw" -> Each(Lesser, a, b)
    [] op = "pmaxsw" -> Each(Greater, a, b)
    [] op = "pcmpeqw" -> Each(LAMBDA p, q : Mask(p = q), a, b)
    [] op = "pcmpgtw" -> Each(LAMBDA p, q : Mask(Sl(p) > Sl(q)), a, b)
    [] op = "pand" -> Each(And, a, b)
    [] op = "pandn" -> Each(LAMBDA p, q : And(Not(p), q), a, b)
    [] op = "por" -> Each(Or, a, b)
    [] op = "pxor" -> Each(Xor, a, b)
    [] op = "pmullw" -> Each(LAMBDA p, q : Fit(H, p * q), a, b)
    [] op = "pmulhw" -> Each(LAMBDA p, q : Fit(H, (Sl(p) * Sl(q)) \div 2^H), a, b)
    [] op = "pmulhuw" -> Each(LAMBDA p, q : (p * q) \div 2^H, a, b)
    [] op = "punpcklwd" -> Unpacked(a, b, 0)
    [] op = "punpckhwd" -> Unpacked(a, b, 4)
    [] op = "packssdw" -> Packed(SatS, a, b)
    [] op = "packusdw" -> Packed(SatU, a, b)
ShiftOf(op, a, n) ==
  CASE op = "psllw" -> [i \in Lanes |-> Shl(H, a[i], n)]
    [] op = "psrlw" -> [i \in Lanes |-> Shr(H, a[i], n)]
    [] op = "psraw" -> [i \in Lanes |-> Sar(H, a[i], n)]
VectorOps == {"paddw", "psubw", "paddsw", "psubsw", "paddusw", "psubusw", "pminsw", "pmaxsw",
  "pcmpeqw", "pcmpgtw", "pand", "pandn", "por", "pxor", "pmullw", "pmulhw", "pmulhuw",
  "punpcklwd", "punpckhwd", "packssdw", "packusdw"}
ShiftOps == {"psllw", "psrlw", "psraw"}


VectorMoves(m, e) ==
  CASE e[1] \in VectorOps -> VPut(m, e[2], VectorOf(e[1], VVal(m, e[3]), VVal(m, e[4])))
    [] e[1] \in ShiftOps -> VPut(m, e[2], ShiftOf(e[1], VVal(m, e[3]), e[4]))
    [] e[1] = "blend" ->
         LET a == VVal(m, e[3]) b == VVal(m, e[4]) c == VVal(m, e[5]) IN
         VPut(m, e[2], [i \in Lanes |-> Blend(a[i], b[i], c[i])])
    [] e[1] = "vmov" -> VPut(m, e[2], VVal(m, e[3]))
    [] e[1] = "storew" -> [m EXCEPT ![e[2]] = Fit(H, Val(m, e[3]))]
    [] e[1] = "vstore" -> [m EXCEPT ![e[2]] = VVal(m, e[3])]
    \* ymm0, whose upper half a 128-bit instruction cleared
    [] e[1] = "vstore vco" -> [m EXCEPT !.co = VVal(m, "x0"), !.cox = [i \in Lanes |-> 0]]
    [] e[1] = "pextrw" -> Put(m, e[2], W, VVal(m, e[3])[e[4] + 1])
    [] e[1] = "pinsrw" -> VPut(m, e[2], [VVal(m, e[2]) EXCEPT ![e[3] + 1] = Fit(H, Val(m, e[4]))])
    [] e[1] = "pextrb" -> Put(m, e[2], W, GetByte(VVal(m, e[3]), e[4]))
    [] e[1] = "pinsrb" -> VPut(m, e[2], SetByte(VVal(m, e[2]), e[3], Val(m, e[4])))
    [] e[1] = "pinsrq" ->
         VPut(m, e[2], [i \in Lanes |-> IF (i - 1) \div 4 = e[3] THEN m[e[4]][i] ELSE VVal(m, e[2])[i]])
    [] e[1] = "byteswap16" -> VPut(m, e[2], Swapped(VVal(m, e[3])))
VectorMoveOps == VectorOps \cup ShiftOps \cup
  {"blend", "vmov", "storew", "vstore", "vstore vco", "pextrw", "pinsrw", "pextrb", "pinsrb", "pinsrq",
   "byteswap16"}

(***************************************************************************)
(* DMEM and the bytes of registers.  An access outside DMEM is wild.       *)
(***************************************************************************)
Part(m, r, k) == Fit(BYTE, Shr(D, Val(m, r), k * BYTE))       \* k = 0: dl, 1: dh
PutPart(m, r, k, b) ==
  LET old == Val(m, r) IN
  Put(m, r, D, old + 2^(k * BYTE) * (Fit(BYTE, b) - Part(m, r, k)))
Place(m, e) == (IF e[1] = "none" THEN 0 ELSE Val(m, e[1])) + e[2]     \* [reg + offset]
InMemory(a, n) == a + n <= MEM
Wild(m) == [m EXCEPT !.wild = TRUE]
BigEndian(m, a, n) ==
  LET upto[i \in 0..n] == IF i = 0 THEN 0 ELSE upto[i - 1] * 2^BYTE + m.dmem[a + i - 1] IN upto[n]
StoreBytes(m, a, n, v) ==
  [m EXCEPT !.dmem = [b \in DOMAIN @ |->
     IF b \in a .. a + n - 1 THEN Fit(BYTE, Shr(W, v, (a + n - 1 - b) * BYTE)) ELSE @[b]]]
Bytes(m, e) ==
  CASE e[1] = "movbe load" ->
         IF InMemory(Place(m, e[4]), e[2]) THEN Put(m, e[3], W, BigEndian(m, Place(m, e[4]), e[2]))
         ELSE Wild(m)
    [] e[1] = "movbe store" ->
         IF InMemory(Place(m, e[3]), e[2]) THEN StoreBytes(m, Place(m, e[3]), e[2], Val(m, e[4]))
         ELSE Wild(m)
    [] e[1] = "loadb" ->
         IF InMemory(Place(m, e[4]), 1) THEN PutPart(m, e[2], e[3], m.dmem[Place(m, e[4])]) ELSE Wild(m)
    [] e[1] = "storeb" ->
         IF InMemory(Place(m, e[2]), 1) THEN StoreBytes(m, Place(m, e[2]), 1, Part(m, e[3], e[4]))
         ELSE Wild(m)
    [] e[1] = "clearb" ->
         IF InMemory(Place(m, e[2]), 1) THEN StoreBytes(m, Place(m, e[2]), 1, 0) ELSE Wild(m)
    [] e[1] = "loadv" ->                           \* vmovaps ht, [dmem + rax]
         VPut(m, e[2], [i \in Lanes |-> m.dmem[Place(m, e[3]) + 2 * i - 2]
                                        + 2^BYTE * m.dmem[Place(m, e[3]) + 2 * i - 1]])
    [] e[1] = "storev" ->
         [m EXCEPT !.dmem = [a \in DOMAIN @ |->
            IF a - Place(m, e[2]) \in 0..15 THEN GetByte(VVal(m, e[3]), a - Place(m, e[2])) ELSE @[a]]]
    \* bytes and words of a vector spilled below the stack pointer
    [] e[1] = "slot loadb" -> PutPart(m, e[2], 0, GetByte(m[e[3]], Place(m, e[4])))
    [] e[1] = "slot storeb" -> [m EXCEPT ![e[2]] = SetByte(@, Place(m, e[3]), Part(m, e[4], 0))]
    [] e[1] = "slot loadw" ->
         Put(m, e[2], D, Val(m, e[2]) - Fit(H, Val(m, e[2])) + m[e[3]][e[4] + 1])
    [] e[1] = "slot storew" -> [m EXCEPT ![e[2]][e[3] + 1] = Fit(H, Val(m, e[4]))]
    [] e[1] = "sext" -> Put(m, e[3], W, Signed(e[2], Val(m, e[4])))      \* movsx r32
    [] e[1] = "zext" -> Put(m, e[3], W, Fit(e[2], Val(m, e[4])))
    [] e[1] = "shr byte" -> PutPart(m, e[2], 0, Shr(BYTE, Val(m, e[2]), e[3]))
    [] e[1] = "bswap" ->
         Put(m, e[2], W, Part(m, e[2], 0) * 2^(3 * BYTE) + Part(m, e[2], 1) * 2^(2 * BYTE)
                         + Part(m, e[2], 2) * 2^BYTE + Part(m, e[2], 3))
    [] e[1] = "cmov" -> IF Holds(m.flags, e[2]) THEN Put(m, e[3], W, Val(m, e[4])) ELSE m
    [] e[1] = "jump unless" -> IF m[e[2]] THEN m ELSE [m EXCEPT !.at = e[3]]
    [] e[1] = "set halted, broke" -> [m EXCEPT !.halted = TRUE, !.broke = TRUE]
ByteOps == {"movbe load", "movbe store", "loadb", "storeb", "clearb", "loadv", "storev",
  "slot loadb", "slot storeb", "slot loadw", "slot storew", "sext", "zext", "shr byte", "bswap",
  "cmov", "jump unless", "set halted, broke"}

(***************************************************************************)
(* The compiler: vector allocation, calls and the ends of a block.         *)
(***************************************************************************)
FlushAllVolatile(m) ==
  [FlushAndDestroyAllVolatile(m) EXCEPT !.v = V!FlushAndDestroyAllVolatile(VState(m))]
\* A call clobbers every volatile register: all vectors, vte and scratch too.
Returned(m, rv) ==
  [m EXCEPT !.host = [Clobber(m).host EXCEPT !["rax"] = rv, !["rcx"] = Junk],
            !.v.host = [x \in DOMAIN @ |-> JunkVec]]
CallOut(m, Effect(_)) ==
  LET after(t) == Effect(WithArgs(t))
      called(t) == IF Running(t) THEN Returned(after(t), after(t).rv) ELSE t
  IN  called(FlushAllVolatile(m))
RegisterCall(t, kind, reg) ==
  [t EXCEPT !.io = <<kind, reg, IF kind = "write" THEN Uw(t.args[2]) ELSE 0>>,
            !.halted = @ \/ (kind = "write" /\ reg = 4 /\ t.effect = "halt"),
            !.sstep = @ \/ (kind = "write" /\ reg = 4 /\ t.effect = "sstep")]
Callee(t, e) ==
  CASE e[1] = "call register" -> RegisterCall(t, e[2], ((t.args[1] \div 4) % 8) + e[3])
    [] e[1] = "call Rcp" -> [t EXCEPT !.rv = Rcp(Uw(t.args[1]))]
    [] e[1] = "call Rsq" -> [t EXCEPT !.rv = Rsq(Uw(t.args[1]))]
Calls == {"call register", "call Rcp", "call Rsq"}
\* The ends of a block, and what they jump to.
RspEpilog(m) ==
  BlockEpilog([RecordBlockCycles(m) EXCEPT !.v = V!FlushAndRestoreAll(VState(m))])
LeftFor(t, e) ==
  CASE e[1] = "leave" -> t
    [] e[1] = "leave to PerformBranch" -> [t EXCEPT !.pc = t.jump, !.pending = FALSE, !.in_slot = FALSE]
    [] e[1] = "leave to RaiseInterrupt" -> [t EXCEPT !.irq = TRUE]
Leaves == {"leave", "leave to PerformBranch", "leave to RaiseInterrupt"}
Left(m, t, e) == IF Running(m) THEN LeftFor(t, e) ELSE t

VectorCompiler(m, e) ==
  CASE e[1] \in {"vget", "vdirty"} -> VVar(VGet(m, e[3], e[1] = "vdirty"), e[2], e[3])
    [] e[1] = "vte" -> GetVte(m, e[2], e[3], e[4])
    [] e[1] = "vreserve" -> [m EXCEPT !.v = V!ForEach(VState(m), LAMBDA t, i : V!Reserve(t, e[2][i]), Len(e[2]))]
    [] e[1] = "vfree" -> [m EXCEPT !.v = V!ForEach(VState(m), LAMBDA t, i : V!Free(t, e[2][i]), Len(e[2]))]
    [] e[1] \in Calls -> CallOut(m, LAMBDA t : Callee(t, e))
    [] e[1] \in Leaves -> Left(m, RspEpilog(m), e)
VectorCompilerOps == {"vget", "vdirty", "vte", "vreserve", "vfree"} \cup Calls \cup Leaves

Step1(m, e) ==
  CASE e[1] \in VectorCompilerOps -> VectorCompiler(m, e)
    [] e[1] \in VectorMoveOps -> IF Running(m) THEN VectorMoves(m, e) ELSE m
    [] e[1] \in ByteOps -> IF Running(m) THEN Bytes(m, e) ELSE m
    [] OTHER -> Exec(m, e)
\* <<"loop", cc, body>>: the body, again while cc holds at its end.  The state
\* after each piece of code is evaluated before the next piece is: the
\* sequences are long.
MaxTurns == 16
Looped(e) == e[1] = "loop"
Body(e) == IF Looped(e) THEN e[3] ELSE <<e>>
Again(m, e) == Looped(e) /\ Running(m) /\ Holds(m.flags, e[2])
RspEmitted(m, code) ==
  LET Turn(t, e) ==
        LET after[i \in 0..Len(Body(e))] ==
              IF i = 0 THEN t ELSE CHOOSE r \in {Step1(p, Body(e)[i]) : p \in {after[i - 1]}} : TRUE
        IN  after[Len(Body(e))]
      Piece(t, e) ==
        LET turn[k \in 0..MaxTurns] ==
              IF k = 0 THEN t
              ELSE CHOOSE r \in {IF k = 1 \/ Again(p, e) THEN Turn(p, e) ELSE p : p \in {turn[k - 1]}} : TRUE
        IN  turn[IF Looped(e) THEN MaxTurns ELSE 1]
      after[i \in 0..Len(code)] ==
        IF i = 0 THEN m ELSE CHOOSE r \in {Piece(t, code[i]) : t \in {after[i - 1]}} : TRUE
  IN  after[Len(code)]
\* The code of a loop of the emitter, unrolled.
Unrolled(first, last, Code(_)) ==
  LET upto[i \in first - 1 .. last] == IF i < first THEN <<>> ELSE upto[i - 1] \o Code(i)
  IN  upto[last]
=============================================================================
