-------------------------------- MODULE N64Vu --------------------------------
(***************************************************************************)
(* The vector unit of the RSP as the interpreter runs it                   *)
(* (src/n64/rsp/vu_interpreter.cpp).  The state s of N64Rsp has besides    *)
(* vpr, the vector registers; acc, the three slices of the accumulators;   *)
(* co, cox, cc, ccx and ce, the two halves of VCO and of VCC and VCE; and  *)
(* dout, din and ddp of the divider.  An instruction that treats all lanes *)
(* alike is a function of one lane, a record l: s and t its operands (t    *)
(* after the broadcast), d the destination's, and what it finds in the     *)
(* accumulator and in the control registers.                               *)
(***************************************************************************)
EXTENDS N64Lanes

CONSTANTS MEM, Rcp(_), Rsq(_)      \* the divider's two functions on words

Control == {"co", "cox", "cc", "ccx", "ce"}
LaneOf(s, o, i) ==
  [s |-> s.vpr[o.vs][i], t |-> Broadcasted(s.vpr[o.vt], o.e)[i], d |-> s.vpr[o.vd][i],
   lo |-> s.acc.low[i], mid |-> s.acc.mid[i], hi |-> s.acc.high[i],
   co |-> s.co[i], cox |-> s.cox[i], cc |-> s.cc[i], ccx |-> s.ccx[i], ce |-> s.ce[i]]
ByLane(s, o, F(_)) ==
  LET l == [i \in Lanes |-> F(LaneOf(s, o, i))] IN
  [s EXCEPT !.vpr[o.vd] = [i \in Lanes |-> l[i].d],
            !.acc = [low |-> [i \in Lanes |-> l[i].lo], mid |-> [i \in Lanes |-> l[i].mid],
                     high |-> [i \in Lanes |-> l[i].hi]],
            !.co = [i \in Lanes |-> l[i].co], !.cox = [i \in Lanes |-> l[i].cox],
            !.cc = [i \in Lanes |-> l[i].cc], !.ccx = [i \in Lanes |-> l[i].ccx],
            !.ce = [i \in Lanes |-> l[i].ce]]

(***************************************************************************)
(* The accumulator: 48 bits in three lanes.                                *)
(***************************************************************************)
Sum(a, b) == Fit(H, a + b)
Less(a, b) == Mask(Sl(a) < Sl(b))                  \* signed
Below(a, b) == Mask(a < b)                         \* unsigned
Equal(a, b) == Mask(a = b)
Minus(a, b) == Fit(H, a - b)
Sign(a) == Sar(H, a, H - 1)
MulLow(a, b) == Fit(H, a * b)
MulHigh(a, b) == Fit(H, (Sl(a) * Sl(b)) \div 2^H)
MulHighU(a, b) == (a * b) \div 2^H
\* _mm_mulhi_epu16_epi16: a unsigned, b signed.
MulHighUS(a, b) == Fit(H, MulHighU(a, b) - (IF Sl(b) < 0 THEN a ELSE 0))

AddToAcc1(l, low) ==
  LET lo == Sum(l.lo, low)
      carry == Below(lo, low)
      mid == Minus(l.mid, carry)
  IN  [l EXCEPT !.lo = lo, !.mid = mid, !.hi = Minus(@, And(carry, Equal(mid, 0)))]
AddToAcc2(l, low, mid) ==
  LET a == AddToAcc1(l, low)
      m == Sum(a.mid, mid)
  IN  [a EXCEPT !.mid = m, !.hi = Minus(@, Below(m, mid))]
FaultyAddToAcc(l, low, mid, high) ==
  LET lo == Sum(l.lo, low)
      m == Sum(l.mid, Minus(mid, Below(lo, low)))
  IN  [l EXCEPT !.lo = lo, !.mid = m, !.hi = Sum(Minus(@, Below(m, mid)), high)]
AddToAcc(l, low, mid, high) ==
  LET a == AddToAcc2(l, low, mid) IN [a EXCEPT !.hi = Sum(@, high)]
AddToAccCond(l, low, mid, high, cond) ==
  LET lo == Blend(l.lo, Sum(l.lo, low), cond)
      low_carry == Below(lo, l.lo)
      m1 == Minus(l.mid, low_carry)
      h1 == Minus(l.hi, And(low_carry, Equal(m1, 0)))
      m2 == Blend(m1, Sum(m1, mid), cond)
      h2 == Minus(h1, Below(m2, m1))
  IN  [l EXCEPT !.lo = lo, !.mid = m2, !.hi = Blend(h2, Sum(h2, high), cond)]
AddToAccFromMid(l, mid, high) ==
  LET m == Sum(l.mid, mid) IN [l EXCEPT !.mid = m, !.hi = Minus(Sum(@, high), Below(m, mid))]

Joined(lo, hi) == lo + 2^H * Sl(hi)
ClampSigned(lo, hi) == SatS(Joined(lo, hi))
ClampUnsigned(lo, hi) == LET c == SatU(Joined(lo, hi)) IN Blend(c, Ones, Sign(c))
\* vmadl and vmadn: the low lane if the high one extends the middle one.
ClampLow(l) ==
  Blend(Blend(Ones, 0, Sign(l.hi)), l.lo, Equal(l.hi, Sign(l.mid)))

(***************************************************************************)
(* Logic, sums and comparisons.                                            *)
(***************************************************************************)
Both(l, v) == [l EXCEPT !.d = v, !.lo = v]
ClearVco(l) == [l EXCEPT !.co = 0, !.cox = 0]
Chosen(l, cc) ==
  ClearVco([Both(l, Blend(l.t, l.s, cc)) EXCEPT !.cc = cc, !.ccx = 0])
vabs(s, o) == ByLane(s, o, LAMBDA l :
  LET slt == Sign(l.s) v == Xor(And(Not(Equal(l.s, 0)), l.t), slt) IN
  [l EXCEPT !.lo = Minus(v, slt), !.d = SatS(Sl(v) - Sl(slt))])
vadd(s, o) == ByLane(s, o, LAMBDA l :
  ClearVco([l EXCEPT
    !.lo = Sum(l.s, Minus(l.t, l.co)),
    !.d = SatS(Sl(SatS(Sl(Lesser(l.s, l.t)) - Sl(l.co))) + Sl(Greater(l.s, l.t)))]))
vaddc(s, o) == ByLane(s, o, LAMBDA l :
  [Both(l, Sum(l.s, l.t)) EXCEPT !.co = Below(Sum(l.s, l.t), l.t), !.cox = 0])
vsub(s, o) == ByLane(s, o, LAMBDA l :
  LET diff == Minus(l.t, l.co) clamped == SatS(Sl(l.t) - Sl(l.co)) IN
  ClearVco([l EXCEPT
    !.lo = Minus(l.s, diff),
    !.d = SatS(Sl(SatS(Sl(l.s) - Sl(clamped))) + Sl(Less(diff, clamped)))]))
vsubc(s, o) == ByLane(s, o, LAMBDA l :
  LET v == Minus(l.s, l.t) borrow == Below(l.s, l.t) IN
  [Both(l, v) EXCEPT !.co = borrow, !.cox = Or(borrow, Not(Equal(v, 0)))])
vand(s, o) == ByLane(s, o, LAMBDA l : Both(l, And(l.s, l.t)))
vnand(s, o) == ByLane(s, o, LAMBDA l : Both(l, Not(And(l.s, l.t))))
vor(s, o) == ByLane(s, o, LAMBDA l : Both(l, Or(l.s, l.t)))
vnor(s, o) == ByLane(s, o, LAMBDA l : Both(l, Not(Or(l.s, l.t))))
vxor(s, o) == ByLane(s, o, LAMBDA l : Both(l, Xor(l.s, l.t)))
vnxor(s, o) == ByLane(s, o, LAMBDA l : Both(l, Not(Xor(l.s, l.t))))
vzero(s, o) == ByLane(s, o, LAMBDA l : [l EXCEPT !.lo = Sum(l.s, l.t), !.d = 0])
vnop(s, o) == s
veq(s, o) == ByLane(s, o, LAMBDA l : Chosen(l, And(Not(l.cox), Equal(l.s, l.t))))
vne(s, o) == ByLane(s, o, LAMBDA l : Chosen(l, Or(l.cox, Not(Equal(l.s, l.t)))))
vge(s, o) == ByLane(s, o, LAMBDA l :
  Chosen(l, Or(And(Not(And(l.co, l.cox)), Equal(l.s, l.t)), Less(l.t, l.s))))
vlt(s, o) == ByLane(s, o, LAMBDA l :
  Chosen(l, Or(And(And(l.co, l.cox), Equal(l.s, l.t)), Less(l.s, l.t))))
vmrg(s, o) == ByLane(s, o, LAMBDA l : ClearVco(Both(l, Blend(l.t, l.s, l.cc))))
vch(s, o) == ByLane(s, o, LAMBDA l :
  LET co == Less(Xor(l.s, l.t), 0)
      nvt == Minus(Xor(l.t, co), co)
      diff == Minus(l.s, nvt)
      diff0 == Equal(diff, 0)
      positive == Less(0, diff)
      vtn == Less(l.t, 0)
      ccx == Blend(Or(positive, diff0), vtn, co)
      cc == Blend(vtn, Equal(positive, 0), co)
      ce == And(Equal(diff, co), co)
  IN  [Both(l, Blend(l.s, nvt, Blend(ccx, cc, co))) EXCEPT
         !.co = co, !.cc = cc, !.ccx = ccx, !.ce = ce, !.cox = Equal(Or(diff0, ce), 0)])
vcl(s, o) == ByLane(s, o, LAMBDA l :
  LET nvt == Minus(Xor(l.t, l.co), l.co)
      diff == Minus(l.s, nvt)
      ncarry == Equal(diff, SatU(l.s + l.t))
      diff0 == Equal(diff, 0)
      lec1 == And(Equal(l.ce, 0), And(diff0, ncarry))
      lec2 == And(l.ce, Or(diff0, ncarry))
      geeq == Equal(SatU(l.t - l.s), 0)
      le == Blend(l.cc, Or(lec1, lec2), And(Not(l.cox), l.co))
      ge == Blend(geeq, l.ccx, Or(l.co, l.cox))
  IN  [ClearVco(Both(l, Blend(l.s, nvt, Blend(ge, le, l.co)))) EXCEPT
         !.cc = le, !.ccx = ge, !.ce = 0])
vcr(s, o) == ByLane(s, o, LAMBDA l :
  LET sign == Sign(Xor(l.s, l.t))
      cc == Sign(Sum(And(l.s, sign), l.t))
      ccx == Equal(Lesser(Or(l.s, sign), l.t), l.t)
  IN  [ClearVco(Both(l, Blend(l.s, Xor(l.t, sign), Blend(ccx, cc, sign)))) EXCEPT
         !.cc = cc, !.ccx = ccx, !.ce = 0])

(***************************************************************************)
(* Products.                                                               *)
(***************************************************************************)
Clamped(l) == [l EXCEPT !.d = ClampSigned(l.mid, l.hi)]
ClampedU(l) == [l EXCEPT !.d = ClampUnsigned(l.mid, l.hi)]
vmacfu(l) ==
  LET low == MulLow(l.s, l.t) high == MulHigh(l.s, l.t) IN
  AddToAcc(l, Shl(H, low, 1), Sum(Shl(H, high, 1), Shr(H, low, H - 1)), Sign(high))
vmacf(s, o) == ByLane(s, o, LAMBDA l : Clamped(vmacfu(l)))
vmacu(s, o) == ByLane(s, o, LAMBDA l : ClampedU(vmacfu(l)))
Quantized(lo, hi) == And(KeepHigh, ClampSigned(lo, hi))
vmacq(s, o) == ByLane(s, o, LAMBDA l :
  LET addend == And(Not(l.mid), Thirty2)
      neg == And(addend, Or(Less(0, l.hi), And(Equal(l.hi, 0), Less(0, Shr(H, l.mid, Fifth)))))
      mid1 == Minus(l.mid, neg)
      hi == Sum(l.hi, Below(l.mid, mid1))
      mid == Sum(mid1, And(addend, Less(l.hi, 0)))
  IN  [l EXCEPT !.mid = mid, !.hi = hi,
                !.d = Quantized(Or(Shr(H, mid, 1), Shl(H, hi, H - 1)), Sar(H, hi, 1))])
vmadh(s, o) == ByLane(s, o, LAMBDA l :
  Clamped(AddToAccFromMid(l, MulLow(l.s, l.t), MulHigh(l.s, l.t))))
vmadl(s, o) == ByLane(s, o, LAMBDA l :
  LET a == AddToAcc1(l, MulHighU(l.s, l.t)) IN [a EXCEPT !.d = ClampLow(a)])
vmadm(s, o) == ByLane(s, o, LAMBDA l :
  LET high == MulHighUS(l.t, l.s) IN Clamped(AddToAcc(l, MulLow(l.s, l.t), high, Sign(high))))
vmadn(s, o) == ByLane(s, o, LAMBDA l :
  LET high == MulHighUS(l.s, l.t)
      a == AddToAcc(l, MulLow(l.s, l.t), high, Sign(high))
  IN  [a EXCEPT !.d = ClampLow(a)])
vmudh(s, o) == ByLane(s, o, LAMBDA l :
  Clamped([l EXCEPT !.lo = 0, !.mid = MulLow(l.s, l.t), !.hi = MulHigh(l.s, l.t)]))
vmudl(s, o) == ByLane(s, o, LAMBDA l :
  [Both(l, MulHighU(l.s, l.t)) EXCEPT !.mid = 0, !.hi = 0])
vmudm(s, o) == ByLane(s, o, LAMBDA l :
  LET mid == MulHighUS(l.t, l.s) IN
  Clamped([l EXCEPT !.lo = MulLow(l.s, l.t), !.mid = mid, !.hi = Sign(mid)]))
vmudn(s, o) == ByLane(s, o, LAMBDA l :
  LET mid == MulHighUS(l.s, l.t) IN
  [Both(l, MulLow(l.s, l.t)) EXCEPT !.mid = mid, !.hi = Sign(mid)])
\* Twice the product and 0x8000, in 33 bits.
vmulfu(l) ==
  LET low0 == MulLow(l.s, l.t)
      high0 == MulHigh(l.s, l.t)
      low == Sum(Sum(low0, low0), SignMask)
      carry == Mask(Sl(low) >= 0)
      mid == Minus(Sum(Sum(high0, high0), Shr(H, low0, H - 1)), carry)
  IN  [l EXCEPT !.lo = low, !.mid = mid, !.hi = Xor(Sign(high0), And(Equal(mid, 0), carry))]
vmulf(s, o) == ByLane(s, o, LAMBDA l : Clamped(vmulfu(l)))
vmulu(s, o) == ByLane(s, o, LAMBDA l : ClampedU(vmulfu(l)))
vmulq(s, o) == ByLane(s, o, LAMBDA l :
  LET high == MulHigh(l.s, l.t)
      addend == And(Sign(high), Thirty2 - 1)
      mid == Sum(MulLow(l.s, l.t), addend)
      hi == Minus(high, Below(mid, addend))
  IN  [l EXCEPT !.lo = 0, !.mid = mid, !.hi = hi, !.d = Quantized(Sar(H, mid, 1), Sar(H, hi, 1))])
vrnd(l, o, cond) ==
  LET t == l.t sign == Sign(t) IN
  Clamped(IF o.vs % 2 = 1 THEN AddToAccCond(l, 0, t, sign, cond)
          ELSE AddToAccCond(l, t, sign, sign, cond))
vrndn(s, o) == ByLane(s, o, LAMBDA l : vrnd(l, o, Sign(l.hi)))
vrndp(s, o) == ByLane(s, o, LAMBDA l : vrnd(l, o, Equal(Sign(l.hi), 0)))
vsar(s, o) ==
  [s EXCEPT !.vpr[o.vd] = CASE o.e = 8 -> s.acc.high [] o.e = 9 -> s.acc.mid
                            [] o.e = 10 -> s.acc.low [] OTHER -> [i \in Lanes |-> 0]]

(***************************************************************************)
(* One lane: moves and the divider.  o.vs is the destination's lane.       *)
(***************************************************************************)
AccLowIsVt(s, o) == [s EXCEPT !.acc.low = Broadcasted(s.vpr[o.vt], o.e)]
Input(s, o) == s.vpr[o.vt][(o.e % 8) + 1]
SetLane(s, o, v) == [s EXCEPT !.vpr[o.vd][(o.vs % 8) + 1] = Fit(H, v)]
vmov(s, o) == SetLane(AccLowIsVt(s, o), o, Broadcasted(s.vpr[o.vt], o.e)[o.vs + 1])
Divided(s, o, result) ==
  [SetLane(AccLowIsVt(s, o), o, result) EXCEPT !.dout = Shr(W, result, H), !.ddp = 0]
DoubleInput(s, o) ==
  IF s.ddp = 1 THEN Input(s, o) + 2^H * s.din ELSE Uw(Sl(Input(s, o)))
vrcp(s, o) == Divided(s, o, Rcp(Uw(Sl(Input(s, o)))))
vrsq(s, o) == Divided(s, o, Rsq(Uw(Sl(Input(s, o)))))
vrcpl(s, o) == [Divided(s, o, Rcp(DoubleInput(s, o))) EXCEPT !.din = 0]
vrsql(s, o) == [Divided(s, o, Rsq(DoubleInput(s, o))) EXCEPT !.din = 0]
vrcph(s, o) ==
  [SetLane(AccLowIsVt(s, o), o, s.dout) EXCEPT !.din = Input(s, o), !.ddp = 1]
vrsqh(s, o) == vrcph(s, o)

(***************************************************************************)
(* Moves between the two register files.  Element e is a byte's number,    *)
(* the most significant byte of a lane first.                              *)
(***************************************************************************)
Byte(val, i) == GetByte(val, ByteSwap[i % 16])
mfc2(s, o) ==
  LET v == IF o.e % 2 = 1 THEN Byte(s.vpr[o.vs], o.e) * 2^BYTE + Byte(s.vpr[o.vs], o.e + 1)
           ELSE s.vpr[o.vs][o.e \div 2 + 1]
  IN  IF o.rt = 0 THEN s ELSE [s EXCEPT !.gpr[o.rt] = Uw(Signed(H, v))]
mtc2(s, o) ==
  LET val == s.vpr[o.vs] r == s.gpr[o.rt] IN
  [s EXCEPT !.vpr[o.vs] =
     IF o.e % 2 = 0 THEN [val EXCEPT ![o.e \div 2 + 1] = Fit(H, r)]
     ELSE LET v == SetByte(val, ByteSwap[o.e], Shr(W, r, BYTE)) IN
          IF o.e < 15 THEN SetByte(v, ByteSwap[o.e + 1], r) ELSE v]

(***************************************************************************)
(* Loads and stores.  Filled: the bytes from first to last of the register *)
(* are those that Source gives.                                            *)
(***************************************************************************)
Filled(val, first, last, Source(_)) ==
  LET upto[i \in first - 1 .. last] ==
        IF i < first THEN val ELSE SetByte(upto[i - 1], ByteSwap[i], Source(i))
  IN  IF last < first THEN val ELSE upto[last]
Mem(s, a) == s.dmem[a % MEM]
\* The bytes written, by address, the n-th of them last.
Written(s, n, Place(_), Value(_)) ==
  LET upto[i \in 0..n] ==
        IF i = 0 THEN s.dmem
        ELSE [upto[i - 1] EXCEPT ![Place(i - 1) % MEM] = Fit(BYTE, Value(i - 1))]
  IN  [s EXCEPT !.dmem = upto[n]]
EA(s, o, scale) == s.gpr[o.rs] + o.imm * scale          \* base + offset
Down(a, n) == (a \div n) * n
UpTo16(e, n) == IF e + n > 16 THEN 15 ELSE e + n - 1
LoadUpToDword(s, o, n) ==
  [s EXCEPT !.vpr[o.vt] =
     Filled(@, o.e, UpTo16(o.e, n), LAMBDA i : Mem(s, EA(s, o, n) + i - o.e))]
lbv(s, o) == LoadUpToDword(s, o, 1)
lsv(s, o) == LoadUpToDword(s, o, 2)
llv(s, o) == LoadUpToDword(s, o, 4)
ldv(s, o) == LoadUpToDword(s, o, 8)
StoreUpToDword(s, o, n) ==
  Written(s, n, LAMBDA i : EA(s, o, n) + i, LAMBDA i : Byte(s.vpr[o.vt], o.e + i))
sbv(s, o) == StoreUpToDword(s, o, 1)
ssv(s, o) == StoreUpToDword(s, o, 2)
slv(s, o) == StoreUpToDword(s, o, 4)
sdv(s, o) == StoreUpToDword(s, o, 8)
lfv(s, o) ==
  LET a == EA(s, o, 16)
      Quarter(i) == Mem(s, Down(a, 8) + (((a % 8) - o.e + 4 * i) % 16))
      At(lane) == (CHOOSE k \in Lanes : lfv_table[k] = lane - 1) - 1
      tmp == [lane \in Lanes |-> Shl(H, Quarter(At(lane) \div 2), BYTE - 1)]
  IN  [s EXCEPT !.vpr[o.vt] = Filled(@, o.e, UpTo16(o.e, 8), LAMBDA i : Byte(tmp, i))]
\* lhv, lpv and luv: a byte of every step-th address to each lane.
Unpack(s, o, scale, step, shift) ==
  LET a == EA(s, o, scale) IN
  [s EXCEPT !.vpr[o.vt] =
     [i \in Lanes |-> Shl(H, Mem(s, Down(a, 8) + (((a % 8) - o.e + step * (i - 1)) % 16)), shift)]]
lhv(s, o) == Unpack(s, o, 16, 2, BYTE - 1)
lpv(s, o) == Unpack(s, o, 8, 1, BYTE)
luv(s, o) == Unpack(s, o, 8, 1, BYTE - 1)
lqv(s, o) ==
  LET a == EA(s, o, 16)
      n == 16 - (IF a % 16 > o.e THEN a % 16 ELSE o.e)
  IN  [s EXCEPT !.vpr[o.vt] = Filled(@, o.e, o.e + n - 1, LAMBDA i : Mem(s, (a % MEM) + i - o.e))]
lrv(s, o) ==
  LET a == EA(s, o, 16) first == o.e + 16 - (a % 16) IN
  [s EXCEPT !.vpr[o.vt] = Filled(@, first, 15, LAMBDA i : Mem(s, Down(a, 16) + i - first))]
ltv(s, o) ==
  LET a == EA(s, o, 16)
      wrap == Down(a, 8)
      Of(k) == Mem(s, wrap + ((o.e + 8 * ((a \div 8) % 2) + k) % 16))
      Reg(i) == Down(o.vt, 8) + ((o.e \div 2 + i) % 8)
      upto[i \in 0..8] ==
        IF i = 0 THEN s.vpr
        ELSE [upto[i - 1] EXCEPT ![Reg(i - 1)] =
                SetByte(SetByte(@, 2 * i - 1, Of(2 * i - 2)), 2 * i - 2, Of(2 * i - 1))]
  IN  [s EXCEPT !.vpr = upto[8]]
sfv(s, o) ==
  LET a == EA(s, o, 16) IN
  Written(s, 4, LAMBDA i : Down(a, 8) + (((a % 8) + 4 * i) % 16),
    LAMBDA i : IF SfvElements(o.e) = <<>> THEN 0
               ELSE Shr(H, s.vpr[o.vt][SfvElements(o.e)[i + 1] + 1], BYTE - 1))
shv(s, o) ==
  LET a == EA(s, o, 16) v == s.vpr[o.vt] IN
  Written(s, 8, LAMBDA i : Down(a, 8) + (((a % 8) + 2 * i) % 16),
    LAMBDA i : 2 * Byte(v, o.e + 2 * i) + Shr(BYTE, Byte(v, o.e + 2 * i + 1), BYTE - 1))
\* spv and suv: of the eight elements from e on, those below 8 are a lane's
\* high byte and the others the byte below its sign, or the other way round.
Pack(s, o, High(_)) ==
  LET v == s.vpr[o.vt] IN
  Written(s, 8, LAMBDA i : EA(s, o, 8) + i,
    LAMBDA i : LET elem == (o.e + i) % 16 lane == v[(elem % 8) + 1] IN
               Shr(H, lane, IF High(elem) THEN BYTE ELSE BYTE - 1))
spv(s, o) == Pack(s, o, LAMBDA elem : elem < 8)
suv(s, o) == Pack(s, o, LAMBDA elem : elem >= 8)
sqv(s, o) ==
  LET a == EA(s, o, 16) IN
  Written(s, 16 - (a % 16), LAMBDA i : a + i, LAMBDA i : Byte(s.vpr[o.vt], o.e + i))
srv(s, o) ==
  LET a == EA(s, o, 16) IN
  Written(s, a % 16, LAMBDA i : Down(a, 16) + i,
    LAMBDA i : Byte(s.vpr[o.vt], 16 - (a % 16) + o.e + i))
stv(s, o) ==
  LET a == EA(s, o, 16) e == Down(o.e, 2) IN
  Written(s, 16, LAMBDA i : Down(a, 8) + (((a % 8) - e + i) % 16),
    LAMBDA i : Byte(s.vpr[Down(o.vt, 8) + i \div 2], 16 - e + i))
swv(s, o) ==
  LET a == EA(s, o, 16) IN
  Written(s, 16, LAMBDA i : Down(a, 8) + (((a % 8) + i) % 16),
    LAMBDA i : Byte(s.vpr[o.vt], o.e + i))
=============================================================================
