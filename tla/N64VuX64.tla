------------------------------ MODULE N64VuX64 ------------------------------
(***************************************************************************)
(* The vector unit of the RSP as the recompiler emits it for x64           *)
(* (src/n64/rsp/vu_x64.cpp): one operator per instruction of N64Vu.  The   *)
(* red zone below the stack pointer is s16 and s32.                        *)
(***************************************************************************)
EXTENDS N64RspEmitter

A0 == ArgRegs[1]
Gpr(r) == <<"get", "hs", r>>
Hd(o) == <<"vdirty", "hd", VecGuest(o.vd)>>
Vs(o) == <<"vget", "hs", VecGuest(o.vs)>>
Vte(o) == <<"vte", "ht", o.vt, o.e>>
DirtyAccLow == <<"vdirty", "haccl", AccLow>>
DirtyAccMid == <<"vdirty", "haccm", AccMid>>
DirtyAccHigh == <<"vdirty", "hacch", AccHigh>>
Operands(o) == <<Hd(o), Vs(o), Vte(o)>>
Simple(o) == Operands(o) \o <<DirtyAccLow>>
WithAccs(o) == Operands(o) \o <<DirtyAccLow, DirtyAccMid, DirtyAccHigh>>
Reserved(regs, code) == <<<<"vreserve", regs>>>> \o code \o <<<<"vfree", regs>>>>

Zero(x) == <<"pxor", x, x, x>>
Full(x) == <<"pcmpeqw", x, x, x>>
SignBit(x) == <<Full(x), <<"psllw", x, x, H - 1>>>>
AccLowIsHd == <<"vmov", "haccl", "hd">>
ClearVco == <<Zero("x0"), <<"vstore vco">>>>
Pack(d, lo, hi) ==
  <<<<"punpcklwd", "x0", lo, hi>>, <<"punpckhwd", "x1", lo, hi>>, <<"packssdw", d, "x0", "x1">>>>

(***************************************************************************)
(* Logic, sums and comparisons.                                            *)
(***************************************************************************)
Logic(o, op, negated) == Simple(o) \o <<<<op, "hd", "hs", "ht">>>>
  \o If(negated, <<Full("x0"), <<"pxor", "hd", "hd", "x0">>>>) \o <<AccLowIsHd>>
vand(o) == Logic(o, "pand", FALSE)
vnand(o) == Logic(o, "pand", TRUE)
vor(o) == Logic(o, "por", FALSE)
vnor(o) == Logic(o, "por", TRUE)
vxor(o) == Logic(o, "pxor", FALSE)
vnxor(o) == Logic(o, "pxor", TRUE)
vzero(o) == Simple(o) \o <<<<"paddw", "haccl", "hs", "ht">>, Zero("hd")>>
vnop(o) == <<>>
vabs(o) == Simple(o) \o
  <<Zero("x0"), <<"pcmpeqw", "x1", "hs", "x0">>, <<"psraw", "x0", "hs", H - 1>>,
    <<"pandn", "hd", "x1", "ht">>, <<"pxor", "hd", "hd", "x0">>,
    <<"psubw", "haccl", "hd", "x0">>, <<"psubsw", "hd", "hd", "x0">>>>
vadd(o) == Simple(o) \o
  <<<<"vmov", "x0", "co">>, <<"psubw", "x1", "ht", "x0">>, <<"paddw", "haccl", "hs", "x1">>,
    <<"pminsw", "x1", "hs", "ht">>, <<"psubsw", "x0", "x1", "x0">>,
    <<"pmaxsw", "x1", "hs", "ht">>, <<"paddsw", "hd", "x0", "x1">>>> \o ClearVco
SameHost(o) == o.vd = o.vt /\ o.e < 2              \* hd == ht
vaddc(o) == Simple(o) \o
  (IF SameHost(o)
   THEN <<<<"vmov", "x0", "ht">>, <<"paddw", "hd", "hs", "ht">>, AccLowIsHd>> \o SignBit("x1")
     \o <<<<"paddw", "x2", "hd", "x1">>, <<"paddw", "x0", "x0", "x1">>, <<"pcmpgtw", "x0", "x0", "x2">>>>
   ELSE <<<<"paddw", "hd", "hs", "ht">>, AccLowIsHd>> \o SignBit("x0")
     \o <<<<"paddw", "x1", "hd", "x0">>, <<"paddw", "x0", "ht", "x0">>, <<"pcmpgtw", "x0", "x0", "x1">>>>)
  \o <<<<"vstore", "co", "x0">>, Zero("x0"), <<"vstore", "cox", "x0">>>>
vsub(o) == Simple(o) \o
  <<<<"vmov", "x0", "co">>, <<"psubw", "x1", "ht", "x0">>, <<"psubw", "haccl", "hs", "x1">>,
    <<"psubsw", "x0", "ht", "x0">>, <<"psubsw", "hd", "hs", "x0">>,
    <<"pcmpgtw", "x0", "x0", "x1">>, <<"paddsw", "hd", "hd", "x0">>>> \o ClearVco
vsubc(o) == Simple(o) \o SignBit("x0") \o
  <<<<"paddw", "x1", "hs", "x0">>, <<"paddw", "x2", "ht", "x0">>, <<"pcmpgtw", "x0", "x2", "x1">>,
    <<"vstore", "co", "x0">>, <<"psubw", "hd", "hs", "ht">>, AccLowIsHd, Zero("x1"),
    <<"pcmpeqw", "x1", "hd", "x1">>, Full("x2"), <<"pxor", "x1", "x1", "x2">>,
    <<"por", "x0", "x0", "x1">>, <<"vstore", "cox", "x0">>>>
\* veq, vne, vge and vlt: choose by the condition in xmm0.
ChooseBy == <<<<"vstore", "cc", "x0">>, <<"blend", "hd", "ht", "hs", "x0">>, AccLowIsHd, Zero("x0"),
              <<"vstore", "ccx", "x0">>, <<"vstore vco">>>>
veq(o) == Simple(o) \o
  <<<<"pcmpeqw", "x0", "hs", "ht">>, <<"vmov", "x1", "cox">>, <<"pandn", "x0", "x1", "x0">>>> \o ChooseBy
vne(o) == Simple(o) \o
  <<<<"pcmpeqw", "x0", "hs", "ht">>, Full("x1"), <<"pxor", "x0", "x0", "x1">>,
    <<"por", "x0", "x0", "cox">>>> \o ChooseBy
Ordered(op, a, b) ==
  <<<<"pcmpeqw", "x0", "hs", "ht">>, <<"vmov", "x1", "co">>, <<"pand", "x1", "x1", "cox">>,
    <<op, "x0", "x1", "x0">>, <<"pcmpgtw", "x1", a, b>>, <<"por", "x0", "x0", "x1">>>> \o ChooseBy
vge(o) == Simple(o) \o Ordered("pandn", "hs", "ht")
vlt(o) == Simple(o) \o Ordered("pand", "ht", "hs")
vmrg(o) == Simple(o) \o
  <<<<"vmov", "x0", "cc">>, <<"blend", "hd", "ht", "hs", "x0">>, AccLowIsHd>> \o ClearVco
vch(o) == Reserved(<<"x3", "x4", "x5">>, Simple(o) \o
  <<Zero("x0"), <<"pxor", "x1", "hs", "ht">>, <<"pcmpgtw", "x1", "x0", "x1">>,
    <<"pxor", "x2", "ht", "x1">>, <<"psubw", "x2", "x2", "x1">>,          \* nvt
    <<"psubw", "x3", "hs", "x2">>, <<"pcmpeqw", "x4", "x3", "x0">>,       \* diff, diff0
    <<"pcmpgtw", "x5", "x3", "x0">>, <<"pcmpeqw", "x3", "x3", "x1">>,
    <<"pand", "x3", "x3", "x1">>, <<"vstore", "ce", "x3">>,
    <<"por", "x3", "x5", "x4">>, <<"por", "x4", "x4", "ce">>, <<"pcmpeqw", "x4", "x4", "x0">>,
    <<"vstore", "cox", "x4">>, <<"pcmpeqw", "x5", "x5", "x0">>,
    <<"pcmpgtw", "x4", "x0", "ht">>, <<"blend", "x3", "x3", "x4", "x1">>,
    <<"blend", "x4", "x4", "x5", "x1">>, <<"vstore", "ccx", "x3">>, <<"vstore", "cc", "x4">>,
    <<"blend", "x0", "x3", "x4", "x1">>, <<"blend", "hd", "hs", "x2", "x0">>, AccLowIsHd,
    <<"vstore", "co", "x1">>>>)
vcl(o) == Reserved(<<"x3", "x4", "x5">>, Simple(o) \o
  <<Zero("x0"), <<"vmov", "x1", "co">>, <<"pxor", "x2", "ht", "x1">>,
    <<"psubw", "x2", "x2", "x1">>, <<"psubw", "x3", "hs", "x2">>,         \* nvt, diff
    <<"paddusw", "x4", "hs", "ht">>, <<"pcmpeqw", "x4", "x4", "x3">>,     \* ncarry
    <<"pcmpeqw", "x5", "x0", "ce">>, <<"pcmpeqw", "x3", "x3", "x0">>,
    <<"pand", "x0", "x3", "x4">>, <<"pand", "x0", "x0", "x5">>,           \* lec1
    <<"por", "x3", "x3", "x4">>, <<"pand", "x3", "x3", "ce">>,            \* lec2
    <<"por", "x0", "x0", "x3">>, <<"psubusw", "x3", "ht", "hs">>, Zero("x4"),
    <<"pcmpeqw", "x3", "x3", "x4">>, <<"vmov", "x4", "cox">>,             \* geeq
    <<"por", "x5", "x1", "x4">>, <<"blend", "x5", "x3", "ccx", "x5">>,    \* ge
    <<"pandn", "x3", "x4", "x1">>, <<"vmov", "x4", "cc">>,
    <<"blend", "x3", "x4", "x0", "x3">>, <<"blend", "x0", "x5", "x3", "x1">>,
    <<"blend", "hd", "hs", "x2", "x0">>, AccLowIsHd, <<"vstore", "cc", "x3">>,
    <<"vstore", "ccx", "x5">>, Zero("x0"), <<"vstore", "ce", "x0">>, <<"vstore vco">>>>)
vcr(o) == Simple(o) \o
  <<<<"pxor", "x0", "hs", "ht">>, <<"psraw", "x0", "x0", H - 1>>, <<"pand", "x1", "hs", "x0">>,
    <<"paddw", "x1", "x1", "ht">>, <<"psraw", "x1", "x1", H - 1>>, <<"vstore", "cc", "x1">>,
    <<"por", "x2", "hs", "x0">>, <<"pminsw", "x2", "x2", "ht">>, <<"pcmpeqw", "x2", "x2", "ht">>,
    <<"vstore", "ccx", "x2">>, <<"blend", "x1", "x2", "x1", "x0">>, <<"pxor", "x0", "ht", "x0">>,
    <<"blend", "hd", "hs", "x0", "x1">>, AccLowIsHd, Zero("x0"), <<"vstore", "ce", "x0">>,
    <<"vstore vco">>>>

(***************************************************************************)
(* Products.                                                               *)
(***************************************************************************)
ClampUnsigned(d, lo, hi, ones) ==
  <<<<"punpcklwd", "x0", lo, hi>>, <<"punpckhwd", "x1", lo, hi>>, <<"packusdw", "x0", "x0", "x1">>>>
  \o (IF ones = "x2" THEN <<<<"psraw", "x1", "x0", H - 1>>, <<"blend", d, "x0", "x2", "x1">>>>
      ELSE <<Full("x1"), <<"psraw", "x2", "x0", H - 1>>, <<"blend", d, "x0", "x1", "x2">>>>)
vmacfu(o, signed) == Reserved(<<"x3", "x4">>, WithAccs(o) \o
  <<<<"pmullw", "x0", "hs", "ht">>, <<"pmulhw", "x1", "hs", "ht">>, <<"psraw", "x2", "x1", H - 1>>,
    <<"paddw", "hacch", "hacch", "x2">>, <<"psrlw", "x2", "x0", H - 1>>, <<"psllw", "x0", "x0", 1>>,
    <<"psllw", "x1", "x1", 1>>, <<"paddw", "x1", "x1", "x2">>, <<"paddw", "haccl", "haccl", "x0">>,
    Full("x2"), <<"psllw", "x3", "x2", H - 1>>, <<"paddw", "x0", "x0", "x3">>,
    <<"paddw", "x4", "haccl", "x3">>, <<"pcmpgtw", "x0", "x0", "x4">>,    \* low carry
    <<"pcmpeqw", "x4", "x1", "x2">>, <<"pand", "x4", "x4", "x0">>,
    <<"psubw", "x1", "x1", "x0">>, <<"paddw", "haccm", "haccm", "x1">>,
    <<"paddw", "x0", "x1", "x3">>, <<"paddw", "x1", "haccm", "x3">>,
    <<"pcmpgtw", "x0", "x0", "x1">>, <<"por", "x0", "x0", "x4">>,         \* mid carry
    <<"psubw", "hacch", "hacch", "x0">>>>
  \o (IF signed THEN Pack("hd", "haccm", "hacch") ELSE ClampUnsigned("hd", "haccm", "hacch", "x2")))
vmacf(o) == vmacfu(o, TRUE)
vmacu(o) == vmacfu(o, FALSE)
\* Clamp x0 and x1, the halves of a word, and clear the low bits.
Quantize ==
  <<<<"punpcklwd", "x2", "x0", "x1">>, <<"punpckhwd", "x0", "x0", "x1">>,
    <<"packssdw", "x0", "x2", "x0">>, Full("x1"), <<"psllw", "x1", "x1", H \div 4>>,
    <<"pand", "hd", "x0", "x1">>>>
vmacq(o) == Reserved(<<"x3">>, <<Hd(o), DirtyAccLow, DirtyAccMid, DirtyAccHigh>> \o
  <<<<"pandn", "x0", "haccm", "mask32">>, Zero("x1"), <<"pcmpeqw", "x2", "hacch", "x1">>,
    <<"psrlw", "x3", "haccm", Fifth>>, <<"pcmpgtw", "x3", "x3", "x1">>, <<"pand", "x2", "x2", "x3">>,
    <<"pcmpgtw", "x3", "hacch", "x1">>, <<"por", "x1", "x2", "x3">>, <<"pand", "x1", "x0", "x1">>,
    <<"vmov", "x2", "haccm">>, <<"psubw", "haccm", "haccm", "x1">>>> \o SignBit("x1") \o
  <<<<"paddw", "x3", "haccm", "x1">>, <<"paddw", "x1", "x2", "x1">>, <<"pcmpgtw", "x1", "x3", "x1">>,
    Zero("x2"), <<"pcmpgtw", "x2", "x2", "hacch">>, <<"paddw", "hacch", "hacch", "x1">>,
    <<"pand", "x0", "x0", "x2">>, <<"paddw", "haccm", "haccm", "x0">>,
    <<"psrlw", "x0", "haccm", 1>>, <<"psllw", "x1", "hacch", H - 1>>, <<"por", "x0", "x0", "x1">>,
    <<"psraw", "x1", "hacch", 1>>>> \o Quantize)
vmadh(o) == Operands(o) \o <<DirtyAccMid, DirtyAccHigh>> \o
  <<<<"pmullw", "x0", "hs", "ht">>, <<"paddw", "haccm", "haccm", "x0">>>> \o SignBit("x1") \o
  <<<<"paddw", "x2", "haccm", "x1">>, <<"paddw", "x0", "x0", "x1">>, <<"pcmpgtw", "x0", "x0", "x2">>,
    <<"psubw", "hacch", "hacch", "x0">>, <<"pmulhw", "x0", "hs", "ht">>,
    <<"paddw", "hacch", "hacch", "x0">>>> \o Pack("hd", "haccm", "hacch")
vmadl(o) == WithAccs(o) \o
  <<<<"pmulhuw", "x0", "hs", "ht">>, <<"paddw", "haccl", "haccl", "x0">>>> \o SignBit("x1") \o
  <<<<"paddw", "x2", "haccl", "x1">>, <<"paddw", "x0", "x0", "x1">>, <<"pcmpgtw", "x0", "x0", "x2">>,
    <<"psubw", "haccm", "haccm", "x0">>, Zero("x1"), <<"pcmpeqw", "x2", "x1", "haccm">>,
    <<"pand", "x0", "x0", "x2">>, <<"psubw", "hacch", "hacch", "x0">>,
    <<"psraw", "x0", "hacch", H - 1>>, Full("x2"), <<"blend", "x0", "x2", "x1", "x0">>,
    <<"psraw", "x1", "haccm", H - 1>>, <<"pcmpeqw", "x1", "x1", "hacch">>,
    <<"blend", "hd", "x0", "haccl", "x1">>>>
\* The correction of an unsigned product for a negative factor, into x.
Correction(x, signed, other) ==
  <<Zero(x), <<"pcmpgtw", x, x, signed>>, <<"psrlw", x, x, H - 1>>, <<"pmullw", x, x, other>>>>
vmadmn(o, vmadm) == Reserved(<<"x3">>, WithAccs(o) \o
  <<<<"pmullw", "x0", "hs", "ht">>, <<"paddw", "haccl", "haccl", "x0">>>> \o SignBit("x1") \o
  <<<<"paddw", "x2", "haccl", "x1">>, <<"paddw", "x0", "x0", "x1">>, <<"pcmpgtw", "x0", "x0", "x2">>>>
  \o (IF vmadm THEN Correction("x2", "hs", "ht") ELSE Correction("x2", "ht", "hs")) \o
  <<<<"pmulhuw", "x3", "hs", "ht">>, <<"psubw", "x2", "x3", "x2">>, <<"psraw", "x3", "x2", H - 1>>,
    <<"paddw", "hacch", "hacch", "x3">>, Full("x3"), <<"pcmpeqw", "x3", "x3", "x2">>,
    <<"pand", "x3", "x0", "x3">>, <<"psubw", "x2", "x2", "x0">>, <<"paddw", "haccm", "haccm", "x2">>,
    <<"paddw", "x0", "haccm", "x1">>, <<"paddw", "x1", "x2", "x1">>, <<"pcmpgtw", "x0", "x1", "x0">>,
    <<"por", "x0", "x0", "x3">>, <<"psubw", "hacch", "hacch", "x0">>>>
  \o (IF vmadm THEN Pack("hd", "haccm", "hacch")
      ELSE <<<<"psraw", "x0", "hacch", H - 1>>, Zero("x1"), Full("x2"),
             <<"blend", "x0", "x2", "x1", "x0">>, <<"psraw", "x1", "haccm", H - 1>>,
             <<"pcmpeqw", "x1", "x1", "hacch">>, <<"blend", "hd", "x0", "haccl", "x1">>>>))
vmadm(o) == vmadmn(o, TRUE)
vmadn(o) == vmadmn(o, FALSE)
vmudh(o) == WithAccs(o) \o
  <<Zero("haccl"), <<"pmullw", "haccm", "hs", "ht">>, <<"pmulhw", "hacch", "hs", "ht">>>>
  \o Pack("hd", "haccm", "hacch")
vmudl(o) == WithAccs(o) \o
  <<<<"pmulhuw", "hd", "hs", "ht">>, AccLowIsHd, Zero("haccm"), Zero("hacch")>>
vmudm(o) == WithAccs(o) \o <<<<"pmullw", "haccl", "hs", "ht">>>>
  \o Correction("x0", "hs", "ht") \o
  <<<<"pmulhuw", "x1", "ht", "hs">>, <<"psubw", "haccm", "x1", "x0">>,
    <<"psraw", "hacch", "haccm", H - 1>>>> \o Pack("hd", "haccm", "hacch")
vmudn(o) == WithAccs(o) \o <<<<"pmullw", "haccl", "hs", "ht">>>>
  \o Correction("x0", "ht", "hs") \o
  <<<<"pmulhuw", "x1", "hs", "ht">>, <<"psubw", "haccm", "x1", "x0">>,
    <<"psraw", "hacch", "haccm", H - 1>>, <<"vmov", "hd", "haccl">>>>
vmulfu(o, signed) == WithAccs(o) \o
  <<<<"pmullw", "haccl", "hs", "ht">>, <<"pmulhw", "haccm", "hs", "ht">>,
    <<"psrlw", "x0", "haccl", H - 1>>, <<"psraw", "x1", "haccm", H - 1>>,
    <<"paddw", "haccl", "haccl", "haccl">>, <<"paddw", "haccm", "haccm", "haccm">>,
    <<"paddw", "haccm", "haccm", "x0">>>> \o SignBit("x0") \o
  <<<<"paddw", "haccl", "haccl", "x0">>, Zero("x0"), <<"pcmpgtw", "x2", "haccl", "x0">>,
    <<"psubw", "haccm", "haccm", "x2">>, <<"pcmpeqw", "x0", "haccm", "x0">>,
    <<"pand", "x0", "x0", "x2">>, <<"pxor", "hacch", "x0", "x1">>>>
  \o (IF signed THEN Pack("hd", "haccm", "hacch") ELSE ClampUnsigned("hd", "haccm", "hacch", "x1"))
vmulf(o) == vmulfu(o, TRUE)
vmulu(o) == vmulfu(o, FALSE)
vmulq(o) == WithAccs(o) \o
  <<Zero("haccl"), <<"pmullw", "haccm", "hs", "ht">>, <<"pmulhw", "hacch", "hs", "ht">>, Full("x0"),
    <<"psrlw", "x1", "x0", H - Fifth>>, <<"psraw", "x2", "hacch", H - 1>>, <<"pand", "x1", "x1", "x2">>,
    <<"paddw", "haccm", "haccm", "x1">>, <<"psllw", "x0", "x0", H - 1>>, <<"paddw", "x2", "haccm", "x0">>,
    <<"paddw", "x0", "x1", "x0">>, <<"pcmpgtw", "x0", "x0", "x2">>, <<"psubw", "hacch", "hacch", "x0">>,
    <<"psraw", "x0", "haccm", 1>>, <<"psraw", "x1", "hacch", 1>>>> \o Quantize
CondSum(dst, addend, cond) ==       \* dst + addend where cond holds, into x1
  <<<<"paddw", "x1", dst, addend>>, <<"blend", "x1", dst, "x1", cond>>>>
RoundMid ==
  CondSum("haccm", "ht", "x0") \o SignBit("x2") \o
  <<<<"paddw", "x3", "x1", "x2">>, <<"paddw", "x2", "haccm", "x2">>, <<"pcmpgtw", "x2", "x2", "x3">>,
    <<"vmov", "haccm", "x1">>, <<"psubw", "hacch", "hacch", "x2">>>>
RoundLow ==
  <<DirtyAccLow>> \o CondSum("haccl", "ht", "x0") \o
  <<Full("x2"), <<"psllw", "x3", "x2", H - 1>>, <<"paddw", "x4", "x1", "x3">>,
    <<"paddw", "x3", "haccl", "x3">>, <<"pcmpgtw", "x3", "x3", "x4">>,      \* low carry
    <<"vmov", "haccl", "x1">>, <<"psraw", "x1", "ht", H>>, Zero("x4"),
    <<"blend", "x1", "x4", "x1", "x0">>, <<"pcmpeqw", "x2", "x1", "x2">>,
    <<"pand", "x2", "x2", "x3">>, <<"psubw", "x1", "x1", "x3">>,
    <<"paddw", "x1", "x1", "haccm">>>> \o SignBit("x3") \o
  <<<<"paddw", "x4", "x1", "x3">>, <<"paddw", "x3", "haccm", "x3">>,
    <<"pcmpgtw", "x3", "x3", "x4">>, <<"por", "x3", "x3", "x2">>,           \* mid carry
    <<"vmov", "haccm", "x1">>, <<"psubw", "hacch", "hacch", "x3">>>>
vrnd(o, p) == Reserved(<<"x3", "x4">>,
  <<Hd(o), Vte(o), DirtyAccMid, DirtyAccHigh, <<"psraw", "x0", "hacch", H>>>>
  \o If(p, <<Zero("x1"), <<"pcmpeqw", "x0", "x0", "x1">>>>)
  \o (IF o.vs % 2 = 1 THEN RoundMid ELSE RoundLow)
  \o <<<<"psraw", "x1", "ht", H>>, <<"paddw", "x1", "x1", "hacch">>,
       <<"blend", "hacch", "hacch", "x1", "x0">>>> \o Pack("hd", "haccm", "hacch"))
vrndn(o) == vrnd(o, FALSE)
vrndp(o) == vrnd(o, TRUE)
vsar(o) == <<Hd(o)>> \o
  (CASE o.e = 8 -> <<<<"vget", "hacch", AccHigh>>, <<"vmov", "hd", "hacch">>>>
     [] o.e = 9 -> <<<<"vget", "haccm", AccMid>>, <<"vmov", "hd", "haccm">>>>
     [] o.e = 10 -> <<<<"vget", "haccl", AccLow>>, <<"vmov", "hd", "haccl">>>>
     [] OTHER -> <<Zero("hd")>>)

(***************************************************************************)
(* One lane: moves and the divider, which is called.                       *)
(***************************************************************************)
Hte(o) == <<<<"vget", "ht", VecGuest(o.vt)>>, <<"vte", "hte", o.vt, o.e>>, DirtyAccLow,
            <<"vmov", "haccl", "hte">>>>
vmov(o) == <<Hd(o), Vte(o), DirtyAccLow>> \o
  <<<<"pextrw", "rax", "ht", o.vs>>, <<"pinsrw", "hd", o.vs, "rax">>, <<"vmov", "haccl", "ht">>>>
Divide(o, call, Prepare, Store) ==
  <<<<"destroy", A0>>>> \o Hte(o) \o <<<<"pextrw", A0, "ht", o.e % 8>>>> \o Prepare
  \o <<<<call>>, Hd(o), <<"pinsrw", "hd", o.vs % 8, "rax">>, <<"shr", W, "rax", H>>>> \o Store
SignExtend == <<<<"sext", H, A0, A0>>>>
vrcpq(o, call) ==
  Divide(o, call, SignExtend, <<<<"storew", "dout", "rax">>, <<"storei", "ddp", 0>>>>)
vrcpql(o, call) ==
  Divide(o, call,
    <<<<"load", "rax", "din">>, <<"shl", W, "rax", H>>, <<"or", W, "rax", A0>>>> \o SignExtend
      \o <<<<"cmp mem", "ddp", 1>>, <<"cmov", "e", A0, "rax">>>>,
    <<<<"storew", "dout", "rax">>, <<"storei", "din", 0>>, <<"storei", "ddp", 0>>>>)
vrcp(o) == vrcpq(o, "call Rcp")
vrsq(o) == vrcpq(o, "call Rsq")
vrcpl(o) == vrcpql(o, "call Rcp")
vrsql(o) == vrcpql(o, "call Rsq")
vrcph(o) == <<Hd(o)>> \o Hte(o) \o
  <<<<"load", "rax", "dout">>, <<"pinsrw", "hd", o.vs % 8, "rax">>, <<"pextrw", "rax", "ht", o.e % 8>>,
    <<"storew", "din", "rax">>, <<"storei", "ddp", 1>>>>
vrsqh(o) == vrcph(o)

(***************************************************************************)
(* Moves between the two register files.                                   *)
(***************************************************************************)
mfc2(o) == If(o.rt # 0,
  <<<<"dirty", "hd", o.rt>>, Vs(o)>> \o
  (IF o.e % 2 = 1
   THEN <<<<"pextrb", "rcx", "hs", ByteSwap[o.e]>>, <<"pextrb", "rax", "hs", ByteSwap[(o.e + 1) % 16]>>,
          <<"shl", W, "rcx", BYTE>>, <<"or", W, "rcx", "rax">>, <<"sext", H, "hd", "rcx">>>>
   ELSE <<<<"pextrw", "hd", "hs", o.e \div 2>>, <<"sext", H, "hd", "hd">>>>))
mtc2(o) ==
  <<<<"get", "ht", o.rt>>, <<"vdirty", "hd", VecGuest(o.vs)>>>> \o
  (IF o.e % 2 = 1
   THEN <<<<"mov", W, "rax", "ht">>, <<"shr", W, "rax", BYTE>>, <<"pinsrb", "hd", ByteSwap[o.e], "rax">>>>
        \o If(o.e < 15, <<<<"pinsrb", "hd", ByteSwap[(o.e + 1) % 16], "ht">>>>)
   ELSE <<<<"pinsrw", "hd", o.e \div 2, "ht">>>>)

(***************************************************************************)
(* Loads and stores, through a copy of the register in the red zone.       *)
(***************************************************************************)
Vt(o) == <<"vget", "ht", VecGuest(o.vt)>>
DirtyVt(o) == <<"vdirty", "ht", VecGuest(o.vt)>>
Ea(o, scale) == <<<<"lea", W, "rax", "hs", o.imm * scale>>>>
Wrap(r) == <<<<"andi", W, r, MEM - 1>>>>
Inc(r) == <<<<"addi", W, r, 1>>>>
Spill == <<<<"vstore", "s16", "ht">>>>
Refill == <<<<"vmov", "ht", "s16">>>>
At(r) == <<r, 0>>
Slot(i) == <<"none", i>>
WithR8(code) == <<<<"reserve", "r8">>>> \o code \o <<<<"free", "r8">>>>
EndOf(e, n) == IF e + n > 16 THEN 15 ELSE e + n - 1
LoadUpToDword(o, n) == <<Gpr(o.rs), DirtyVt(o)>> \o Ea(o, n) \o Spill
  \o Unrolled(o.e, EndOf(o.e, n), LAMBDA i : If(i > o.e, Inc("rax")) \o Wrap("rax") \o
       <<<<"loadb", "rdx", 0, At("rax")>>, <<"slot storeb", "s16", Slot(ByteSwap[i]), "rdx">>>>)
  \o Refill
lbv(o) == <<Gpr(o.rs), DirtyVt(o)>> \o Ea(o, 1) \o Wrap("rax") \o
  <<<<"loadb", "rdx", 0, At("rax")>>, <<"pinsrb", "ht", ByteSwap[o.e], "rdx">>>>
lsv(o) == LoadUpToDword(o, 2)
llv(o) == LoadUpToDword(o, 4)
ldv(o) == LoadUpToDword(o, 8)
StoreUpToDword(o, n) == <<Gpr(o.rs), Vt(o)>> \o Ea(o, n) \o Spill
  \o Unrolled(0, n - 1, LAMBDA i : If(i > 0, Inc("rax")) \o Wrap("rax") \o
       <<<<"slot loadb", "rdx", "s16", Slot(ByteSwap[(o.e + i) % 16])>>, <<"storeb", At("rax"), "rdx", 0>>>>)
sbv(o) == <<Gpr(o.rs), Vt(o)>> \o Ea(o, 1) \o Wrap("rax") \o
  <<<<"pextrb", "rdx", "ht", ByteSwap[o.e]>>, <<"storeb", At("rax"), "rdx", 0>>>>
ssv(o) == StoreUpToDword(o, 2)
slv(o) == StoreUpToDword(o, 4)
sdv(o) == StoreUpToDword(o, 8)

\* ecx: what the address exceeds a multiple of eight by, less the element.
SplitAddress(e) ==
  <<<<"mov", W, "rcx", "rax">>, <<"andi", W, "rcx", 7>>>> \o If(e # 0, <<<<"addi", W, "rcx", -e>>>>)
  \o <<<<"andi", W, "rax", -8>>>>
Ring(n) == If(n # 0, <<<<"addi", W, "rcx", n>>>>) \o <<<<"andi", W, "rcx", 15>>>>
SumTo(r) == <<<<"leax", W, r, "rax", "rcx">>>> \o Wrap(r)
\* mov dl, [dmem + rdx], shifted: the address's upper bits are masked off.
LoadShifted(shift) ==
  SumTo("rdx") \o <<<<"loadb", "rdx", 0, At("rdx")>>, <<"shl", W, "rdx", shift>>>>
  \o If(shift < BYTE, <<<<"andi", W, "rdx", SignMask - 1>>>>)
Unpack(o, scale, step, shift) == <<Gpr(o.rs), DirtyVt(o)>> \o Ea(o, scale)
  \o SplitAddress(o.e) \o Spill
  \o Unrolled(0, 7, LAMBDA i : Ring(IF i = 0 THEN 0 ELSE step) \o LoadShifted(shift)
                               \o <<<<"slot storew", "s16", i, "rdx">>>>)
  \o Refill
lhv(o) == Unpack(o, 16, 2, BYTE - 1)
lpv(o) == Unpack(o, 8, 1, BYTE)
luv(o) == Unpack(o, 8, 1, BYTE - 1)
CopyByte(i) == <<<<"slot loadb", "rax", "s16", Slot(ByteSwap[i])>>,
                 <<"slot storeb", "s32", Slot(ByteSwap[i]), "rax">>>>
CopyWord(i) == <<<<"slot loadw", "rax", "s16", i \div 2>>, <<"slot storew", "s32", i \div 2, "rax">>>>
lfv(o) == <<Gpr(o.rs), DirtyVt(o)>> \o Ea(o, 16) \o SplitAddress(o.e)
  \o Unrolled(0, 3, LAMBDA i : Ring(IF i = 0 THEN 0 ELSE 4) \o LoadShifted(BYTE - 1) \o
       <<<<"slot storew", "s16", lfv_table[2 * i + 1], "rdx">>,
         <<"slot storew", "s16", lfv_table[2 * i + 2], "rdx">>>>)
  \o (IF o.e = 0 THEN <<<<"pinsrq", "ht", 0, "s16">>>>
      ELSE IF o.e = 8 THEN <<<<"pinsrq", "ht", 1, "s16">>>>
      ELSE <<<<"vstore", "s32", "ht">>>>
        \o Unrolled(o.e, EndOf(o.e, 8),
             LAMBDA i : IF o.e % 2 = 1 THEN CopyByte(i) ELSE If(i % 2 = 0, CopyWord(i)))
        \o <<<<"vmov", "ht", "s32">>>>)
\* The loop of lqv: the bytes from [rcx] on to the elements from eax to edx.
lqvLoop == Spill \o <<<<"loop", "ne",
  <<<<"loadb", "r8", 0, At("rcx")>>, <<"addi", D, "rcx", 1>>, <<"xori", W, "rax", 1>>,
    <<"slot storeb", "s16", At("rax"), "r8">>, <<"xori", W, "rax", 1>>, <<"addi", W, "rax", 1>>,
    <<"cmp", W, "rax", "rdx">>>>>>>> \o Refill
lqv(o) == WithR8(<<Gpr(o.rs), DirtyVt(o)>> \o Ea(o, 16) \o
  <<<<"movi", D, "rcx", 0>>, <<"mov", W, "rdx", "rax">>>> \o Wrap("rax") \o <<<<"andi", W, "rdx", 15>>>>
  \o (IF o.e = 0
      THEN <<<<"j", "e", "l_simple">>, <<"leax", D, "rcx", "rcx", "rax">>, <<"xor", W, "rax", "rax">>,
             <<"neg", W, "rdx">>, <<"addi", W, "rdx", 16>>>> \o lqvLoop \o
           <<<<"jmp", "l_end">>, <<"bind", "l_simple">>, <<"loadv", "ht", At("rax")>>,
             <<"byteswap16", "ht", "ht">>, <<"bind", "l_end">>>>
      ELSE <<<<"leax", D, "rcx", "rcx", "rax">>, <<"movi", W, "rax", o.e>>, <<"cmp", W, "rdx", "rax">>,
             <<"cmov", "b", "rdx", "rax">>, <<"neg", W, "rdx">>, <<"addi", W, "rdx", 16 + o.e>>>>
           \o lqvLoop))
CompareTo(r, e) == <<IF e = 0 THEN <<"test", W, r>> ELSE <<"cmpi", W, r, e>>>>
lrv(o) == <<Gpr(o.rs), DirtyVt(o)>> \o Ea(o, 16) \o
  <<<<"mov", W, "rcx", "rax">>, <<"andi", W, "rcx", 15>>>> \o CompareTo("rcx", o.e) \o
  <<<<"j", "be", "l_end">>, <<"neg", W, "rcx">>, <<"addi", W, "rcx", o.e + 16>>,
    <<"andi", W, "rax", MEM - 16>>>> \o Spill \o
  <<<<"loop", "b",
      <<<<"loadb", "rdx", 0, At("rax")>>, <<"addi", W, "rax", 1>>, <<"xori", W, "rcx", 1>>,
        <<"slot storeb", "s16", At("rcx"), "rdx">>, <<"xori", W, "rcx", 1>>, <<"addi", W, "rcx", 1>>,
        <<"cmpi", W, "rcx", 16>>>>>>>> \o Refill \o <<<<"bind", "l_end">>>>
ltv(o) ==
  LET Element(i, j) ==
        If(i # 0 \/ j # 1, Inc("rax") \o <<<<"cmp", W, "rax", "rdx">>, <<"cmov", "e", "rax", "rcx">>>>)
        \o Wrap("rax") \o <<<<"loadb", "r8", 0, At("rax")>>, <<"slot storeb", "s16", Slot(2 * i + j), "r8">>>>
      Register(i) == <<<<"vdirty", "ht", VecGuest(8 * (o.vt \div 8) + ((o.e \div 2 + i) % 8))>>>>
  IN WithR8(<<Gpr(o.rs)>> \o Ea(o, 16) \o
        <<<<"mov", W, "rcx", "rax">>, <<"andi", W, "rcx", -8>>, <<"andi", W, "rax", 8>>>>
        \o If(o.e # 0, <<<<"addi", W, "rax", o.e>>>>) \o
        <<<<"andi", W, "rax", 15>>, <<"add", W, "rax", "rcx">>, <<"mov", W, "rdx", "rcx">>,
          <<"addi", W, "rdx", 16>>>>
        \o Unrolled(0, 7, LAMBDA i : Register(i) \o Spill \o Element(i, 1) \o Element(i, 0) \o Refill))

NextPlace(first, n) == If(~first, <<<<"addi", W, "rcx", n>>, <<"andi", W, "rcx", 15>>>>)
sfv(o) ==
  LET Stored(i) ==
        IF SfvElements(o.e) = <<>> THEN <<<<"clearb", At("rdx")>>>>
        ELSE <<<<"slot loadb", "r8", "s16", Slot(2 * SfvElements(o.e)[i + 1])>>,
               <<"storeb", At("rdx"), "r8", 0>>>>
  IN WithR8(<<Gpr(o.rs)>> \o Ea(o, 16) \o SplitAddress(0)
        \o If(SfvElements(o.e) # <<>>,
              <<Vt(o), <<"psrlw", "x0", "ht", BYTE - 1>>, <<"vstore", "s16", "x0">>>>)
        \o Unrolled(0, 3, LAMBDA i : NextPlace(i = 0, 4) \o SumTo("rdx") \o Stored(i)))
shv(o) == WithR8(<<Gpr(o.rs), Vt(o)>> \o Ea(o, 16) \o SplitAddress(0) \o Spill
  \o Unrolled(0, 7, LAMBDA i :
       <<<<"slot loadb", "rdx", "s16", Slot(ByteSwap[(o.e + 2 * i) % 16])>>,
         <<"slot loadb", "r8", "s16", Slot(ByteSwap[(o.e + 2 * i + 1) % 16])>>,
         <<"shl", W, "rdx", 1>>, <<"shr byte", "r8", BYTE - 1>>, <<"or", W, "rdx", "r8">>>>
       \o If(i > 0, <<<<"addi", W, "rcx", 2>>>>) \o If(i > 3, <<<<"andi", W, "rcx", 15>>>>)
       \o SumTo("r8") \o <<<<"storeb", At("r8"), "rdx", 0>>>>))
\* spv and suv: a lane's high byte, or the byte below its sign.
HighByte(lane) == <<<<"slot loadb", "rdx", "s16", Slot(2 * lane + 1)>>>>
BelowSign(lane) == <<<<"slot loadw", "rdx", "s16", lane>>, <<"shr", W, "rdx", BYTE - 1>>>>
PackBytes(o, High(_)) == <<Gpr(o.rs), Vt(o)>> \o Ea(o, 8) \o Spill
  \o Unrolled(o.e, o.e + 7, LAMBDA i :
       (IF High(i % 16) THEN HighByte(i % 8) ELSE BelowSign(i % 8))
       \o If(i > o.e, Inc("rax")) \o Wrap("rax") \o <<<<"storeb", At("rax"), "rdx", 0>>>>)
spv(o) == PackBytes(o, LAMBDA elem : elem < 8)
suv(o) == PackBytes(o, LAMBDA elem : elem >= 8)
sqv(o) == WithR8(<<Gpr(o.rs), Vt(o)>> \o Ea(o, 16) \o
  <<<<"mov", W, "rcx", "rax">>>> \o Wrap("rax") \o <<<<"andi", W, "rcx", 15>>>>
  \o If(o.e = 0, <<<<"j", "e", "l_simple">>>>) \o
  <<<<"neg", W, "rcx">>, <<"addi", W, "rcx", o.e + 16>>, <<"movi", W, "rdx", o.e>>>> \o Spill \o
  <<<<"xori", W, "rdx", 1>>, <<"slot loadb", "r8", "s16", At("rdx")>>, <<"storeb", At("rax"), "r8", 0>>,
    <<"xori", W, "rdx", 1>>, <<"addi", W, "rdx", 1>>, <<"cmp", W, "rdx", "rcx">>, <<"j", "e", "l_end">>,
    <<"loop", "ne", Inc("rax") \o Wrap("rax") \o
      <<<<"mov", W, "r8", "rdx">>, <<"andi", W, "r8", 15>>, <<"xori", W, "r8", 1>>,
        <<"slot loadb", "r8", "s16", At("r8")>>, <<"storeb", At("rax"), "r8", 0>>>> \o Inc("rdx") \o
      <<<<"cmp", W, "rdx", "rcx">>>>>>,
    <<"jmp", "l_end">>, <<"bind", "l_simple">>>>
  \o If(o.e = 0, <<<<"byteswap16", "x0", "ht">>, <<"storev", At("rax"), "x0">>>>)
  \o <<<<"bind", "l_end">>>>)
srv(o) == <<<<"reserve", "r8">>, <<"reserve", "r9">>, Gpr(o.rs), Vt(o)>> \o Ea(o, 16) \o
  <<<<"mov", W, "rcx", "rax">>, <<"andi", W, "rcx", 15>>, <<"j", "e", "l_end">>,
    <<"movi", W, "rdx", 16>>, <<"sub", W, "rdx", "rcx">>, <<"movi", W, "r8", o.e>>,
    <<"andi", W, "rax", MEM - 16>>, <<"add", W, "rcx", "rax">>>> \o Spill \o
  <<<<"loop", "ne",
      <<<<"leax", W, "r9", "rdx", "r8">>, <<"andi", W, "r9", 15>>, <<"xori", W, "r9", 1>>,
        <<"slot loadb", "r9", "s16", At("r9")>>, <<"storeb", At("rax"), "r9", 0>>>>
      \o Inc("rax") \o Inc("r8") \o <<<<"cmp", W, "rax", "rcx">>>>>>,
    <<"bind", "l_end">>, <<"free", "r8">>, <<"free", "r9">>>>
stv(o) ==
  LET e == 2 * (o.e \div 2)
      Stored(i) ==
        If(i % 2 = 0, <<<<"vget", "ht", VecGuest(8 * (o.vt \div 8) + (i \div 2))>>>> \o Spill) \o
        <<<<"slot loadb", "rdx", "s16", Slot(ByteSwap[(16 - e + i) % 16])>>>>
        \o If(i > 0, Inc("rcx")) \o <<<<"andi", W, "rcx", 15>>>> \o SumTo("r8")
        \o <<<<"storeb", At("r8"), "rdx", 0>>>>
  IN WithR8(<<Gpr(o.rs)>> \o Ea(o, 16) \o SplitAddress(e) \o Unrolled(0, 15, Stored))
swv(o) == WithR8(<<Gpr(o.rs), Vt(o)>> \o Ea(o, 16) \o SplitAddress(0) \o Spill
  \o Unrolled(o.e, o.e + 15, LAMBDA i :
       <<<<"slot loadb", "rdx", "s16", Slot(ByteSwap[i % 16])>>>> \o NextPlace(i = o.e, 1)
       \o SumTo("r8") \o <<<<"storeb", At("r8"), "rdx", 0>>>>))
=============================================================================
