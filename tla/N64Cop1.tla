------------------------------ MODULE N64Cop1 ------------------------------
(***************************************************************************)
(* The floating-point unit of the VR4300 as the interpreter executes it    *)
(* (src/n64/vr4300/cop1.cpp), one operator per instruction, over the state *)
(* of N64Ipu with the registers of the unit: s.fpr, s.fcr31, the           *)
(* exception flags s.fenv and the rounding mode s.rounding of the host,    *)
(* and the bits cu1 and fr of Status.  o.fmt is the format in the          *)
(* instruction.  A number is abstracted to its sign and its kind, and what *)
(* the host computes from valid operands, s.fpu, is an input: the kind and *)
(* sign of the result, or the integer, and the exceptions the host raises. *)
(* A function of the code that returns whether the instruction goes on is  *)
(* one that gives the state after it, in which no exception is raised.     *)
(***************************************************************************)
EXTENDS N64Words, FiniteSets

CONSTANT REGION

I == INSTANCE N64Ipu

\* The formats, and the bits of each.
Floats == {"S", "D"}
Integral == {"W", "L"}
Width(fmt) == IF fmt \in {"S", "W"} THEN W ELSE D

\* The kinds of a number, in the order of its magnitude: "large" is out of the range of
\* the integer formats, and a NaN is quiet when the first bit of its fraction is set.
Magnitude(w, f) == Fit(w - 1, f)
Kind(w, f) ==
  LET top == Magnitude(w, f) \div 2^(w - 4)
      rest == Fit(w - 4, f)
  IN CASE top = 0 /\ rest = 0 -> "zero"
       [] top = 1 \/ (top = 0 /\ rest > 0) -> "subnormal"
       [] top = 2 -> "fraction"
       [] top = 3 -> "integer"
       [] top = 4 -> "large"
       [] top = 5 /\ rest = 0 -> "inf"
       [] top = 6 \/ (top = 5 /\ rest > 0) -> "snan"
       [] top = 7 -> "qnan"
IsNan(w, f) == Kind(w, f) \in {"snan", "qnan"}
Negative(w, f) == Fit(w, f) >= 2^(w - 1)
SignBit(w, f) == IF Negative(w, f) THEN 2^(w - 1) ELSE 0
Number(w, f) == IF Negative(w, f) THEN -Magnitude(w, f) ELSE Magnitude(w, f)
LeastNormal(w) == 2 * 2^(w - 4)
DefaultNan(w) == 7 * 2^(w - 4) - 1      \* 0x7FBF'FFFF: the first bit is clear

(***************************************************************************)
(* The registers.                                                          *)
(***************************************************************************)
Paired(s, r) == IF s.fr THEN r ELSE r - (r % 2)
GetFs(s, w, r) == Fit(w, s.fpr[Paired(s, r)])
GetFt(s, w, r) == Fit(w, s.fpr[r])
Set(s, r, w, v) == [s EXCEPT !.fpr[r] = Fit(w, v)]
\* A word of an odd register is the upper word of the even one below it.
UpperWord(s, w, r) == w = W /\ ~s.fr /\ r % 2 = 1
GetMoveLoadStore(s, w, r) ==
  IF UpperWord(s, w, r) THEN s.fpr[r - 1] \div 2^W
  ELSE IF w = W THEN Uw(s.fpr[r]) ELSE s.fpr[Paired(s, r)]
SetMoveLoadStore(s, w, r, v) ==
  IF UpperWord(s, w, r) THEN [s EXCEPT !.fpr[r - 1] = Uw(@) + 2^W * Uw(v)]
  ELSE IF w = W THEN [s EXCEPT !.fpr[r] = (@ - Uw(@)) + Uw(v)]
  ELSE [s EXCEPT !.fpr[Paired(s, r)] = Dw(v)]

\* Of fcr31 a word moved by ctc1 and cfc1 has room for one bit of three fields.
Word(r) ==
  (r.rm % 2) + (IF "invalid" \in r.enable THEN 2 ELSE 0) + (IF "invalid" \in r.cause THEN 4 ELSE 0)
Written(r, v) ==
  LET invalid(bit) == IF (v \div bit) % 2 = 1 THEN {"invalid"} ELSE {} IN
  [r EXCEPT !.rm = v % 2, !.enable = invalid(2), !.cause = invalid(4)]
Implementation == 2                      \* 0xA00

(***************************************************************************)
(* Exceptions.                                                             *)
(***************************************************************************)
FloatingPointException(s) == I!Raise(s, "FloatingPoint")
Unusable(s) == I!Raise(s, "CoprocessorUnusable")
ClearAllExceptions(s) == [s EXCEPT !.fcr31.cause = {}, !.fenv = {}]
FpuUsable(s, Go(_)) == IF s.cu1 THEN Go(ClearAllExceptions(s)) ELSE Unusable(s)

Signal(s, e) ==
  [s EXCEPT !.fcr31.cause = @ \cup {e},
            !.fcr31.flag = IF e \in s.fcr31.enable THEN @ ELSE @ \cup {e}]
\* if (Signal...()) FloatingPointException();
SignalOrTrap(s, e) ==
  IF e \in s.fcr31.enable THEN FloatingPointException(Signal(s, e)) ELSE Signal(s, e)
Unimplemented(s) ==
  FloatingPointException([s EXCEPT !.fcr31.cause = @ \cup {"unimplemented"}])

\* An operand that is not supported, or a quiet NaN while the exception is enabled.
Reject(s, kinds) ==
  IF kinds \cap {"snan", "subnormal"} # {} THEN Unimplemented(s)
  ELSE IF "qnan" \in kinds THEN SignalOrTrap(s, "invalid") ELSE s
IsValidInput(s, w, f) == Reject(s, {Kind(w, f)})
IsValidInputs(s, w, f1, f2) == Reject(s, {Kind(w, f1), Kind(w, f2)})
IsValidInputCvtRound(s, w, f) ==
  IF Kind(w, f) \in {"inf", "snan", "qnan", "subnormal", "large"} THEN Unimplemented(s) ELSE s

NoFlush(s) == ~s.fcr31.fs \/ s.fcr31.enable \cap {"underflow", "inexact"} # {}
Flush(s, w, f) ==
  CASE s.fcr31.rm \in {0, 1} -> SignBit(w, f)
    [] s.fcr31.rm = 2 -> IF Negative(w, f) THEN SignBit(w, f) ELSE LeastNormal(w)
    [] s.fcr31.rm = 3 -> IF Negative(w, f) THEN SignBit(w, f) + LeastNormal(w) ELSE 0
\* The state after the test, and the value to store if it goes on.
IsValidOutput(s, w, f) ==
  CASE IsNan(w, f) -> [s |-> s, f |-> DefaultNan(w)]
    [] Kind(w, f) = "subnormal" /\ NoFlush(s) -> [s |-> Unimplemented(s), f |-> f]
    [] Kind(w, f) = "subnormal" /\ ~NoFlush(s) ->
         [s |-> Signal(Signal(s, "underflow"), "inexact"), f |-> Flush(s, w, f)]
    [] OTHER -> [s |-> s, f |-> f]

TestExceptions(s, update_flags) ==
  LET causes == s.fcr31.cause \ {"unimplemented"}
      t == IF update_flags THEN [s EXCEPT !.fcr31.flag = @ \cup (causes \ s.fcr31.enable)] ELSE s
  IN IF causes \cap s.fcr31.enable # {} \/ "unimplemented" \in s.fcr31.cause
     THEN FloatingPointException(t) ELSE t
\* Faulty: a masked exception is not kept in the flags.
GetAndTestUnflagged(s) ==
  IF "underflow" \in s.fenv /\ NoFlush(s) THEN Unimplemented(s)
  ELSE TestExceptions([s EXCEPT !.fcr31.cause = @ \cup s.fenv], FALSE)
GetAndTestExceptions(s) ==
  CASE s.fenv = {} -> s
    [] "underflow" \in s.fenv /\ NoFlush(s) -> Unimplemented(s)
    [] OTHER -> TestExceptions([s EXCEPT !.fcr31.cause = @ \cup s.fenv], TRUE)
GetAndTestExceptionsConvFloatToWord(s) ==
  IF "invalid" \in s.fenv THEN Unimplemented(s) ELSE GetAndTestExceptions(s)

OnInvalidFormat(s) == FpuUsable(s, LAMBDA t : Unimplemented(I!AdvancePipeline(t, 1)))

(***************************************************************************)
(* Branches and comparisons.                                               *)
(***************************************************************************)
bc1f(s, o) == FpuUsable(s, LAMBDA t : I!Branch(t, o, ~t.fcr31.c))
bc1fl(s, o) == FpuUsable(s, LAMBDA t : I!Likely(t, o, ~t.fcr31.c))
bc1t(s, o) == FpuUsable(s, LAMBDA t : I!Branch(t, o, t.fcr31.c))
bc1tl(s, o) == FpuUsable(s, LAMBDA t : I!Likely(t, o, t.fcr31.c))

\* The bits of cond: the answer if unordered, if equal, if less, and whether any NaN is
\* invalid.
Cond(o, bit) == (o.cond \div bit) % 2 = 1
Compare(s, o, w) ==
  LET a == GetFs(s, w, o.fs)
      b == GetFt(s, w, o.ft)
      Refused(f) == IsNan(w, f) /\ (Cond(o, 8) \/ Kind(w, f) = "qnan")
      t == IF Refused(a) \/ Refused(b) THEN SignalOrTrap(s, "invalid") ELSE s
  IN IF IsNan(w, a) \/ IsNan(w, b)
     THEN IF t.exc # "none" THEN I!AdvancePipeline(t, 1) ELSE [t EXCEPT !.fcr31.c = Cond(o, 1)]
     ELSE [s EXCEPT !.fcr31.c = \/ Cond(o, 4) /\ Number(w, a) < Number(w, b)
                                \/ Cond(o, 2) /\ Number(w, a) = Number(w, b)]
compare(s, o) ==
  IF o.fmt \in Floats THEN FpuUsable(s, LAMBDA t : Compare(t, o, Width(o.fmt)))
  ELSE OnInvalidFormat(s)

(***************************************************************************)
(* Moves, loads and stores.                                                *)
(***************************************************************************)
cfc1(s, o) ==
  IF s.cu1
  THEN I!Set(s, o.rt, CASE o.fs = 31 -> Word(s.fcr31) [] o.fs = 0 -> Implementation [] OTHER -> 0)
  ELSE Unusable(s)
ctc1(s, o) ==
  CASE ~s.cu1 -> Unusable(s)
    [] s.cu1 /\ o.fs # 31 -> s
    [] OTHER -> LET r == Written(s.fcr31, s.gpr[o.rt]) IN
                TestExceptions([s EXCEPT !.fcr31 = r, !.rounding = r.rm], FALSE)
dcfc1(s, o) == FpuUsable(s, LAMBDA t : I!AdvancePipeline(Unimplemented(t), 1))
dctc1(s, o) == dcfc1(s, o)
dmfc1(s, o) ==
  IF s.cu1 THEN I!AdvancePipeline(I!Set(s, o.rt, GetMoveLoadStore(s, D, o.fs)), 1) ELSE Unusable(s)
dmtc1(s, o) ==
  IF s.cu1 THEN I!AdvancePipeline(SetMoveLoadStore(s, D, o.fs, s.gpr[o.rt]), 1) ELSE Unusable(s)
mfc1(s, o) ==
  FpuUsable(s, LAMBDA t : I!AdvancePipeline(I!Set(t, o.rt, Sw(GetMoveLoadStore(t, W, o.fs))), 1))
mtc1(s, o) ==
  FpuUsable(s, LAMBDA t : I!AdvancePipeline(SetMoveLoadStore(t, W, o.fs, t.gpr[o.rt]), 1))
Load(s, o, w) ==
  LET t == I!ReadVirtual(s, w \div BYTE, "Aligned", I!Address(s, o)) IN
  I!AdvancePipeline(IF t.exc = "none" THEN SetMoveLoadStore(t, w, o.ft, t.rv) ELSE t, 1)
Store(s, o, w) ==
  I!AdvancePipeline(I!WriteVirtual(s, w \div BYTE, "Aligned", I!Address(s, o),
                                   GetMoveLoadStore(s, w, o.ft)), 1)
ldc1(s, o) == IF s.cu1 THEN Load(s, o, D) ELSE Unusable(s)
lwc1(s, o) == IF s.cu1 THEN Load(s, o, W) ELSE Unusable(s)
sdc1(s, o) == IF s.cu1 THEN Store(s, o, D) ELSE Unusable(s)
swc1(s, o) == IF s.cu1 THEN Store(s, o, W) ELSE Unusable(s)

(***************************************************************************)
(* Arithmetic and conversions.  Each goes on while no exception is raised. *)
(***************************************************************************)
Then(s, Go(_)) == IF s.exc = "none" THEN Go(s) ELSE s
HostRaises(s, raised) == [s EXCEPT !.fenv = @ \cup raised]
HostFloat(s, w) == (IF s.fpu.negative THEN 2^(w - 1) ELSE 0) + s.fpu.top * 2^(w - 4)
\* The test of what the host raised, then of the result, then the result.
Stored(s, r, w, f) ==
  Then(GetAndTestExceptions(s), LAMBDA t :
    LET out == IsValidOutput(t, w, f) IN Then(out.s, LAMBDA u : Set(u, r, w, out.f)))
ByWidth(o, single, double) == IF o.fmt = "S" THEN single ELSE double

Unary(s, o, Sign(_, _)) ==
  LET w == Width(o.fmt) IN
  FpuUsable(s, LAMBDA t :
    LET f == GetFs(t, w, o.fs)
        checked == IsValidInput(t, w, f)
    IN IF checked.exc # "none" THEN I!AdvancePipeline(checked, 2)
       ELSE Stored(checked, o.fd, w, Sign(w, f)))
SquareRoot(s, o) ==
  LET w == Width(o.fmt) IN
  FpuUsable(s, LAMBDA t :
    LET checked == IsValidInput(t, w, GetFs(t, w, o.fs)) IN
    IF checked.exc # "none" THEN I!AdvancePipeline(checked, 2)
    ELSE Stored(HostRaises(I!AdvancePipeline(checked, ByWidth(o, 28, 57)), t.fpu.raised),
                o.fd, w, HostFloat(t, w)))
Binary(s, o, cycles) ==
  LET w == Width(o.fmt) IN
  FpuUsable(s, LAMBDA t :
    LET checked == IsValidInputs(t, w, GetFs(t, w, o.fs), GetFt(t, w, o.ft)) IN
    IF checked.exc # "none" THEN I!AdvancePipeline(checked, 1)
    ELSE Stored(HostRaises(I!AdvancePipeline(checked, cycles), t.fpu.raised),
                o.fd, w, HostFloat(t, w)))
OfFloat(s, o, t) == IF o.fmt \in Floats THEN t ELSE OnInvalidFormat(s)
abs(s, o) == OfFloat(s, o, Unary(s, o, Magnitude))
neg(s, o) == OfFloat(s, o, Unary(s, o, LAMBDA w, f : Fit(w, f + 2^(w - 1))))
sqrt(s, o) == OfFloat(s, o, SquareRoot(s, o))
add(s, o) == OfFloat(s, o, Binary(s, o, 2))
sub(s, o) == OfFloat(s, o, Binary(s, o, 2))
mul(s, o) == OfFloat(s, o, Binary(s, o, ByWidth(o, 4, 7)))
div(s, o) == OfFloat(s, o, Binary(s, o, ByWidth(o, 28, 57)))
mov(s, o) ==
  OfFloat(s, o, IF s.cu1 THEN Set(s, o.fd, D, GetFs(s, D, o.fs)) ELSE Unusable(s))

\* A long that a float cannot hold exactly is refused.
LongLimit == IF BYTE = 8 THEN 2^55 ELSE 2^(D - 2)
TestConverted(s, to) ==
  IF to = "W" THEN GetAndTestExceptionsConvFloatToWord(s) ELSE GetAndTestExceptions(s)
ConvertCycles(from, to) ==
  CASE from = to \/ (from = "S" /\ to = "D") -> 0
    [] (from = "D" /\ to = "S") \/ (from # to /\ {from, to} = Integral) -> 1
    [] OTHER -> 4
ValidSource(s, from, to, v) ==
  CASE from \in Floats /\ to \in Floats -> IsValidInput(s, Width(from), v)
    [] from \in Floats /\ to \in Integral -> IsValidInputCvtRound(s, Width(from), v)
    [] from = "L" -> IF Sd(v) >= LongLimit \/ Sd(v) < -LongLimit THEN Unimplemented(s) ELSE s
    [] OTHER -> s
Convert(s, o, to) ==
  FpuUsable(s, LAMBDA t0 :
    LET t == I!AdvancePipeline(t0, ConvertCycles(o.fmt, to)) IN
    IF o.fmt = to \/ {o.fmt, to} = Integral THEN Unimplemented(t)
    ELSE Then(ValidSource(t, o.fmt, to, GetFs(t, Width(o.fmt), o.fs)), LAMBDA u :
           LET raised == HostRaises(u, u.fpu.raised) IN
           IF to \in Floats THEN Stored(raised, o.fd, Width(to), HostFloat(u, Width(to)))
           ELSE Then(TestConverted(raised, to), LAMBDA v : Set(v, o.fd, Width(to), v.fpu.int))))
cvt_d(s, o) == IF o.fmt = "invalid" THEN OnInvalidFormat(s) ELSE Convert(s, o, "D")
cvt_s(s, o) == IF o.fmt = "invalid" THEN OnInvalidFormat(s) ELSE Convert(s, o, "S")
cvt_l(s, o) == OfFloat(s, o, Convert(s, o, "L"))
cvt_w(s, o) == OfFloat(s, o, Convert(s, o, "W"))

\* Only the rounding to nearest lets the host raise an exception.
Round(s, o, to, raises) ==
  FpuUsable(s, LAMBDA t :
    LET w == Width(o.fmt)
        source == GetFs(t, w, o.fs)
    IN Then(IsValidInputCvtRound(I!AdvancePipeline(t, 4), w, source), LAMBDA u :
         Then(TestConverted(HostRaises(u, IF raises THEN u.fpu.raised ELSE {}), to), LAMBDA v :
           Then(IF Kind(w, source) = "fraction" THEN SignalOrTrap(v, "inexact") ELSE v,
                LAMBDA x : Set(x, o.fd, Width(to), x.fpu.int)))))
ceil_l(s, o) == OfFloat(s, o, Round(s, o, "L", FALSE))
ceil_w(s, o) == OfFloat(s, o, Round(s, o, "W", FALSE))
floor_l(s, o) == OfFloat(s, o, Round(s, o, "L", FALSE))
floor_w(s, o) == OfFloat(s, o, Round(s, o, "W", FALSE))
round_l(s, o) == OfFloat(s, o, Round(s, o, "L", TRUE))
round_w(s, o) == OfFloat(s, o, Round(s, o, "W", TRUE))
trunc_l(s, o) == OfFloat(s, o, Round(s, o, "L", FALSE))
trunc_w(s, o) == OfFloat(s, o, Round(s, o, "W", FALSE))
=============================================================================
