----------------------------- MODULE N64Cop1X64 -----------------------------
(***************************************************************************)
(* The floating-point unit of the VR4300 as the recompiler emits it for    *)
(* x64 (src/n64/vr4300/cop1_x64.cpp).  The emitted code calls functions of *)
(* the interpreter, C!F, on the state m, and leaves the block when they    *)
(* have raised an exception.  Do is code that runs where it is reached;    *)
(* the upper lanes of the packed instructions raise m.fpu.others.          *)
(***************************************************************************)
EXTENDS X64Emitter

CONSTANT REGION

C == INSTANCE N64Cop1
J == INSTANCE N64IpuX64

Do(m, t) == IF Running(m) THEN t ELSE m
GoTo(m, cond, label) == IF Running(m) /\ cond THEN [m EXCEPT !.at = label] ELSE m
OfFloat(m, o, t, invalid) == IF o.fmt \in C!Floats THEN t ELSE invalid

\* Status is looked at when the block is compiled.
Unusable(m) ==
  Emitted(m, <<<<"destroy", J!A0>>, <<"movi", W, J!A0, 1>>>>
             \o J!RaiseNow("CoprocessorUnusable") \o <<<<"branched">>>>)
CheckCop1Usable(m, Emit(_)) ==
  IF m.cu1 THEN Emit(Do(m, C!ClearAllExceptions(m))) ELSE Unusable(m)
Unimplemented(m) ==
  CheckCop1Usable(m, LAMBDA t :
    Emitted(Do(t, [t EXCEPT !.fcr31.cause = @ \cup {"unimplemented"}]),
            <<<<"cycles", 1>>>> \o J!RaiseNow("FloatingPoint") \o <<<<"branched">>>>))

(***************************************************************************)
(* Branches and comparisons.                                               *)
(***************************************************************************)
Cop1Branch(m, o, cond, likely) ==
  CheckCop1Usable(m, LAMBDA t :
    Emitted(Do(t, [t EXCEPT !.flags.below = t.fcr31.c]),
            J!BranchIf(t, o, IF cond THEN "b" ELSE "ae", likely)))
bc1f(m, o) == Cop1Branch(m, o, FALSE, FALSE)
bc1fl(m, o) == Cop1Branch(m, o, FALSE, TRUE)
bc1t(m, o) == Cop1Branch(m, o, TRUE, FALSE)
bc1tl(m, o) == Cop1Branch(m, o, TRUE, TRUE)

\* comis finds any NaN invalid, ucomis one whose first fraction bit is clear; a NaN that
\* is not invalid sets the flag all the same.
Compare(m, o, w) ==
  LET a == C!GetFs(m, w, o.fs)
      b == C!GetFt(m, w, o.ft)
      unordered == C!IsNan(w, a) \/ C!IsNan(w, b)
      invalid == unordered /\ (C!Cond(o, 8) \/ "snan" \in {C!Kind(w, a), C!Kind(w, b)})
      enabled == "invalid" \in m.fcr31.enable
      answer == IF unordered THEN C!Cond(o, 1)
                ELSE \/ C!Cond(o, 4) /\ C!Number(w, a) < C!Number(w, b)
                     \/ C!Cond(o, 2) /\ C!Number(w, a) = C!Number(w, b)
      tested == [m EXCEPT !.fcr31.cause = IF invalid THEN @ \cup {"invalid"} ELSE @,
                          !.fcr31.flag = IF unordered /\ ~enabled THEN @ \cup {"invalid"} ELSE @,
                          !.host["rax"] = Junk, !.host["rcx"] = Junk, !.host["rdx"] = Junk]
  IN Emitted(GoTo(Do(m, IF invalid /\ enabled THEN tested ELSE [tested EXCEPT !.fcr31.c = answer]),
                  ~(invalid /\ enabled), "end"),
             J!RaiseNow("FloatingPoint") \o <<<<"bind", "end">>, <<"free", "rcx">>, <<"free", "rdx">>>>)
compare(m, o) ==
  OfFloat(m, o, CheckCop1Usable(m, LAMBDA t :
    Compare(Emitted(t, <<<<"reserve", "rcx">>, <<"reserve", "rdx">>>>), o, C!Width(o.fmt))),
    Unimplemented(m))

(***************************************************************************)
(* Moves, loads and stores.                                                *)
(***************************************************************************)
Usable(m, t) == IF m.cu1 THEN t ELSE Unusable(m)
cfc1(m, o) ==
  LET t == Emitted(m, <<<<"dirty", "ht", o.rt>>>>) IN
  Usable(m, Do(t, Put(t, "ht", D, CASE o.fs = 31 -> C!Word(t.fcr31)
                                    [] o.fs = 0 -> C!Implementation [] OTHER -> 0)))
ctc1(m, o) ==
  LET read == Emitted(m, <<<<"reserve args", 1>>, <<"get", "ht", o.rt>>, <<"mov", W, "rax", "ht">>>>)
      written == Do(read, [read EXCEPT !.fcr31 = C!Written(read.fcr31, read.host["rax"])])
      rounded == Call(written, LAMBDA t : [t EXCEPT !.rounding = t.fcr31.rm])
      tested == Call(rounded, LAMBDA t : C!TestExceptions(t, FALSE))
  IN Usable(m, IF o.fs # 31 THEN m
               ELSE Emitted(tested, J!LeaveOnException \o <<<<"free args", 1>>>>))
dcfc1(m, o) == Unimplemented(m)
dctc1(m, o) == dcfc1(m, o)
\* A move between the register files, of a word or of all of a register.
ToGpr(m, o, w) ==
  LET t == Emitted(m, <<<<"dirty", "ht", o.rt>>>>) IN
  Emitted(Do(t, Put(t, "ht", D, Signed(w, C!GetMoveLoadStore(t, w, o.fs)))), <<<<"cycles", 1>>>>)
FromGpr(m, o, w) ==
  LET t == Emitted(m, <<<<"get", "ht", o.rt>>>>) IN
  Emitted(Do(t, C!SetMoveLoadStore(t, w, o.fs, Val(t, "ht"))), <<<<"cycles", 1>>>>)
dmfc1(m, o) == Usable(m, ToGpr(m, o, D))
dmtc1(m, o) == Usable(m, FromGpr(m, o, D))
mfc1(m, o) == CheckCop1Usable(m, LAMBDA t : ToGpr(t, o, W))
mtc1(m, o) == CheckCop1Usable(m, LAMBDA t : FromGpr(t, o, W))
Load(m, o, w) ==
  LET t == Emitted(m, J!AddressArg(o) \o <<<<"call", "read", w \div BYTE, "Aligned">>>>
                      \o J!LeaveOnException)
  IN Emitted(Do(t, C!SetMoveLoadStore(t, w, o.ft, t.host["rax"])),
             <<<<"cycles", 1>>, <<"free args", 1>>>>)
Store(m, o, w) ==
  LET t == Emitted(m, <<<<"flush pc", 0>>, <<"reserve args", 2>>, J!Hs(o),
                        <<"lea", D, J!A0, "hs", o.imm>>>>)
  IN Emitted(Do(t, Put(t, J!A1, D, Signed(w, C!GetMoveLoadStore(t, w, o.ft)))),
             <<<<"call", "write", w \div BYTE, "Aligned">>>> \o J!LeaveOnException
             \o <<<<"cycles", 1>>, <<"free args", 2>>>>)
ldc1(m, o) == Usable(m, Load(m, o, D))
lwc1(m, o) == Usable(m, Load(m, o, W))
sdc1(m, o) == Usable(m, Store(m, o, D))
swc1(m, o) == Usable(m, Store(m, o, W))

(***************************************************************************)
(* Arithmetic.  Two doublewords of the stack hold the operand and then the *)
(* result, and the second operand.                                         *)
(***************************************************************************)
Slots(m, v) == Push(Push(m, Junk), v)
Undone(m) == Do(m, [m EXCEPT !.stack = Tail(Tail(@))])
\* The functions of the interpreter that give a bool: whether to go on, or not to.
Passes(m) == [m EXCEPT !.host["rax"] = IF m.exc = "none" THEN 1 ELSE 0]
Fails(m) == [m EXCEPT !.host["rax"] = IF m.exc = "none" THEN 0 ELSE 1]
LeaveIf(m, cc) == Emitted(m, <<<<"test", AL, "rax">>, <<"j", cc, "epilog">>>>)
CallIsValidInput(m, w, v) == LeaveIf(Call(m, LAMBDA t : Passes(C!IsValidInput(t, w, v))), "e")
CallIsValidOutput(m, w) ==
  LeaveIf(Call(m, LAMBDA t :
    LET out == C!IsValidOutput(t, w, Fit(w, Head(t.stack))) IN
    Passes([out.s EXCEPT !.stack[1] = out.f])), "e")
Computes(m, v, raised) == Do(m, [C!HostRaises(m, raised) EXCEPT !.stack[1] = v])
\* The end of Compute: the result is stored and the code at l_epilog skipped.
Finish(m, o, w) ==
  LET t == CallIsValidOutput(LeaveIf(Call(m, LAMBDA x : Fails(C!GetAndTestExceptions(x))), "ne"), w)
      stored == GoTo(Undone(Do(t, C!Set(t, o.fd, w, Head(t.stack)))), TRUE, "end")
  IN Emitted(Undone(Emitted(stored, <<<<"bind", "epilog">>>>)), <<<<"epilog">>, <<"bind", "end">>>>)
Opened(m, o) ==
  LET t == Emitted(m, <<<<"flush pc", 0>>>>) IN Slots(t, C!GetFs(t, D, o.fs))

Unary(m, o, cycles, Value(_, _, _), Raised(_)) ==
  LET w == C!Width(o.fmt) IN
  CheckCop1Usable(m, LAMBDA t :
    LET checked == CallIsValidInput(Opened(t, o), w, C!GetFs(t, w, o.fs)) IN
    Finish(Emitted(Computes(checked, Value(checked, w, Fit(w, Head(checked.stack))), Raised(checked)),
                   <<<<"cycles", cycles>>>>), o, w))
Binary(m, o, cycles, lanes) ==
  LET w == C!Width(o.fmt) IN
  CheckCop1Usable(m, LAMBDA t :
    LET first == CallIsValidInput(Opened(t, o), w, C!GetFs(t, w, o.fs))
        second == Do(first, [first EXCEPT !.stack[2] = C!GetFt(first, D, o.ft)])
        checked == CallIsValidInput(second, w, C!GetFt(t, w, o.ft))
    IN Finish(Emitted(Computes(checked, C!HostFloat(checked, w),
                               checked.fpu.raised \cup (IF lanes THEN checked.fpu.others ELSE {})),
                      <<<<"cycles", cycles>>>>), o, w))
\* Raised of an operation on the sign only.
Quiet(m) == {}
Arithmetical(m, o, t) == OfFloat(m, o, t, Unimplemented(m))
abs(m, o) == Arithmetical(m, o, Unary(m, o, 0, LAMBDA t, w, f : C!Magnitude(w, f), Quiet))
neg(m, o) == Arithmetical(m, o, Unary(m, o, 0, LAMBDA t, w, f : Fit(w, f + 2^(w - 1)), Quiet))
sqrt(m, o) ==
  Arithmetical(m, o, Unary(m, o, C!ByWidth(o, 28, 57), LAMBDA t, w, f : C!HostFloat(t, w),
                           LAMBDA t : t.fpu.raised))
add(m, o) == Arithmetical(m, o, Binary(m, o, 2, TRUE))
sub(m, o) == Arithmetical(m, o, Binary(m, o, 2, TRUE))
mul(m, o) == Arithmetical(m, o, Binary(m, o, C!ByWidth(o, 4, 7), TRUE))
div(m, o) == Arithmetical(m, o, Binary(m, o, C!ByWidth(o, 28, 57), o.fmt = "S"))
mov(m, o) ==
  OfFloat(m, o, Usable(m, Do(m, C!Set(m, o.fd, D, C!GetFs(m, D, o.fs)))), Unimplemented(m))

(***************************************************************************)
(* Conversions are calls of the interpreter; the roundings are emitted,    *)
(* but their two tests of the operand and of the result are commented out, *)
(* so that they test what is left in al.                                   *)
(***************************************************************************)
CallCop1InterpreterImpl(m, Impl(_)) ==
  Emitted(Call(Emitted(m, <<<<"flush pc", 0>>, <<"reserve args", 2>>>>), Impl),
          <<<<"free args", 2>>>> \o J!LeaveOnException)
cvt_d(m, o) == CallCop1InterpreterImpl(m, LAMBDA t : C!cvt_d(t, o))
cvt_l(m, o) == CallCop1InterpreterImpl(m, LAMBDA t : C!cvt_l(t, o))
cvt_s(m, o) == CallCop1InterpreterImpl(m, LAMBDA t : C!cvt_s(t, o))
cvt_w(m, o) == CallCop1InterpreterImpl(m, LAMBDA t : C!cvt_w(t, o))

Round(m, o, to) ==
  CheckCop1Usable(m, LAMBDA t :
    LET opened == LeaveIf(Opened(t, o), "e")
        rounded == Do(opened, [C!HostRaises(opened, opened.fpu.raised) EXCEPT !.stack[2] = opened.fpu.int])
        tested == LeaveIf(Call(rounded, LAMBDA x : Fails(C!TestConverted(x, to))), "ne")
        again == LeaveIf(tested, "e")
        stored == GoTo(Undone(Do(again, C!Set(again, o.fd, C!Width(to), Head(again.stack)))), TRUE, "end")
    IN Emitted(Undone(Emitted(stored, <<<<"bind", "epilog">>>>)),
               <<<<"epilog">>, <<"bind", "end">>, <<"cycles", 4>>>>))
ceil_l(m, o) == Arithmetical(m, o, Round(m, o, "L"))
ceil_w(m, o) == Arithmetical(m, o, Round(m, o, "W"))
floor_l(m, o) == Arithmetical(m, o, Round(m, o, "L"))
floor_w(m, o) == Arithmetical(m, o, Round(m, o, "W"))
round_l(m, o) == Arithmetical(m, o, Round(m, o, "L"))
round_w(m, o) == Arithmetical(m, o, Round(m, o, "W"))
trunc_l(m, o) == Arithmetical(m, o, Round(m, o, "L"))
trunc_w(m, o) == Arithmetical(m, o, Round(m, o, "W"))
=============================================================================
