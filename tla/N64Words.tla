------------------------------ MODULE N64Words ------------------------------
(***************************************************************************)
(* The machine integers of the N64 processors, at a width that can be      *)
(* enumerated.  BYTE is the number of bits of a byte: 8 in the program, 1  *)
(* or 2 in the runs.  Every other width of the code is a multiple of it (a *)
(* word is four bytes, a doubleword eight), so an instruction keeps its    *)
(* shape: the shift counts wrap where they wrap, a sign is extended from   *)
(* where it is, and the byte lanes of a word are its byte lanes.  A value  *)
(* is its bit pattern, a natural number below 2^width.                     *)
(***************************************************************************)
EXTENDS Integers

CONSTANT BYTE
ASSUME ByteAssumption == BYTE \in 1..8

H == 2 * BYTE                 \* bits of a halfword
W == 4 * BYTE                 \* bits of a word
D == 8 * BYTE                 \* bits of a doubleword
LinkShift == IF BYTE = 8 THEN 4 ELSE 1   \* the shift from an address to LLAddr

Fit(w, v) == v % 2^w                                  \* the low w bits
Signed(w, v) == LET u == Fit(w, v) IN IF u < 2^(w - 1) THEN u ELSE u - 2^w
Dw(v) == Fit(D, v)
Uw(v) == Fit(W, v)                                    \* u32(v)
Sw(v) == Signed(W, v)                                 \* s32(v)
Sd(v) == Signed(D, v)                                 \* s64(v)
InSigned(w, v) == v \in -(2^(w - 1)) .. 2^(w - 1) - 1

\* The bitwise and, by halves down to one bit.  Of words there is a table, built
\* once; a doubleword is two of them.
And1(a, b) == a * b
Halves(F(_, _), n, a, b) == F(a % n, b % n) + n * F(a \div n, b \div n)
And2(a, b) == Halves(And1, 2, a, b)
And4(a, b) == Halves(And2, 2^2, a, b)
And8(a, b) == Halves(And4, 2^4, a, b)
And16(a, b) == Halves(And8, 2^8, a, b)
And32(a, b) == Halves(And16, 2^16, a, b)
AndTable == [a \in 0..2^W - 1 |-> [b \in 0..2^W - 1 |-> And32(a, b)]]
BitAnd(a, b) ==
  AndTable[Uw(a)][Uw(b)]
  + 2^W * AndTable[Dw(a) \div 2^W][Dw(b) \div 2^W]
BitOr(a, b) == Dw(a) + Dw(b) - BitAnd(a, b)
BitXor(a, b) == Dw(a) + Dw(b) - 2 * BitAnd(a, b)
BitNot(w, a) == 2^w - 1 - Fit(w, a)

Shl(w, v, n) == Fit(w, v * 2^n)
Shr(w, v, n) == Fit(w, v) \div 2^n
Sar(w, v, n) == Fit(w, Signed(w, v) \div 2^n)

\* Division truncates towards zero in C++ and on x86; \div rounds down.
Abs(a) == IF a < 0 THEN -a ELSE a
Quotient(a, b) ==
  LET q == Abs(a) \div Abs(b) IN IF (a < 0) = (b < 0) THEN q ELSE -q
Remainder(a, b) == a - b * Quotient(a, b)
=============================================================================
