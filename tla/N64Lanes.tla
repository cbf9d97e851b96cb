------------------------------ MODULE N64Lanes ------------------------------
(***************************************************************************)
(* The vector registers of the RSP: eight lanes of a halfword, each a bit  *)
(* pattern, and what SSE does to a lane.  Both engines compute with these  *)
(* (src/common/sse_util.cpp, the intrinsics of                             *)
(* src/n64/rsp/vu_interpreter.cpp); a lane that is a condition is 0 or     *)
(* Ones.                                                                   *)
(***************************************************************************)
EXTENDS N64Words, Sequences

Lanes == 1..8

Ones == 2^H - 1
Mask(c) == IF c THEN Ones ELSE 0
Sl(v) == Signed(H, v)
Between(lo, hi, v) == IF v < lo THEN lo ELSE IF v > hi THEN hi ELSE v
SatS(v) == Fit(H, Between(-(2^(H - 1)), 2^(H - 1) - 1, v))
SatU(v) == Between(0, Ones, v)
And(a, b) == AndTable[a][b]
Or(a, b) == a + b - And(a, b)
Xor(a, b) == a + b - 2 * And(a, b)
Not(a) == Ones - a
Lesser(a, b) == IF Sl(a) < Sl(b) THEN a ELSE b
Greater(a, b) == IF Sl(a) < Sl(b) THEN b ELSE a
\* By bytes, on the top bit of each.
Blend(a, b, c) ==
  LET Byte(k) == IF Shr(H, c, (k + 1) * BYTE - 1) % 2 = 1 THEN Shr(H, b, k * BYTE) ELSE Shr(H, a, k * BYTE)
  IN  Fit(BYTE, Byte(0)) + 2^BYTE * Fit(BYTE, Byte(1))
Dword(v, k) == v[2 * k - 1] + 2^H * Sl(v[2 * k])
\* Byte i of a vector in memory: lane i / 2, the low half of it when i is even.
GetByte(val, i) == Fit(BYTE, Shr(H, val[i \div 2 + 1], (i % 2) * BYTE))
SetByte(val, i, b) ==
  LET l == val[i \div 2 + 1] IN
  [val EXCEPT ![i \div 2 + 1] =
     IF i % 2 = 0 THEN l - Fit(BYTE, l) + Fit(BYTE, b) ELSE Fit(BYTE, l) + 2^BYTE * Fit(BYTE, b)]
ByteSwap == [i \in 0..15 |-> IF i % 2 = 0 THEN i + 1 ELSE i - 1]     \* i ^ 1
Swapped(val) ==
  [i \in Lanes |-> 2^BYTE * Fit(BYTE, val[i]) + Shr(H, val[i], BYTE)]

\* Which lane the lane i (from 0) comes from when element e is broadcast.
Broadcast(e, i) ==
  CASE e < 2 -> i
    [] e \in 2..3 -> 2 * (i \div 2) + e - 2
    [] e \in 4..7 -> 4 * (i \div 4) + e - 4
    [] OTHER -> e - 8
Broadcasted(val, e) == [i \in Lanes |-> val[Broadcast(e, i - 1) + 1]]

\* The constants of the code at the width of a lane.
SignMask == 2^(H - 1)                     \* 0x8000
Fifth == H \div 4 + 1                     \* bit 5 of a halfword
Thirty2 == 2^Fifth                        \* 32
KeepHigh == Ones - (2^(H \div 4) - 1)     \* ~0xF
lfv_table == <<0, 6, 1, 7, 2, 4, 3, 5>>
\* The lanes sfv takes for an element, counted from 0; none for the others.
SfvElements(e) ==
  CASE e \in {0, 15} -> <<0, 1, 2, 3>> [] e = 1 -> <<6, 7, 4, 5>> [] e = 4 -> <<1, 2, 3, 0>>
    [] e = 5 -> <<7, 4, 5, 6>> [] e = 8 -> <<4, 5, 6, 7>> [] e = 11 -> <<3, 0, 1, 2>>
    [] e = 12 -> <<5, 6, 7, 4>> [] OTHER -> <<>>
=============================================================================
