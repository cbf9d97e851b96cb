--------------------------- MODULE MCN64RspLockstep ---------------------------
EXTENDS N64RspLockstep, TLC

MCVolatile == <<"rdi", "rsi", "r8", "r9", "r10", "r11">>
MCNonVolatile == <<>>
MCArgRegs == <<"rdi", "rsi">>
MCVecVolatile == <<"x3", "x4", "x5", "x6", "x7", "x8", "x9", "x10", "x11", "x12", "x13", "x14">>
MCVecGuests == 1..8 \cup 33..35
MCJunkVec == <<9, 6, 3, 12, 5, 10, 2, 13>>
MCRcp(v) == (7 * v + 91) % 2^W
MCRsq(v) == (3 * v + 44) % 2^W

Vec(F(_)) == [i \in Lanes |-> F(i)]
\* Input k of the vector unit: over the 32 of them lane by lane every pair of
\* halfwords, with slices of the accumulator near their boundaries.
Vectors(k) ==
  [a |-> Vec(LAMBDA i : (8 * k + i) % 16), b |-> Vec(LAMBDA i : (8 * k + i - 1) \div 16),
   lo |-> Vec(LAMBDA i : (11 * i + 5 * k) % 16), mid |-> Vec(LAMBDA i : (i * i + 7 * k) % 16),
   hi |-> Vec(LAMBDA i : <<0, 15, 8, 7, 1>>[((i + k) % 5) + 1]),
   co |-> Vec(LAMBDA i : Mask((i + k) % 2 = 0)), cox |-> Vec(LAMBDA i : Mask((i + k \div 2) % 3 = 0)),
   cc |-> Vec(LAMBDA i : Mask((i \div 2 + k) % 2 = 0)), ccx |-> Vec(LAMBDA i : Mask((i \div 4 + k) % 2 = 0)),
   ce |-> Vec(LAMBDA i : Mask((i \div 2 + k) % 3 = 0))]
MCInputs ==
  {With(Vectors(5), [unit |-> "scalar", x |-> v[1], y |-> v[2]]) :
     v \in {<<0, 7>>, <<127, 128>>, <<128, 127>>, <<255, 255>>, <<31, 90>>, <<29, 165>>, <<13, 200>>,
            <<22, 1>>}}
  \cup {With(Vectors(k), [unit |-> "vector", x |-> 3, y |-> 5]) : k \in 0..31}
None == [g \in {} |-> "rax"]
MCAllocations ==
  {[next_free |-> 1, bound |-> None, vnext_free |-> 1, vbound |-> None],
   [next_free |-> 7, bound |-> (1 :> "rdi" @@ 2 :> "r8"), vnext_free |-> 13,
    vbound |-> (33 :> "x6" @@ 34 :> "x7" @@ 35 :> "x8" @@ 2 :> "x3" @@ 3 :> "x10")]}
=============================================================================
