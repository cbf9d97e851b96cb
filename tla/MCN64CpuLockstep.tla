-------------------------- MODULE MCN64CpuLockstep --------------------------
EXTENDS N64CpuLockstep, TLC

MCVolatile == <<"rcx", "rdx", "rdi", "rsi", "r8">>
MCNonVolatile == <<>>
MCArgRegs == <<"rdi", "rsi">>
\* The sign boundaries of a word and of a doubleword, and values whose two
\* halves differ; equal, ordered both ways, of both signs.
MCValues ==
  {<<0, 7>>, <<7, 1>>, <<1, 8>>, <<8, 255>>, <<255, 128>>, <<128, 255>>, <<90, 165>>,
   <<165, 165>>, <<135, 16>>}
MCImms == {-2, -1, 1}
None == [g \in {} |-> "rax"]
MCAllocations ==
  {[aligned |-> TRUE, next_free |-> 6, bound |-> None],
   [aligned |-> TRUE, next_free |-> 6, bound |-> (1 :> "rdx" @@ 2 :> "rdi")],
   [aligned |-> FALSE, next_free |-> 6, bound |-> (2 :> "rcx")],
   [aligned |-> TRUE, next_free |-> 1, bound |-> None]}

\* A float is four bits and a double eight: their kinds are the bits below the sign, so
\* that k and 17 * k are of one kind.  Each kind as the first and as the second operand.
Kinds == {0, 17, 34, 51, 68, 80, 102, 119, 186}
MCFpValues ==
  {<<51, 34>>} \cup {<<v, 34>> : v \in {0, 17, 68, 80, 119, 186}}
  \cup {<<34, v>> : v \in {17, 34, 102, 119}}
Control(rm, enable, fs, c) ==
  [rm |-> rm, flag |-> {}, enable |-> enable, cause |-> {"invalid"}, c |-> c, fs |-> fs]
MCControlWords ==
  {Control(0, {}, FALSE, FALSE), Control(2, {}, TRUE, TRUE), Control(3, {"invalid"}, TRUE, FALSE),
   Control(1, {"inexact", "overflow", "div_zero"}, FALSE, TRUE),
   Control(2, {"underflow", "invalid"}, TRUE, FALSE)}
\* The kind and sign of a result, what raises it, what the upper lanes raise.
Computed(top, negative, raised, others) ==
  [top |-> top, negative |-> negative, int |-> 3, raised |-> raised, others |-> others]
MCHostResults ==
  {Computed(3, TRUE, {}, {}), Computed(2, FALSE, {"inexact"}, {}),
   Computed(5, FALSE, {"overflow", "inexact"}, {}), Computed(5, TRUE, {"div_zero"}, {}),
   Computed(7, FALSE, {"invalid"}, {}), Computed(1, TRUE, {}, {}), Computed(1, FALSE, {}, {}),
   Computed(0, FALSE, {"underflow", "inexact"}, {}), Computed(3, FALSE, {}, {"invalid"})}
=============================================================================
