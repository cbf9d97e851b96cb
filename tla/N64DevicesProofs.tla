-------------------------- MODULE N64DevicesProofs --------------------------
(***************************************************************************)
(* What holds of the devices for every value of their constants: theorems  *)
(* about N64Devices, a section for each device.                            *)
(***************************************************************************)
EXTENDS N64Devices, SequenceTheorems, NaturalsInduction, WellFoundedInduction, TLAPS

-----------------------------------------------------------------------------
(* Recursive functions, which the provers do not unfold by themselves.     *)

\* A set of numbers has a least element.
LEMMA HasLeast ==
  ASSUME NEW S \in SUBSET Nat, S # {}
  PROVE  \E m \in S : \A i \in S : m <= i
<1> DEFINE R == OpToRel(<, Nat)
<1>1. IsWellFoundedOn(R, Nat)
  BY NatLessThanWellFounded
<1>2. \A i, m \in Nat : i < m => <<i, m>> \in R
  BY DEF OpToRel
<1> HIDE DEF R
<1>3. PICK m \in S : \A i \in S : ~ (<<i, m>> \in R)
  BY <1>1, WFMin
<1>4. \A i \in S : ~ (i < m)
  BY <1>2, <1>3
<1>5. \A i \in S : m <= i
  BY <1>4
<1> QED BY <1>5

\* The data of a recursion over S with values in V: each turn that does not stop goes
\* on with a smaller argument.
Terminates(S, V, size, stop, next, base, comb) ==
  /\ size \in [S -> Nat] /\ stop \in [S -> BOOLEAN] /\ next \in [S -> S]
  /\ base \in [S -> V] /\ comb \in [S -> [V -> V]]
  /\ \A x \in S : ~ stop[x] => size[next[x]] < size[x]

\* Such a recursion defines a function, by induction on the size of its arguments.
LEMMA RecursionOnSize ==
  ASSUME NEW S, NEW V, NEW size, NEW stop, NEW next, NEW base, NEW comb,
         Terminates(S, V, size, stop, next, base, comb)
  PROVE  \E f \in [S -> V] :
           \A x \in S : f[x] = IF stop[x] THEN base[x] ELSE comb[x][f[next[x]]]
<1> USE DEF Terminates
<1> DEFINE Body(f) == [x \in S |-> IF stop[x] THEN base[x] ELSE comb[x][f[next[x]]]]
           Below(f, n) == \A x \in S : size[x] < n => f[x] = Body(f)[x]
<1>1. \A f \in [S -> V] : Body(f) \in [S -> V]
  OBVIOUS
<1>2. \A f \in [S -> V], n \in Nat : Below(f, n) => Below(Body(f), n + 1)
  <2> SUFFICES ASSUME NEW f \in [S -> V], NEW n \in Nat, Below(f, n),
                      NEW x \in S, size[x] < n + 1
               PROVE  Body(f)[x] = Body(Body(f))[x]
    OBVIOUS
  <2>1. CASE stop[x]
    BY <2>1
  <2>2. CASE ~ stop[x]
    <3>1. next[x] \in S /\ size[next[x]] \in Nat /\ size[x] \in Nat /\ size[next[x]] < n
      BY <2>2
    <3>2. f[next[x]] = Body(f)[next[x]]
      BY <3>1
    <3> QED BY <2>2, <3>2, <3>1
  <2> QED BY <2>1, <2>2
<1>3. \A n \in Nat : \E f \in [S -> V] : Below(f, n)
  <2> DEFINE Bad == {n \in Nat : ~ \E f \in [S -> V] : Below(f, n)}
  <2> SUFFICES ASSUME Bad # {} PROVE FALSE
    OBVIOUS
  <2>1. PICK n \in Bad : \A i \in Bad : n <= i
    <3> HIDE DEF Bad
    <3>1. Bad \in SUBSET Nat
      BY DEF Bad
    <3> QED BY <3>1, HasLeast
  <2>2. CASE n = 0
    <3>1. Below(base, 0)
      BY DEF Below
    <3> QED BY <2>2, <3>1
  <2>3. CASE n # 0
    <3>0. n \in Nat /\ n - 1 \in Nat /\ ~ (n <= n - 1)
      BY <2>3
    <3>1. n - 1 \in Nat /\ n - 1 \notin Bad
      <4> HIDE DEF Bad
      <4> QED BY <3>0, <2>1
    <3>2. PICK f \in [S -> V] : Below(f, n - 1)
      BY <3>1
    <3>3. Below(Body(f), n - 1 + 1)
      <4> HIDE DEF Below, Body
      <4> QED BY <3>1, <3>2, <1>2
    <3>4. Below(Body(f), n)
      <4>1. n - 1 + 1 = n
        BY <2>1
      <4> HIDE DEF Below, Body
      <4> QED BY <3>3, <4>1
    <3>5. Body(f) \in [S -> V]
      BY <1>1
    <3> HIDE DEF Below, Body
    <3> QED BY <3>4, <3>5, <2>1
  <2> QED BY <2>2, <2>3
<1>4. ASSUME NEW f \in [S -> V], NEW g \in [S -> V], NEW n \in Nat,
             Below(f, n), Below(g, n), NEW z \in S, size[z] < n
      PROVE  f[z] = g[z]
  <2> DEFINE Bad == {k \in Nat : \E x \in S : size[x] = k /\ k < n /\ f[x] # g[x]}
  <2> SUFFICES ASSUME f[z] # g[z] PROVE FALSE
    OBVIOUS
  <2>1. size[z] \in Bad
    BY <1>4
  <2>2. PICK m \in Bad : \A i \in Bad : m <= i
    <3>1. Bad \in SUBSET Nat
      OBVIOUS
    <3> HIDE DEF Bad
    <3> QED BY <2>1, <3>1, HasLeast
  <2>3. PICK x \in S : size[x] = m /\ m < n /\ f[x] # g[x]
    OBVIOUS
  <2>4. CASE stop[x]
    BY <1>4, <2>3, <2>4
  <2>5. CASE ~ stop[x]
    <3>1. next[x] \in S /\ size[next[x]] \in Nat /\ size[next[x]] < m /\ m \in Nat
      BY <2>3, <2>5
    <3>2. size[next[x]] < n
      BY <3>1, <2>3
    <3>3. size[next[x]] \notin Bad
      <4> HIDE DEF Bad
      <4> QED BY <3>1, <2>2
    <3>4. f[next[x]] = g[next[x]]
      BY <3>1, <3>2, <3>3
    <3> QED BY <1>4, <2>3, <2>5, <3>4
  <2> QED BY <2>4, <2>5
<1> DEFINE G == [n \in Nat |-> CHOOSE f \in [S -> V] : Below(f, n)]
           F == [x \in S |-> G[size[x] + 1][x]]
<1>5. \A n \in Nat : G[n] \in [S -> V] /\ Below(G[n], n)
  <2> SUFFICES ASSUME NEW n \in Nat PROVE G[n] \in [S -> V] /\ Below(G[n], n)
    OBVIOUS
  <2>1. \E f \in [S -> V] : Below(f, n)
    BY <1>3
  <2>2. G[n] = CHOOSE f \in [S -> V] : Below(f, n)
    OBVIOUS
  <2> HIDE DEF G, Below
  <2> QED BY <2>1, <2>2
<1> HIDE DEF G
<1>6. F \in [S -> V]
  BY <1>5
<1>7. \A x \in S : F[x] = IF stop[x] THEN base[x] ELSE comb[x][F[next[x]]]
  <2> SUFFICES ASSUME NEW x \in S
               PROVE  F[x] = IF stop[x] THEN base[x] ELSE comb[x][F[next[x]]]
    OBVIOUS
  <2>1. size[x] \in Nat /\ size[x] + 1 \in Nat
    OBVIOUS
  <2>2. G[size[x] + 1][x] = Body(G[size[x] + 1])[x]
    BY <2>1, <1>5
  <2>3. CASE stop[x]
    BY <2>2, <2>3
  <2>4. CASE ~ stop[x]
    <3> DEFINE y == next[x]  m == size[y] + 1  n == size[x] + 1
    <3>1. y \in S /\ size[y] \in Nat /\ size[y] < size[x] /\ m \in Nat /\ n \in Nat
      BY <2>4, <2>1
    <3>2. Below(G[n], n) /\ Below(G[m], m) /\ G[n] \in [S -> V] /\ G[m] \in [S -> V]
      <4> HIDE DEF Below, m, n
      <4> QED BY <3>1, <1>5
    <3>4. Below(G[n], m)
      <4>1. \A v \in S : size[v] < m => size[v] < n
        BY <3>1
      <4> HIDE DEF m, n, Body
      <4> QED BY <3>2, <4>1
    <3>3. G[n][y] = G[m][y]
      <4>1. size[y] < m
        BY <3>1
      <4> HIDE DEF Below, m, n, y
      <4> QED BY <4>1, <3>1, <3>2, <3>4, <1>4
    <3> QED BY <2>2, <2>4, <3>3, <3>1
  <2> QED BY <2>3, <2>4
<1> HIDE DEF F
<1> QED BY <1>6, <1>7

\* What holds of each argument when it holds of the smaller ones holds of all.
LEMMA InductionOnSize ==
  ASSUME NEW S, NEW size \in [S -> Nat], NEW T,
         \A x \in S : (\A y \in S : size[y] < size[x] => y \in T) => x \in T
  PROVE  S \subseteq T
<1> DEFINE Bad == {k \in Nat : \E x \in S : size[x] = k /\ x \notin T}
<1> SUFFICES ASSUME NEW z \in S, z \notin T PROVE FALSE
  OBVIOUS
<1>1. size[z] \in Bad /\ Bad \in SUBSET Nat
  OBVIOUS
<1>2. PICK m \in Bad : \A i \in Bad : m <= i
  <2> HIDE DEF Bad
  <2> QED BY <1>1, HasLeast
<1>3. PICK x \in S : size[x] = m /\ x \notin T
  OBVIOUS
<1>4. ASSUME NEW y \in S, size[y] < size[x]
      PROVE  y \in T
  <2>1. size[y] \in Nat /\ m \in Nat /\ ~ (m <= size[y])
    BY <1>3, <1>4
  <2>2. size[y] \notin Bad
    <3> HIDE DEF Bad
    <3> QED BY <1>2, <2>1
  <2> QED BY <2>1, <2>2
<1> QED BY <1>3, <1>4

-----------------------------------------------------------------------------
(* The video interface.                                                    *)

ViTypeOK ==
  /\ v_current \in Nat /\ v_sync \in Nat \ {0, 1} /\ v_intr \in Nat
  /\ int_enable \in BOOLEAN /\ interlaced \in BOOLEAN /\ undisturbed \in BOOLEAN
  /\ hits \in Nat

ViInv == ViTypeOK /\ OneInterruptPerField

\* The comparison under the mask, and the lines that it lets pass.
LEMMA MaskedLine ==
  ASSUME NEW line \in Nat, NEW intr \in Nat, NEW sync \in Nat
  PROVE  /\ (line = intr \/ (sync % 2 = 1 /\ intr \in {2 * (line \div 2), 2 * (line \div 2) + 1}))
              <=> IF sync % 2 = 0 THEN line = intr ELSE line \div 2 = intr \div 2
         /\ (IF sync % 2 = 0 THEN line = intr ELSE line \div 2 = intr \div 2)
              => line \div 2 = intr \div 2
<1>1. sync % 2 \in {0, 1}
  OBVIOUS
<1>2. line \div 2 = intr \div 2 <=> intr \in {2 * (line \div 2), 2 * (line \div 2) + 1}
  OBVIOUS
<1>3. line = intr => line \div 2 = intr \div 2
  OBVIOUS
<1> QED BY <1>1, <1>2, <1>3

\* The lines of the field at which the interrupt is asked for are those that match.
LEMMA AskedMatches ==
  ASSUME ViTypeOK
  PROVE  /\ Asked = {line \in Field : Matches(line)}
         /\ \A line \in Field : line \in Nat /\ line % 2 = v_current % 2
         /\ \A line \in Field : Matches(line) => line \div 2 = v_intr \div 2
<1>1. \A line \in Field : line \in Nat /\ line % 2 = v_current % 2
  BY DEF ViTypeOK, Field
<1>2. v_intr \in Nat /\ v_sync \in Nat
  BY DEF ViTypeOK
<1>3. \A line \in Field :
        /\ (line = v_intr \/ (v_sync % 2 = 1 /\ v_intr \in {2 * (line \div 2), 2 * (line \div 2) + 1}))
             <=> Matches(line)
        /\ Matches(line) => line \div 2 = v_intr \div 2
  BY <1>1, <1>2, MaskedLine DEF Matches
<1> QED BY <1>1, <1>3 DEF Asked

\* Two lines of a field are never both asked for.
LEMMA OneLineMatches ==
  ASSUME NEW a \in Nat, NEW b \in Nat, a % 2 = b % 2, a \div 2 = b \div 2
  PROVE  a = b
OBVIOUS

LEMMA HalflineStep ==
  ASSUME ViInv, OnNewHalfline
  PROVE  ViInv'
<1> DEFINE wraps == v_current + 2 >= v_sync
           raised == int_enable /\ Matches(v_current')
<1>1. /\ v_current \in Nat /\ v_sync \in Nat \ {0, 1} /\ v_intr \in Nat /\ hits \in Nat
      /\ v_sync' = v_sync /\ v_intr' = v_intr /\ int_enable' = int_enable
      /\ interlaced' = interlaced
  BY DEF ViInv, ViTypeOK, OnNewHalfline
<1>2. /\ v_current' = IF wraps THEN NextField(v_current % 2) ELSE v_current + 2
      /\ hits' = (IF wraps THEN 0 ELSE hits) + (IF raised THEN 1 ELSE 0)
      /\ undisturbed' = (undisturbed \/ wraps)
  BY DEF OnNewHalfline
<1>3. NextField(v_current % 2) \in {0, 1}
  BY <1>1 DEF NextField
<1>4. ViTypeOK'
  <2>1. v_current' \in Nat /\ hits' \in Nat
    BY <1>1, <1>2, <1>3
  <2>2. undisturbed' \in BOOLEAN
    BY <1>2
  <2> QED BY <1>1, <2>1, <2>2 DEF ViInv, ViTypeOK
<1>5. v_current' \in Field'
  BY <1>4 DEF ViTypeOK, Field
<1> HIDE DEF wraps, raised
<1>6. \A line \in Field' : Matches(line)' <=> Matches(line)
  BY <1>1 DEF Matches
<1>7. /\ Asked' = {line \in Field' : Matches(line)}
      /\ \A line \in Field' : line \in Nat /\ line % 2 = v_current' % 2
      /\ \A line \in Field' : Matches(line) => line \div 2 = v_intr \div 2
  <2>1. v_intr' \in Nat /\ v_sync' \in Nat /\ \A line \in Field' : line \in Nat /\ line % 2 = v_current' % 2
    <3>1. v_current' \in Nat /\ v_intr' \in Nat /\ v_sync' \in Nat
      BY <1>4 DEF ViTypeOK
    <3>2. \A line \in Field' : line \in 0 .. v_current' /\ line % 2 = v_current' % 2
      BY DEF Field
    <3>3. \A line \in Field' : line \in Nat
      BY <3>1, <3>2
    <3> QED BY <3>1, <3>2, <3>3
  <2>2. \A line \in Field' :
          /\ (line = v_intr' \/ (v_sync' % 2 = 1 /\ v_intr' \in {2 * (line \div 2), 2 * (line \div 2) + 1}))
               <=> Matches(line)
          /\ Matches(line) => line \div 2 = v_intr \div 2
    BY <1>1, <2>1, MaskedLine DEF Matches
  <2> QED BY <2>1, <2>2 DEF Asked
<1>8. OneInterruptPerField'
  <2> SUFFICES ASSUME undisturbed'
               PROVE  hits' <= 1 /\ (hits' = 1 <=> int_enable /\ Asked' # {})
    BY <1>1 DEF OneInterruptPerField
  <2>1. CASE wraps
    <3>1. Field' = {v_current'}
      BY <1>2, <1>3, <2>1 DEF Field
    <3>2. Asked' # {} <=> Matches(v_current')
      BY <1>7, <3>1
    <3>3. hits' = IF raised THEN 1 ELSE 0
      BY <1>2, <2>1
    <3> QED BY <3>2, <3>3 DEF raised
  <2>2. CASE ~ wraps
    <3>1. undisturbed
      BY <1>2, <2>2
    <3>2. v_current' = v_current + 2
      BY <1>2, <2>2
    <3>3. Field' = Field \cup {v_current'}
      BY <1>1, <3>2 DEF Field
    <3>4. hits \in {0, 1} /\ (hits = 1 <=> int_enable /\ Asked # {})
      BY <1>1, <3>1 DEF ViInv, OneInterruptPerField
    <3>5. Asked = {line \in Field : Matches(line)}
      BY AskedMatches DEF ViInv
    <3>6. v_current' \notin Field
      BY <1>1, <3>2 DEF Field
    <3>7. ASSUME raised
          PROVE  Asked = {}
      <4> SUFFICES ASSUME NEW a \in Asked
                   PROVE  FALSE
        OBVIOUS
      <4>1. a \in Field' /\ a \in Field /\ Matches(a) /\ Matches(v_current')
        BY <3>3, <3>5, <3>7 DEF raised
      <4>2. a = v_current'
        BY <1>5, <1>7, <4>1, OneLineMatches
      <4> QED BY <3>6, <4>1, <4>2
    <3>8. Asked' # {} <=> Asked # {} \/ Matches(v_current')
      BY <1>7, <3>3, <3>5
    <3>9. hits' = hits + (IF raised THEN 1 ELSE 0)
      BY <1>2, <2>2
    <3>10. CASE raised
      BY <3>4, <3>7, <3>8, <3>9, <3>10 DEF raised
    <3>11. CASE ~ raised
      BY <3>4, <3>8, <3>9, <3>11 DEF raised
    <3> QED BY <3>10, <3>11
  <2> QED BY <2>1, <2>2
<1> QED BY <1>4, <1>8 DEF ViInv

LEMMA ViStep ==
  ASSUME ViInv, ViNext \/ UNCHANGED viOwn
  PROVE  ViInv'
<1>1. CASE OnNewHalfline
  BY <1>1, HalflineStep
<1>2. CASE WriteCtrl \/ WriteVIntr \/ WriteVSync
  <2>1. undisturbed' = FALSE
    BY <1>2 DEF WriteCtrl, WriteVIntr, WriteVSync, Disturbed
  <2>2. OneInterruptPerField'
    BY <2>1 DEF OneInterruptPerField
  <2>3. ViTypeOK'
    <3>1. CASE WriteCtrl
      BY <2>1, <3>1 DEF ViInv, ViTypeOK, WriteCtrl
    <3>2. CASE WriteVIntr
      BY <2>1, <3>2, ViAssumption DEF ViInv, ViTypeOK, WriteVIntr
    <3>3. CASE WriteVSync
      BY <2>1, <3>3, ViAssumption DEF ViInv, ViTypeOK, WriteVSync
    <3> QED BY <1>2, <3>1, <3>2, <3>3
  <2> QED BY <2>2, <2>3 DEF ViInv
<1>3. CASE WriteVCurrent \/ UNCHANGED viOwn
  <2>1. /\ v_current' = v_current /\ v_sync' = v_sync /\ v_intr' = v_intr
        /\ int_enable' = int_enable /\ interlaced' = interlaced
        /\ hits' = hits /\ undisturbed' = undisturbed
    BY <1>3 DEF WriteVCurrent, viOwn
  <2>2. Asked' = Asked
    BY <2>1 DEF Asked, Field
  <2> QED BY <2>1, <2>2 DEF ViInv, ViTypeOK, OneInterruptPerField
<1> QED BY <1>1, <1>2, <1>3 DEF ViNext

-----------------------------------------------------------------------------
(* The serial interface.                                                   *)

SiTypeOK ==
  /\ finish_events \in Nat
  /\ dma_busy \in BOOLEAN /\ interrupt \in BOOLEAN /\ doubled \in BOOLEAN
SiInv == SiTypeOK /\ SiEventMatchesBusy

LEMMA StartDmaStep ==
  ASSUME SiInv, StartDma
  PROVE  SiInv'
BY DEF SiInv, SiTypeOK, SiEventMatchesBusy, StartDma

LEMMA SiStep ==
  ASSUME SiInv, SiNext \/ UNCHANGED siOwn
  PROVE  SiInv'
<1>1. CASE ReadAnswer \/ SendList
  BY <1>1, StartDmaStep DEF ReadAnswer, SendList, PifToRdram, RdramToPif
<1>2. CASE OnDmaFinish
  <2>1. /\ finish_events > 0 /\ finish_events' = finish_events - 1
        /\ dma_busy' = FALSE /\ interrupt' = TRUE /\ doubled' = doubled
    BY <1>2 DEF OnDmaFinish
  <2>2. ~ doubled => finish_events \in {0, 1}
    BY DEF SiInv, SiEventMatchesBusy
  <2>3. finish_events \in Nat /\ doubled \in BOOLEAN
    BY DEF SiInv, SiTypeOK
  <2>4. SiTypeOK'
    <3>1. dma_busy' \in BOOLEAN /\ interrupt' \in BOOLEAN /\ doubled' \in BOOLEAN
      BY <2>1, <2>3, Zenon
    <3>2. finish_events' \in Nat
      BY <2>1, <2>3
    <3> QED BY <3>1, <3>2 DEF SiTypeOK
  <2>5. ~ dma_busy'
    BY <2>1
  <2>6. ~ doubled' => finish_events' = 0
    BY <2>1, <2>2, <2>3
  <2>7. SiEventMatchesBusy'
    BY <2>5, <2>6 DEF SiEventMatchesBusy
  <2> QED BY <2>4, <2>7 DEF SiInv
<1>3. CASE WriteStatus
  BY <1>3 DEF SiInv, SiTypeOK, SiEventMatchesBusy, WriteStatus
<1>4. CASE WriteSiDramAddr \/ WritePif \/ Play \/ UNCHANGED siOwn
  <2>1. UNCHANGED siStatus
    BY <1>4 DEF WriteSiDramAddr, WritePif, Play, siOwn, siStatus
  <2> QED BY <2>1 DEF SiInv, SiTypeOK, SiEventMatchesBusy, siStatus
<1> QED BY <1>1, <1>2, <1>3, <1>4 DEF SiNext

-----------------------------------------------------------------------------
(* The answers of the PIF.                                                 *)

Ram == [0 .. RamSize - 1 -> Byte]

Pads == [a : 0 .. 1, s : 0 .. 1, l : 0 .. 1, r : 0 .. 1, rst : 0 .. 1, x : Byte, y : Byte]

PadOk(pad) == pad \in Pads /\ (pad.rst = 1 => (pad.l = 1 /\ pad.r = 1))

LEMMA PadBytes ==
  ASSUME NEW pad, PadOk(pad)
  PROVE  /\ JoypadBytes(pad) \in Seq(Byte) /\ Len(JoypadBytes(pad)) = 4
         /\ JoypadBytes(pad)[2] \in {0, 16, 32, 48, 176}
<1>1. /\ pad.a \in 0 .. 1 /\ pad.s \in 0 .. 1 /\ pad.l \in 0 .. 1 /\ pad.r \in 0 .. 1
      /\ pad.rst \in 0 .. 1 /\ pad.x \in Byte /\ pad.y \in Byte
      /\ pad.rst = 1 => (pad.l = 1 /\ pad.r = 1)
  BY DEF PadOk, Pads
<1>2. 128 * pad.a + 16 * pad.s \in Byte
  BY <1>1 DEF Byte
<1>3. 128 * pad.rst + 32 * pad.l + 16 * pad.r \in {0, 16, 32, 48, 176}
  BY <1>1
<1>4. 128 * pad.rst + 32 * pad.l + 16 * pad.r \in Byte
  BY <1>3 DEF Byte
<1> QED BY <1>1, <1>2, <1>3, <1>4 DEF JoypadBytes

\* An answer is stored where it belongs and nowhere else.
IsStored(new, m, at, bytes) ==
  /\ new \in Ram
  /\ \A i \in 0 .. RamSize - 1 : i < at => new[i] = m[i]
  /\ \A i \in 0 .. RamSize - 1 : i \in at .. at + Len(bytes) - 1 => new[i] = bytes[i - at + 1]

LEMMA StoredFacts ==
  ASSUME NEW m \in Ram, NEW at \in Nat, NEW bytes \in Seq(Byte)
  PROVE  IsStored(Stored(m, at, bytes), m, at, bytes)
<1>1. DOMAIN m = 0 .. RamSize - 1 /\ Len(bytes) \in Nat
  BY DEF Ram
<1>2. ASSUME NEW i \in 0 .. RamSize - 1, i \in at .. at + Len(bytes) - 1
      PROVE  bytes[i - at + 1] \in Byte
  <2>1. i - at + 1 \in 1 .. Len(bytes)
    BY <1>1, <1>2 DEF RamSize
  <2> QED BY <2>1
<1>3. \A i \in 0 .. RamSize - 1 : m[i] \in Byte
  BY DEF Ram
<1>4. Stored(m, at, bytes) \in Ram
  BY <1>1, <1>2, <1>3 DEF Stored, Ram
<1>5. \A i \in 0 .. RamSize - 1 : i < at => i \notin at .. at + Len(bytes) - 1
  BY <1>1 DEF RamSize
<1> QED BY <1>1, <1>4, <1>5 DEF Stored, IsStored

LEMMA CommandFacts ==
  ASSUME PadOk(joypad), NEW m \in Ram, NEW cmd, NEW at \in Nat
  PROVE  /\ JoybusCommand(m, cmd, at) \in Ram
         /\ \A i \in 0 .. RamSize - 1 : i < at => JoybusCommand(m, cmd, at)[i] = m[i]
<1>1. ControllerId \in Seq(Byte)
  BY DEF ControllerId, Byte
<1>2. JoypadBytes(joypad) \in Seq(Byte)
  BY PadBytes
<1>3. CASE cmd \in {0, 255}
  <2>1. JoybusCommand(m, cmd, at) = Stored(m, at, ControllerId)
    BY <1>3 DEF JoybusCommand
  <2>2. IsStored(Stored(m, at, ControllerId), m, at, ControllerId)
    BY <1>1, StoredFacts
  <2> QED BY <2>1, <2>2 DEF IsStored
<1>4. CASE cmd = 1
  <2>1. JoybusCommand(m, cmd, at) = Stored(m, at, JoypadBytes(joypad))
    BY <1>4 DEF JoybusCommand
  <2>2. IsStored(Stored(m, at, JoypadBytes(joypad)), m, at, JoypadBytes(joypad))
    BY <1>2, StoredFacts
  <2> QED BY <2>1, <2>2 DEF IsStored
<1>5. CASE cmd \notin {0, 1, 255}
  <2>1. JoybusCommand(m, cmd, at) = m
    BY <1>5 DEF JoybusCommand
  <2> QED BY <2>1
<1> QED BY <1>3, <1>4, <1>5

LEMMA ByteModulo == \A x \in Byte : x % 64 \in 0 .. 63
BY DEF Byte

LEMMA WalkFields ==
  ASSUME NEW w \in Walks
  PROVE  w.m \in Ram /\ w.channel \in 0 .. 5 /\ w.offset \in 0 .. RamSize + 2
BY DEF Walks, Ram

\* The walk goes forward, and a command only changes bytes that are still to be read.
LEMMA WalkGoesOn ==
  ASSUME PadOk(joypad), NEW w \in Walks, ~ Ended(w)
  PROVE  /\ NextOf(w) \in Walks /\ NextOf(w).offset > w.offset
         /\ w.offset \in 0 .. RamSize - 1
         /\ \A i \in 0 .. RamSize - 1 : i < w.offset + 2 => NextOf(w).m[i] = w.m[i]
<1>1. /\ w.m \in Ram /\ w.channel \in 0 .. 4 /\ w.offset \in 0 .. RamSize - 1
      /\ w.m[w.offset] \in Byte
  BY WalkFields DEF Ended, Ram, RamSize
<1>2. CASE w.m[w.offset] \in {0, 253}
  <2>1. NextOf(w) = [m |-> w.m, channel |-> w.channel + 1, offset |-> w.offset + 1]
    <3>1. NextOf(w) = [w EXCEPT !.channel = @ + 1, !.offset = @ + 1]
      BY <1>2 DEF NextOf
    <3> QED BY <3>1 DEF Walks
  <2> QED BY <1>1, <2>1 DEF Walks, Ram, RamSize
<1>3. CASE w.m[w.offset] = 255
  <2>1. NextOf(w) = [m |-> w.m, channel |-> w.channel, offset |-> w.offset + 1]
    BY <1>3 DEF NextOf, Walks
  <2> QED BY <1>1, <2>1 DEF Walks, Ram, RamSize
<1>4. CASE w.m[w.offset] \notin {0, 253, 255}
  <2> DEFINE cmd == w.m[w.offset + 2]
             at == w.offset + 2 + (w.m[w.offset] % 64)
             served == JoybusCommand(w.m, cmd, at)
             channel == w.channel + (IF cmd \in {0, 1, 255} THEN 1 ELSE 0)
  <2>1. NextOf(w) = [m |-> served, channel |-> channel, offset |-> w.offset + 3]
    BY <1>4 DEF NextOf, AfterCommand
  <2>2. at \in Nat /\ at >= w.offset + 2
    <3>1. w.m[w.offset] % 64 \in 0 .. 63
      BY <1>1, ByteModulo
    <3> QED BY <1>1, <3>1 DEF RamSize
  <2>3. channel \in 0 .. 5
    BY <1>1
  <2> HIDE DEF at, cmd, channel
  <2>4. served \in Ram /\ \A i \in 0 .. RamSize - 1 : i < at => served[i] = w.m[i]
    BY <1>1, <2>2, CommandFacts
  <2>5. \A i \in 0 .. RamSize - 1 : i < w.offset + 2 => i < at
    BY <1>1, <2>2 DEF RamSize
  <2> HIDE DEF served
  <2> QED BY <1>1, <2>1, <2>3, <2>4, <2>5 DEF Walks, Ram, RamSize
<1> QED BY <1>2, <1>3, <1>4

\* One turn of the loop of RunJoybusProtocol.
LEMMA WalkTurn ==
  ASSUME PadOk(joypad)
  PROVE  /\ Walk \in [Walks -> Ram]
         /\ \A w \in Walks : Walk[w] = IF Ended(w) THEN w.m ELSE Walk[NextOf(w)]
<1> DEFINE Body(f) == [w \in Walks |-> IF Ended(w) THEN w.m ELSE f[NextOf(w)]]
           stop == [w \in Walks |-> Ended(w)]
           size == [w \in Walks |-> RamSize + 2 - w.offset]
           next == [w \in Walks |-> IF Ended(w) THEN w ELSE NextOf(w)]
           base == [w \in Walks |-> w.m]
           comb == [w \in Walks |-> [v \in Ram |-> v]]
<1>1. stop \in [Walks -> BOOLEAN]
  BY DEF Ended
<1>2. size \in [Walks -> Nat]
  BY WalkFields DEF RamSize
<1>3. next \in [Walks -> Walks]
  BY WalkGoesOn
<1>4. base \in [Walks -> Ram] /\ comb \in [Walks -> [Ram -> Ram]]
  BY WalkFields
<1>5. \A w \in Walks : ~ stop[w] => size[next[w]] < size[w]
  <2> SUFFICES ASSUME NEW w \in Walks, ~ Ended(w)
               PROVE  RamSize + 2 - NextOf(w).offset < RamSize + 2 - w.offset
    BY <1>3
  <2>1. NextOf(w) \in Walks /\ NextOf(w).offset > w.offset
    BY WalkGoesOn
  <2>2. NextOf(w).offset \in 0 .. RamSize + 2 /\ w.offset \in 0 .. RamSize + 2
    BY <2>1, WalkFields
  <2> QED BY <2>1, <2>2 DEF RamSize
<1>6. PICK f \in [Walks -> Ram] :
        \A w \in Walks : f[w] = IF stop[w] THEN base[w] ELSE comb[w][f[next[w]]]
  <2> HIDE DEF stop, size, next, base, comb, Body
  <2>1. Terminates(Walks, Ram, size, stop, next, base, comb)
    BY <1>1, <1>2, <1>3, <1>4, <1>5 DEF Terminates
  <2> QED BY <2>1, RecursionOnSize
<1>7. f = Body(f)
  <2> SUFFICES ASSUME NEW w \in Walks PROVE f[w] = Body(f)[w]
    OBVIOUS
  <2>1. CASE Ended(w)
    BY <1>6, <2>1
  <2>2. CASE ~ Ended(w)
    <3>1. next[w] = NextOf(w) /\ next[w] \in Walks /\ ~ stop[w]
      BY <1>3, <2>2
    <3>2. f[w] = comb[w][f[next[w]]] /\ f[next[w]] \in Ram
      BY <1>6, <3>1
    <3> QED BY <2>2, <3>1, <3>2
  <2> QED BY <2>1, <2>2
<1>8. Walk = Body(Walk)
  <2>1. Walk = CHOOSE g : g = Body(g)
    BY DEF Walk
  <2> HIDE DEF Body
  <2> QED BY <1>7, <2>1
<1>9. \A w \in Walks : Walk[w] = IF Ended(w) THEN w.m ELSE Walk[NextOf(w)]
  <2> SUFFICES ASSUME NEW w \in Walks
               PROVE  Walk[w] = IF Ended(w) THEN w.m ELSE Walk[NextOf(w)]
    OBVIOUS
  <2>1. Walk[w] = Body(Walk)[w]
    BY <1>8
  <2> QED BY <2>1
<1>10. \A w \in Walks : Walk[w] \in Ram
  <2> DEFINE T == {w \in Walks : Walk[w] \in Ram}
  <2>1. ASSUME NEW w \in Walks, \A y \in Walks : size[y] < size[w] => y \in T
        PROVE  w \in T
    <3>1. CASE Ended(w)
      BY <1>9, <3>1, WalkFields
    <3>2. CASE ~ Ended(w)
      <4>1. NextOf(w) \in Walks /\ size[NextOf(w)] < size[w]
        BY <1>3, <1>5, <3>2
      <4> HIDE DEF size
      <4>2. NextOf(w) \in T
        BY <2>1, <4>1
      <4> QED BY <1>9, <3>2, <4>2
    <3> QED BY <3>1, <3>2
  <2> HIDE DEF T, size
  <2>2. Walks \subseteq T
    BY <1>2, <2>1, InductionOnSize
  <2> QED BY <2>2 DEF T
<1>11. Walk \in [Walks -> Ram]
  <2>1. Walk = [w \in Walks |-> Walk[w]]
    BY <1>8
  <2> HIDE DEF Body
  <2> QED BY <1>10, <2>1
<1> QED BY <1>9, <1>11

\* The walk keeps what it has read.
LEMMA WalkKeeps ==
  ASSUME PadOk(joypad)
  PROVE  \A w \in Walks : \A i \in 0 .. RamSize - 1 : i < w.offset + 2 => Walk[w][i] = w.m[i]
<1> DEFINE size == [w \in Walks |-> RamSize + 2 - w.offset]
           Keeps(w) == \A i \in 0 .. RamSize - 1 : i < w.offset + 2 => Walk[w][i] = w.m[i]
           T == {w \in Walks : Keeps(w)}
<1>1. size \in [Walks -> Nat]
  BY WalkFields DEF RamSize
<1>2. ASSUME NEW w \in Walks, \A y \in Walks : size[y] < size[w] => y \in T
      PROVE  w \in T
  <2>1. CASE Ended(w)
    BY <2>1, WalkTurn
  <2>2. CASE ~ Ended(w)
    <3> DEFINE y == NextOf(w)
    <3>1. /\ y \in Walks /\ y.offset > w.offset
          /\ \A i \in 0 .. RamSize - 1 : i < w.offset + 2 => y.m[i] = w.m[i]
      BY <2>2, WalkGoesOn
    <3>2. Walk[w] = Walk[y]
      BY <2>2, WalkTurn
    <3> HIDE DEF y
    <3>3. y.offset \in 0 .. RamSize + 2 /\ w.offset \in 0 .. RamSize + 2
      BY <3>1, WalkFields
    <3>4. size[y] < size[w]
      BY <3>1, <3>3 DEF RamSize
    <3>5. Keeps(y)
      BY <1>2, <3>1, <3>4
    <3>6. \A i \in 0 .. RamSize - 1 : i < w.offset + 2 => i < y.offset + 2
      BY <3>1, <3>3 DEF RamSize
    <3>7. Keeps(w)
      BY <3>1, <3>2, <3>5, <3>6
    <3> QED BY <3>7
  <2> QED BY <2>1, <2>2
<1> HIDE DEF T, size
<1>3. Walks \subseteq T
  BY <1>1, <1>2, InductionOnSize
<1> QED BY <1>3 DEF T

\* Clearing a bit of a byte other than the lowest.
LEMMA Masks ==
  \A v \in Byte :
    /\ Without(2, v) \in Byte /\ (Bit(1, Without(2, v)) <=> Bit(1, v))
    /\ Without(8, v) \in Byte /\ (Bit(1, Without(8, v)) <=> Bit(1, v))
    /\ Without(16, v) \in Byte /\ (Bit(1, Without(16, v)) <=> Bit(1, v))
    /\ Without(32, v) \in Byte /\ (Bit(1, Without(32, v)) <=> Bit(1, v))
    /\ ~ Bit(128, v) => (v + 128 \in Byte /\ (Bit(1, v + 128) <=> Bit(1, v)))
<1> SUFFICES ASSUME NEW v \in Byte
             PROVE /\ Without(2, v) \in Byte /\ (Bit(1, Without(2, v)) <=> Bit(1, v))
                   /\ Without(8, v) \in Byte /\ (Bit(1, Without(8, v)) <=> Bit(1, v))
                   /\ Without(16, v) \in Byte /\ (Bit(1, Without(16, v)) <=> Bit(1, v))
                   /\ Without(32, v) \in Byte /\ (Bit(1, Without(32, v)) <=> Bit(1, v))
                   /\ ~ Bit(128, v) => (v + 128 \in Byte /\ (Bit(1, v + 128) <=> Bit(1, v)))
  OBVIOUS
<1>1. v \in 0 .. 255
  BY DEF Byte
<1>2. Without(2, v) \in Byte /\ (Bit(1, Without(2, v)) <=> Bit(1, v))
  BY <1>1 DEF Without, Bit, Byte
<1>3. Without(8, v) \in Byte /\ (Bit(1, Without(8, v)) <=> Bit(1, v))
  BY <1>1 DEF Without, Bit, Byte
<1>4. Without(16, v) \in Byte /\ (Bit(1, Without(16, v)) <=> Bit(1, v))
  BY <1>1 DEF Without, Bit, Byte
<1>5. Without(32, v) \in Byte /\ (Bit(1, Without(32, v)) <=> Bit(1, v))
  BY <1>1 DEF Without, Bit, Byte
<1>6. ~ Bit(128, v) => (v + 128 \in Byte /\ (Bit(1, v + 128) <=> Bit(1, v)))
  BY <1>1 DEF Without, Bit, Byte
<1> QED BY <1>2, <1>3, <1>4, <1>5, <1>6

StartOf(m) == [m |-> m, channel |-> 0, offset |-> 0]

\* Unless they clear the RAM, the commands leave the command byte's lowest bit, and
\* change nothing else than the walk does.
LEMMA CommandsRun ==
  ASSUME PadOk(joypad), NEW m \in Ram
  PROVE  /\ RunCommands(m) \in Ram /\ RunJoybusProtocol(m) \in Ram
         /\ StartOf(m) \in Walks /\ RunJoybusProtocol(m) = Walk[StartOf(m)]
         /\ IsStateList(RunCommands(m)) =>
              \A i \in 0 .. CommandByte - 1 : RunCommands(m)[i] = RunJoybusProtocol(m)[i]
<1> DEFINE walked == IF Bit(1, m[CommandByte]) THEN RunJoybusProtocol(m) ELSE m
           served == Without(16, Without(8, Without(2, walked[CommandByte])))
           checked == IF Bit(32, served)
                      THEN Without(32, IF Bit(128, served) THEN served ELSE served + 128)
                      ELSE served
<1>1. StartOf(m) \in Walks /\ RunJoybusProtocol(m) = Walk[StartOf(m)]
  BY DEF StartOf, Walks, Ram, RamSize, RunJoybusProtocol
<1>2. RunJoybusProtocol(m) \in Ram
  BY <1>1, WalkTurn
<1>3. walked \in Ram /\ CommandByte \in 0 .. RamSize - 1 /\ CommandByte = 63
  BY <1>2 DEF CommandByte, RamSize
<1> HIDE DEF walked
<1>4. walked[CommandByte] \in Byte
  BY <1>3 DEF Ram
<1>5. served \in Byte /\ (Bit(1, served) <=> Bit(1, walked[CommandByte]))
  <2>1. Without(2, walked[CommandByte]) \in Byte
        /\ (Bit(1, Without(2, walked[CommandByte])) <=> Bit(1, walked[CommandByte]))
    BY <1>4, Masks
  <2>2. Without(8, Without(2, walked[CommandByte])) \in Byte
        /\ (Bit(1, Without(8, Without(2, walked[CommandByte]))) <=> Bit(1, walked[CommandByte]))
    BY <2>1, Masks
  <2> QED BY <2>2, Masks
<1> HIDE DEF served
<1>6. checked \in Byte /\ (Bit(1, checked) <=> Bit(1, walked[CommandByte]))
  <2>1. CASE Bit(32, served)
    <3> DEFINE with == IF Bit(128, served) THEN served ELSE served + 128
    <3>1. with \in Byte /\ (Bit(1, with) <=> Bit(1, served))
      BY <1>5, Masks
    <3>2. checked = Without(32, with)
      BY <2>1
    <3> HIDE DEF with, checked
    <3>3. Without(32, with) \in Byte /\ (Bit(1, Without(32, with)) <=> Bit(1, with))
      BY <3>1, Masks
    <3> QED BY <1>5, <3>1, <3>2, <3>3
  <2>2. CASE ~ Bit(32, served)
    BY <1>5, <2>2
  <2> QED BY <2>1, <2>2
<1>7. RunCommands(m) = IF Bit(64, checked) THEN Zeros
                       ELSE [walked EXCEPT ![CommandByte] = checked]
  BY DEF RunCommands, walked, served, checked
<1> HIDE DEF checked
<1>8. Zeros \in Ram /\ [walked EXCEPT ![CommandByte] = checked] \in Ram
  BY <1>3, <1>6 DEF Zeros, Ram, Byte
<1>9. RunCommands(m) \in Ram
  BY <1>7, <1>8
<1>10. ASSUME IsStateList(RunCommands(m)), NEW i \in 0 .. CommandByte - 1
       PROVE  RunCommands(m)[i] = RunJoybusProtocol(m)[i]
  <2>1. ~ Bit(64, checked)
    <3> SUFFICES ASSUME Bit(64, checked) PROVE FALSE
      OBVIOUS
    <3>1. RunCommands(m)[8] = 0
      BY <1>7 DEF Zeros, RamSize
    <3> QED BY <1>10, <3>1 DEF IsStateList
  <2>2. RunCommands(m) = [walked EXCEPT ![CommandByte] = checked]
    BY <1>7, <2>1
  <2>3. Bit(1, RunCommands(m)[CommandByte])
    BY <1>10 DEF IsStateList
  <2>4. RunCommands(m)[CommandByte] = checked
    BY <1>3, <2>2 DEF Ram
  <2>5. Bit(1, walked[CommandByte])
    BY <1>6, <2>3, <2>4
  <2>6. walked = RunJoybusProtocol(m)
    BY <2>5 DEF walked
  <2> QED BY <1>3, <2>2, <2>6 DEF Ram
<1> QED BY <1>1, <1>2, <1>9, <1>10

LEMMA FreshAnswer ==
  ASSUME PadOk(joypad), NEW m \in Ram, JoypadBytes(joypad)[1] = 0, IsStateList(RunCommands(m))
  PROVE  \A i \in 1 .. 4 : RunCommands(m)[i + 3] = JoypadBytes(joypad)[i]
<1> DEFINE bytes == JoypadBytes(joypad)
           last == RunJoybusProtocol(m)
           w0 == StartOf(m)
           w1 == [m |-> m, channel |-> 0, offset |-> 1]
           stored == Stored(m, 4, bytes)
           w2 == [m |-> stored, channel |-> 1, offset |-> 4]
           w3 == [m |-> stored, channel |-> 2, offset |-> 5]
<1>1. bytes \in Seq(Byte) /\ Len(bytes) = 4 /\ bytes[1] = 0 /\ bytes[2] \in {0, 16, 32, 48, 176}
  BY PadBytes
<1>2. last \in Ram /\ w0 \in Walks /\ last = Walk[w0]
  BY CommandsRun
<1>3. last[0] = 255 /\ last[1] = 1 /\ last[2] = 4 /\ last[3] = 1
      /\ \A i \in 4 .. 7 : RunCommands(m)[i] = last[i]
  <2>1. \A i \in 0 .. 62 : RunCommands(m)[i] = last[i]
    BY CommandsRun DEF CommandByte, RamSize
  <2>2. /\ RunCommands(m)[0] = 255 /\ RunCommands(m)[1] = 1
        /\ RunCommands(m)[2] = 4 /\ RunCommands(m)[3] = 1
    BY DEF IsStateList
  <2> QED BY <2>1, <2>2
<1> HIDE DEF bytes, last
\* The padding byte.
<1>4. m[0] = 255 /\ m[1] = 1
  BY <1>2, <1>3, WalkKeeps DEF StartOf, RamSize
<1>5. ~ Ended(w0) /\ NextOf(w0) = w1
  BY <1>4 DEF Ended, NextOf, StartOf, RamSize
<1>6. w1 \in Walks /\ last = Walk[w1]
  BY <1>2, <1>5, WalkGoesOn, WalkTurn
\* The command.
<1>7. m[2] = 4
  <2>1. Walk[w1][2] = w1.m[2]
    BY <1>6, WalkKeeps DEF RamSize
  <2> QED BY <1>3, <1>6, <2>1
<1>8. ~ Ended(w1) /\ NextOf(w1) = AfterCommand(w1, m[3])
  BY <1>4, <1>7 DEF Ended, NextOf, RamSize
<1>9. AfterCommand(w1, m[3]) = [m |-> JoybusCommand(m, m[3], 4),
                                channel |-> IF m[3] \in {0, 1, 255} THEN 1 ELSE 0, offset |-> 4]
  <2>1. w1.m = m /\ w1.offset = 1 /\ w1.channel = 0 /\ w1.offset + 2 + (m[1] % 64) = 4
        /\ w1.offset + 3 = 4
    BY <1>4
  <2> QED BY <2>1 DEF AfterCommand
<1>10. m[3] = 1
  <2> DEFINE w == AfterCommand(w1, m[3])
  <2>1. w \in Walks /\ last = Walk[w] /\ w.offset = 4
    BY <1>6, <1>8, <1>9, WalkGoesOn, WalkTurn
  <2>2. w.m = JoybusCommand(m, m[3], 4)
    BY <1>9
  <2> HIDE DEF w
  <2>3. w.m[3] = 1
    <3>1. Walk[w][3] = w.m[3]
      BY <2>1, WalkKeeps DEF RamSize
    <3> QED BY <1>3, <2>1, <3>1
  <2>4. JoybusCommand(m, m[3], 4)[3] = m[3]
    BY CommandFacts DEF RamSize
  <2> QED BY <2>2, <2>3, <2>4
<1>11. AfterCommand(w1, m[3]) = w2
  <2>1. JoybusCommand(m, m[3], 4) = stored
    BY <1>10 DEF JoybusCommand, bytes
  <2> HIDE DEF stored
  <2> QED BY <1>9, <1>10, <2>1
<1>12. w2 \in Walks /\ last = Walk[w2]
  BY <1>6, <1>8, <1>11, WalkGoesOn, WalkTurn
<1>13. stored \in Ram /\ \A i \in 4 .. 7 : stored[i] = bytes[i - 3]
  <2>1. IsStored(stored, m, 4, bytes)
    BY <1>1, StoredFacts
  <2> QED BY <1>1, <2>1 DEF IsStored, RamSize
<1> HIDE DEF stored
\* The walk over the answer.
<1>14. stored[4] = 0 /\ stored[5] = bytes[2]
  BY <1>1, <1>13
<1>15. ~ Ended(w2) /\ NextOf(w2) = w3
  <2>1. w2.m[w2.offset] = 0 /\ w2.offset = 4 /\ w2.channel = 1
    BY <1>14
  <2>2. ~ Ended(w2)
    BY <2>1 DEF Ended, RamSize
  <2>3. NextOf(w2) = [w2 EXCEPT !.channel = @ + 1, !.offset = @ + 1]
    BY <2>1 DEF NextOf
  <2>4. NextOf(w2) = [m |-> w2.m, channel |-> w2.channel + 1, offset |-> w2.offset + 1]
    <3> HIDE DEF w2
    <3> QED BY <1>12, <2>3 DEF Walks
  <2> QED BY <2>1, <2>2, <2>4
<1>16. w3 \in Walks /\ last = Walk[w3]
  BY <1>12, <1>15, WalkGoesOn, WalkTurn
<1>17. last[4] = stored[4] /\ last[5] = stored[5] /\ last[6] = stored[6]
  BY <1>16, WalkKeeps DEF RamSize
<1>18. last[7] = stored[7]
  <2>1. CASE Ended(w3)
    BY <1>16, <2>1, WalkTurn
  <2>2. CASE ~ Ended(w3)
    <3> DEFINE w == NextOf(w3)
    <3>1. w \in Walks /\ last = Walk[w]
      BY <1>16, <2>2, WalkGoesOn, WalkTurn
    <3>2. w.offset >= 6 /\ w.m[7] = stored[7]
      <4>1. CASE bytes[2] = 0
        BY <1>14, <4>1 DEF NextOf
      <4>2. CASE bytes[2] # 0
        <5> DEFINE cmd == stored[7]
                   at == 5 + 2 + (stored[5] % 64)
        <5>1. w = [m |-> JoybusCommand(stored, cmd, at),
                   channel |-> 2 + (IF cmd \in {0, 1, 255} THEN 1 ELSE 0), offset |-> 8]
          BY <1>1, <1>14, <4>2 DEF NextOf, AfterCommand
        <5>2. at \in Nat /\ at > 7
          BY <1>1, <1>14, <4>2
        <5> HIDE DEF at, cmd
        <5>3. JoybusCommand(stored, cmd, at)[7] = stored[7]
          BY <1>13, <5>2, CommandFacts DEF RamSize
        <5> QED BY <5>1, <5>3
      <4> QED BY <4>1, <4>2
    <3> HIDE DEF w
    <3>3. w.offset \in Nat
      BY <3>1, WalkFields DEF RamSize
    <3>4. Walk[w][7] = w.m[7]
      BY <3>1, <3>2, <3>3, WalkKeeps DEF RamSize
    <3> QED BY <3>1, <3>2, <3>4
  <2> QED BY <2>1, <2>2
<1>19. \A i \in 4 .. 7 : RunCommands(m)[i] = bytes[i - 3]
  BY <1>3, <1>13, <1>17, <1>18
<1> QED BY <1>19 DEF bytes

AnswersInv ==
  /\ ram \in Ram /\ list \in DOMAIN Lists /\ PadOk(joypad)
  /\ AnswerIsFresh

LEMMA ListsAreRam == \A i \in DOMAIN Lists : Lists[i] \in Ram
BY SiAssumption DEF Ram

LEMMA PressStep ==
  ASSUME PadOk(joypad), NEW control \in Buttons, NEW pressed \in BOOLEAN,
         OnButtonAction(control, pressed)
  PROVE  PadOk(joypad')
<1> DEFINE pad == [joypad EXCEPT ![control] = IF pressed THEN 1 ELSE 0]
<1>1. control \in {"a", "s", "l", "r"}
  BY SiAssumption
<1>2. /\ joypad \in Pads /\ joypad.a \in 0 .. 1 /\ joypad.s \in 0 .. 1 /\ joypad.l \in 0 .. 1
      /\ joypad.r \in 0 .. 1 /\ joypad.rst \in 0 .. 1 /\ joypad.x \in Byte /\ joypad.y \in Byte
      /\ joypad.rst = 1 => (joypad.l = 1 /\ joypad.r = 1)
  BY DEF PadOk, Pads
<1>3. joypad' = IF control \in {"s", "l", "r"} THEN OnShoulderOrStartChanged(pad, pressed) ELSE pad
  BY DEF OnButtonAction
<1>4. pad \in Pads
  BY <1>1, <1>2 DEF Pads
<1>5. pressed => (pad.rst = 1 => (pad.l = 1 /\ pad.r = 1))
  BY <1>1, <1>2 DEF Pads
<1>6. control = "a" => (pad.rst = 1 => (pad.l = 1 /\ pad.r = 1))
  BY <1>2 DEF Pads
<1> HIDE DEF pad
<1>7. CASE control = "a"
  BY <1>3, <1>4, <1>6, <1>7 DEF PadOk
<1>8. CASE control # "a"
  <2>1. joypad' = OnShoulderOrStartChanged(pad, pressed)
    BY <1>1, <1>3, <1>8
  <2>2. CASE pressed /\ pad.l = 1 /\ pad.r = 1 /\ pad.s = 1
    <3>1. joypad' = [pad EXCEPT !.rst = 1, !.s = 0, !.x = 0, !.y = 0]
      BY <2>1, <2>2 DEF OnShoulderOrStartChanged
    <3>2. 0 \in 0 .. 1 /\ 1 \in 0 .. 1 /\ 0 \in Byte
      BY DEF Byte
    <3>3. joypad' \in Pads
      BY <1>4, <3>1, <3>2 DEF Pads
    <3>4. joypad'.l = 1 /\ joypad'.r = 1
      BY <1>4, <2>2, <3>1 DEF Pads
    <3> QED BY <3>3, <3>4 DEF PadOk
  <2>3. CASE pressed /\ ~ (pad.l = 1 /\ pad.r = 1 /\ pad.s = 1)
    <3>1. joypad' = pad
      BY <2>1, <2>3 DEF OnShoulderOrStartChanged
    <3> QED BY <1>4, <1>5, <2>3, <3>1 DEF PadOk
  <2>4. CASE ~ pressed
    <3>1. joypad' = [pad EXCEPT !.rst = 0]
      BY <2>1, <2>4 DEF OnShoulderOrStartChanged
    <3> QED BY <1>4, <3>1 DEF PadOk, Pads
  <2> QED BY <2>2, <2>3, <2>4
<1> QED BY <1>7, <1>8

LEMMA AnswersStep ==
  ASSUME AnswersInv, SiNext \/ UNCHANGED siOwn
  PROVE  AnswersInv'
<1>1. PadOk(joypad) /\ ram \in Ram /\ list \in DOMAIN Lists
  BY DEF AnswersInv
<1>2. CASE ReadAnswer
  <2>1. /\ ram' = RunCommands(ram) /\ answer' = RunCommands(ram)
        /\ readJoypad' = JoypadBytes(joypad) /\ list' = list /\ joypad' = joypad
    BY <1>2 DEF ReadAnswer, PifToRdram, StartDma
  <2>2. ram' \in Ram
    BY <1>1, <2>1, CommandsRun
  <2>3. AnswerIsFresh'
    <3> SUFFICES ASSUME readJoypad'[1] = 0, IsStateList(answer')
                 PROVE  \A i \in 1 .. 4 : answer'[i + 3] = readJoypad'[i]
      BY DEF AnswerIsFresh, IsStateList
    <3> QED BY <1>1, <2>1, FreshAnswer
  <2> QED BY <1>1, <2>1, <2>2, <2>3 DEF AnswersInv
<1>3. CASE SendList
  <2>1. ram' = RunCommands(Lists[list]) /\ readJoypad' = <<>> /\ list' = list /\ joypad' = joypad
    BY <1>3 DEF SendList, RdramToPif, StartDma
  <2>2. ram' \in Ram
    BY <1>1, <2>1, ListsAreRam, CommandsRun
  <2> QED BY <1>1, <2>1, <2>2 DEF AnswersInv, AnswerIsFresh
<1>4. CASE WritePif
  <2>1. PICK b \in PifWrites :
          ram' = RunCommands([ram EXCEPT ![60] = 0, ![61] = 0, ![62] = 0, ![63] = b])
    BY <1>4 DEF WritePif
  <2>2. [ram EXCEPT ![60] = 0, ![61] = 0, ![62] = 0, ![63] = b] \in Ram
    <3>1. b \in Byte /\ 0 \in Byte
      BY SiAssumption DEF Byte
    <3> QED BY <1>1, <3>1 DEF Ram
  <2>3. ram' \in Ram
    BY <1>1, <2>1, <2>2, CommandsRun
  <2>4. readJoypad' = <<>> /\ list' = list /\ joypad' = joypad
    BY <1>4 DEF WritePif
  <2> QED BY <1>1, <2>3, <2>4 DEF AnswersInv, AnswerIsFresh
<1>5. CASE Play
  <2>1. ram' = ram /\ list' = list /\ answer' = answer /\ readJoypad' = readJoypad
    BY <1>5 DEF Play
  <2>2. PadOk(joypad')
    <3>1. CASE Press \/ Release
      BY <1>1, <3>1, PressStep DEF Press, Release
    <3>2. CASE OnJoystickMovement
      <4>1. PICK axis \in Axes, v \in Sticks : joypad' = [joypad EXCEPT ![axis] = v]
        BY <3>2 DEF OnJoystickMovement
      <4>2. axis \in {"x", "y"} /\ v \in Byte
        BY SiAssumption
      <4> QED BY <1>1, <4>1, <4>2 DEF PadOk, Pads
    <3> QED BY <1>5, <3>1, <3>2 DEF Play
  <2> QED BY <2>1, <2>2 DEF AnswersInv, AnswerIsFresh, IsStateList
<1>6. CASE OnDmaFinish \/ WriteSiDramAddr \/ WriteStatus \/ UNCHANGED siOwn
  <2>1. UNCHANGED <<ram, joypad, list, answer, readJoypad>>
    BY <1>6 DEF OnDmaFinish, WriteSiDramAddr, WriteStatus, siOwn
  <2> QED BY <2>1 DEF AnswersInv, AnswerIsFresh, IsStateList
<1> QED BY <1>2, <1>3, <1>4, <1>5, <1>6 DEF SiNext

LEMMA AnswersInit == SiInit => AnswersInv
<1> SUFFICES ASSUME SiInit PROVE AnswersInv
  OBVIOUS
<1>1. ram = Zeros /\ joypad = NoButtons /\ list \in DOMAIN Lists /\ readJoypad = <<>>
  BY DEF SiInit
<1>2. Zeros \in Ram
  BY DEF Zeros, Ram, Byte
<1>3. PadOk(NoButtons)
  BY DEF PadOk, Pads, NoButtons, Byte
<1> QED BY <1>1, <1>2, <1>3 DEF AnswersInv, AnswerIsFresh

-----------------------------------------------------------------------------
(* The audio interface implements the abstract queue.                      *)

AiTypeOK ==
  /\ dma_count \in 0 .. 2
  /\ dma_addr \in [0 .. 1 -> 0 .. Space - 1]
  /\ dma_len \in [0 .. 1 -> Nat]
  /\ dma_enable \in BOOLEAN

\* The address that the program has given is in the entry that AI_LEN will complete.
LatchIsEntry == latch # NoAddr => dma_count < 2 /\ dma_addr[dma_count] = latch

AiInv == AiTypeOK /\ LatchIsEntry

\* What stands for the queue of AudioQueue.
Entry(i) == [next |-> dma_addr[i - 1], left |-> dma_len[i - 1]]
Buffers == [i \in 1 .. dma_count |-> Entry(i)]
Buffer == [next : 0 .. Space - 1, left : Nat]

\* The end of the address space is the end of a page.
LEMMA PageEnds ==
  ASSUME NEW addr \in 0 .. Space - 1
  PROVE  /\ addr % Space = addr
         /\ (addr + 1) % Space \in 0 .. Space - 1
         /\ ((addr + 1) % Space) % Page = 0 <=> (addr + 1) % Page = 0
<1>1. Space \in Nat \ {0} /\ Page \in Nat \ {0} /\ Space % Page = 0 /\ 0 % Page = 0
  BY AiAssumption
<1>2. addr % Space = addr
  BY <1>1
<1>3. CASE addr + 1 < Space
  BY <1>1, <1>2, <1>3
<1>4. CASE addr + 1 = Space
  <2>1. Space % Space = 0
    BY <1>1
  <2> QED BY <1>1, <1>2, <1>4, <2>1
<1> QED BY <1>1, <1>3, <1>4

BuffersOk ==
  /\ Buffers \in Seq(Buffer) /\ Len(Buffers) = dma_count
  /\ \A i \in 1 .. dma_count : Buffers[i] = Entry(i)
  /\ \A i \in 1 .. dma_count :
        /\ Entry(i) \in Buffer
        /\ Entry(i).next = dma_addr[i - 1] /\ Entry(i).left = dma_len[i - 1]

LEMMA BufferFacts == AiTypeOK => BuffersOk
<1> SUFFICES ASSUME AiTypeOK PROVE BuffersOk
  OBVIOUS
<1>1. dma_count \in Nat
  BY DEF AiTypeOK
<1>2. ASSUME NEW i \in 1 .. dma_count
      PROVE  Entry(i) \in Buffer
  <2>1. dma_addr[i - 1] \in 0 .. Space - 1 /\ dma_len[i - 1] \in Nat
    BY <1>2 DEF AiTypeOK
  <2> QED BY <2>1 DEF Entry, Buffer
<1>3. Buffers \in [1 .. dma_count -> Buffer]
  BY <1>2 DEF Buffers
<1>4. Buffers \in Seq(Buffer) /\ Len(Buffers) = dma_count
  BY <1>1, <1>3
<1> QED BY <1>2, <1>4 DEF BuffersOk, Buffers, Entry

LEMMA NextBufferFacts == AiTypeOK' => BuffersOk'
BY BufferFacts, PTL

LEMMA AiStep ==
  ASSUME AiInv, AiNext \/ UNCHANGED aiOwn
  PROVE  AiInv'
<1> USE DEF AiInv, AiTypeOK, LatchIsEntry
<1>1. CASE GiveAddress
  <2>1. PICK a \in Addresses : WriteDramAddr(a)
    BY <1>1 DEF GiveAddress
  <2>2. a \in 0 .. Space - 1 /\ a # NoAddr /\ Space \in Nat
    BY AiAssumption
  <2> QED BY <1>1, <2>1, <2>2 DEF GiveAddress, WriteDramAddr
<1>2. CASE GiveLength
  <2>1. PICK len \in Lengths : WriteLen(len)
    BY <1>2 DEF GiveLength
  <2>2. len \in Nat
    BY AiAssumption
  <2> QED BY <1>2, <2>1, <2>2 DEF GiveLength, WriteLen
<1>3. CASE StepSample
  <2>1. Space \in Nat \ {0} /\ Page \in Nat \ {0}
    BY AiAssumption
  <2>2. NextAddr \in 0 .. Space - 1 /\ NextLen \in Int
    BY <2>1 DEF NextAddr, NextLen
  <2>3. TakeUpAddress \in [0 .. 1 -> 0 .. Space - 1]
    BY <2>1 DEF TakeUpAddress
  <2> QED BY <1>3, <2>2, <2>3 DEF StepSample, Sample
<1>4. CASE WriteControl
  BY <1>4 DEF WriteControl
<1>5. CASE BeginStep \/ EndStep \/ Acknowledge \/ WriteDacrate \/ UNCHANGED aiOwn
  <2>1. UNCHANGED <<aiRegisters, latch>>
    BY <1>5 DEF BeginStep, EndStep, Acknowledge, WriteDacrate, aiOwn
  <2> QED BY <2>1 DEF aiRegisters
<1> QED BY <1>1, <1>2, <1>3, <1>4, <1>5 DEF AiNext

\* Each step of the registers is a step of the abstract queue or none.
QueueStep == [Queue!Next]_<<Buffers, latch>>

LEMMA QueueStutters ==
  ASSUME UNCHANGED <<dma_count, latch>>, AiTypeOK, AiTypeOK',
         \A i \in 0 .. dma_count - 1 : dma_addr'[i] = dma_addr[i] /\ dma_len'[i] = dma_len[i]
  PROVE  QueueStep
<1>1. dma_count \in Nat
  BY DEF AiTypeOK
<1>2. Buffers' = Buffers
  BY <1>1 DEF Buffers, Entry
<1> QED BY <1>2 DEF QueueStep

LEMMA GiveAddressRefines ==
  ASSUME AiInv, AiInv', GiveAddress
  PROVE  QueueStep
<1>1. PICK a \in Addresses : WriteDramAddr(a)
  BY DEF GiveAddress
<1>2. /\ dma_count \in 0 .. 2 /\ dma_count' = dma_count /\ dma_len' = dma_len
      /\ dma_addr \in [0 .. 1 -> 0 .. Space - 1]
      /\ \A i \in 0 .. dma_count - 1 : dma_addr'[i] = dma_addr[i]
  BY <1>1 DEF WriteDramAddr, AiInv, AiTypeOK
<1>3. Buffers' = Buffers
  BY <1>2 DEF Buffers, Entry
<1> QED BY <1>3 DEF QueueStep, Queue!Next, Queue!GiveAddress, Buffers, Entry

LEMMA GiveLengthRefines ==
  ASSUME AiInv, AiInv', GiveLength
  PROVE  QueueStep
<1>1. PICK len \in Lengths : WriteLen(len)
  BY DEF GiveLength
<1>2. /\ dma_count \in 0 .. 2 /\ dma_addr' = dma_addr /\ latch' = NoAddr
      /\ dma_len \in [0 .. 1 -> Nat]
  BY <1>1 DEF WriteLen, AiInv, AiTypeOK
<1>3. CASE dma_count = 2
  <2>1. latch = NoAddr
    BY <1>3 DEF AiInv, LatchIsEntry
  <2> QED BY <1>1, <1>2, <1>3, <2>1, QueueStutters DEF WriteLen, AiInv
<1>4. CASE dma_count < 2
  <2>1. /\ dma_count' = dma_count + 1
        /\ \A i \in 0 .. dma_count - 1 : dma_len'[i] = dma_len[i]
    BY <1>1, <1>2, <1>4 DEF WriteLen
  <2>2. /\ Buffers \in Seq(Buffer) /\ Len(Buffers) = dma_count
        /\ \A i \in 1 .. dma_count : Buffers[i] = Entry(i)
    BY BufferFacts DEF AiInv, BuffersOk
  <2>3. /\ Buffers' \in Seq(Buffer) /\ Len(Buffers') = dma_count + 1
        /\ \A i \in 1 .. dma_count' : Buffers'[i] = Entry(i)'
    BY <2>1, NextBufferFacts DEF AiInv, BuffersOk
  <2>4. \A i \in 1 .. dma_count : Entry(i)' = Entry(i)
    BY <1>2, <2>1 DEF Entry
  <2>5. SubSeq(Buffers', 1, Len(Buffers)) = Buffers
    <3> DEFINE b == Buffers
               c == Buffers'
    <3>1. /\ b \in Seq(Buffer) /\ c \in Seq(Buffer) /\ Len(b) \in Nat /\ Len(c) = Len(b) + 1
          /\ \A i \in 1 .. Len(b) : c[i] = b[i]
      BY <1>2, <2>1, <2>2, <2>3, <2>4
    <3> HIDE DEF b, c
    <3>2. SubSeq(c, 1, Len(b)) \in Seq(Buffer) /\ Len(SubSeq(c, 1, Len(b))) = Len(b)
      BY <3>1, SubSeqProperties
    <3>3. \A i \in 1 .. Len(b) : SubSeq(c, 1, Len(b))[i] = b[i]
      BY <3>1, SubSeqProperties
    <3>4. SubSeq(c, 1, Len(b)) = b
      BY <3>1, <3>2, <3>3, SeqEqual
    <3> QED BY <3>4 DEF b, c
  <2>6. latch # NoAddr => Buffers'[Len(Buffers')].next = latch
    <3>1. Buffers'[Len(Buffers')] = Entry(dma_count)'
      BY <1>2, <2>1, <2>3
    <3>2. Entry(dma_count)'.next = dma_addr[dma_count]
      BY <1>2, <2>1 DEF Entry
    <3> QED BY <3>1, <3>2 DEF AiInv, LatchIsEntry
  <2>7. Queue!QueueBuffer
    <3> HIDE DEF Buffers
    <3> QED BY <1>2, <1>4, <2>2, <2>3, <2>5, <2>6 DEF Queue!QueueBuffer, Buffers, Entry
  <2> QED BY <2>7 DEF QueueStep, Queue!Next
<1> QED BY <1>2, <1>3, <1>4

LEMMA SampleRefines ==
  ASSUME AiInv, AiInv', Sample
  PROVE  QueueStep
<1> DEFINE b == Buffers
           c == Buffers'
           head == [next |-> dma_addr[0], left |-> dma_len[0]]
<1>1. /\ Space \in Nat \ {0} /\ Page \in Nat \ {0}
      /\ dma_count \in 0 .. 2 /\ dma_addr[0] \in 0 .. Space - 1
      /\ dma_addr[1] \in 0 .. Space - 1 /\ dma_len[0] \in Nat /\ dma_len[1] \in Nat
      /\ dma_addr \in [0 .. 1 -> 0 .. Space - 1] /\ dma_len \in [0 .. 1 -> Nat]
      /\ dma_enable \in BOOLEAN
  BY AiAssumption DEF AiInv, AiTypeOK
<1>2. /\ NextAddr = (IF Playing THEN (dma_addr[0] + 1) % Space ELSE dma_addr[0])
      /\ NextLen = (IF Playing THEN dma_len[0] - 1 ELSE dma_len[0])
      /\ Playing => dma_len[0] > 0
  BY <1>1, PageEnds DEF NextAddr, NextLen, Playing
<1>3. CASE dma_count = 0
  BY <1>3, QueueStutters DEF Sample, AiInv
<1>4. /\ b \in Seq(Buffer) /\ Len(b) = dma_count
      /\ dma_count > 0 => (b[1] = head /\ Head(b) = head /\ b # <<>>)
      /\ dma_count = 2 => b[2] = [next |-> dma_addr[1], left |-> dma_len[1]]
  <2>1. BuffersOk
    BY BufferFacts DEF AiInv
  <2> QED BY <1>1, <2>1 DEF BuffersOk, Entry
<1>5. BuffersOk'
  BY NextBufferFacts DEF AiInv
<1> HIDE DEF b, c
<1>6. CASE dma_count > 0 /\ NextLen > 0 /\ Playing
  <2>1. /\ dma_addr' = [dma_addr EXCEPT ![0] = NextAddr]
        /\ dma_len' = [dma_len EXCEPT ![0] = NextLen]
        /\ dma_count' = dma_count /\ latch' = latch
    BY <1>1, <1>6 DEF Sample
  <2>2. c = [b EXCEPT ![1] = [next |-> (head.next + 1) % Space, left |-> head.left - 1]]
    <3>1. Len(c) = Len(b) /\ c \in Seq(Buffer)
      BY <1>4, <1>5, <2>1 DEF BuffersOk, c
    <3>2. c[1] = [next |-> (head.next + 1) % Space, left |-> head.left - 1]
      BY <1>1, <1>2, <1>5, <1>6, <2>1 DEF BuffersOk, Entry, c
    <3>3. dma_count = 2 => c[2] = b[2]
      BY <1>1, <1>4, <1>5, <2>1 DEF BuffersOk, Entry, c
    <3> QED BY <1>1, <1>4, <1>6, <3>1, <3>2, <3>3
  <2>3. head.left > 1
    BY <1>1, <1>2, <1>6
  <2> HIDE DEF head
  <2>4. Queue!PlaySample
    <3>1. /\ b # <<>> /\ Head(b).left > 1 /\ latch' = latch
          /\ c = [b EXCEPT ![1] = [next |-> (Head(b).next + 1) % Space, left |-> Head(b).left - 1]]
      BY <1>4, <1>6, <2>1, <2>2, <2>3
    <3> QED BY <3>1, Zenon DEF Queue!PlaySample, b, c, Buffers, Entry
  <2> QED BY <2>4 DEF QueueStep, Queue!Next
<1>7. CASE dma_count > 0 /\ NextLen > 0 /\ ~ Playing
  BY <1>1, <1>2, <1>7, QueueStutters DEF Sample, AiInv
<1>8. CASE dma_count > 0 /\ NextLen = 0
  <2> DEFINE stop == head.next + (IF Playing THEN 1 ELSE 0)
  <2>1. /\ dma_count' = dma_count - 1 /\ latch' = NoAddr
        /\ dma_count = 2 => (dma_addr' = TakeUpAddress
                               /\ dma_len' = [dma_len EXCEPT ![0] = dma_len[1]])
    BY <1>1, <1>8 DEF Sample
  <2>2. IF Playing THEN head.left = 1 /\ stop = head.next + 1
                   ELSE head.left = 0 /\ stop = head.next
    BY <1>1, <1>2, <1>8
  <2>3. NextAddr % Page = 0 <=> stop % Page = 0
    BY <1>1, <1>2, PageEnds
  <2> HIDE DEF head, stop
  <2>4. c = [i \in 1 .. Len(b) - 1 |-> Queue!Shifted(b[i + 1], stop)]
    <3>1. CASE dma_count = 1
      BY <1>4, <2>1, <3>1 DEF c, Buffers
    <3>2. CASE dma_count = 2
      <4>1. c[1] = [next |-> dma_addr'[0], left |-> dma_len'[0]]
        BY <1>5, <2>1, <3>2 DEF BuffersOk, Entry, c
      <4>2. dma_addr'[0] = (dma_addr[1] + (IF stop % Page = 0 THEN Page ELSE 0)) % Space
        BY <1>1, <2>1, <2>3, <3>2 DEF TakeUpAddress
      <4>3. dma_len'[0] = dma_len[1]
        BY <1>1, <2>1, <3>2
      <4>4. dma_addr[1] % Space = dma_addr[1]
        BY <1>1, PageEnds
      <4>5. c[1] = Queue!Shifted(b[2], stop)
        <5> DEFINE shift == IF stop % Page = 0 THEN Page ELSE 0
        <5>1. b[2] = [next |-> dma_addr[1], left |-> dma_len[1]]
          BY <1>4, <3>2
        <5>2. Queue!Shifted(b[2], stop) = [next |-> (dma_addr[1] + shift) % Space, left |-> dma_len[1]]
          <6>1. CASE stop % Page = 0
            BY <5>1, <6>1 DEF Queue!Shifted
          <6>2. CASE stop % Page # 0
            <7>1. (dma_addr[1] + 0) % Space = dma_addr[1]
              BY <1>1, <4>4
            <7> QED BY <5>1, <6>2, <7>1 DEF Queue!Shifted
          <6> QED BY <6>1, <6>2
        <5> QED BY <4>1, <4>2, <4>3, <5>2
      <4>6. c = [i \in 1 .. 1 |-> c[i]]
        <5>1. dma_count' = 1
          BY <2>1, <3>2
        <5>2. c = [i \in 1 .. dma_count' |-> Entry(i)']
          BY Zenon DEF c, Buffers
        <5>3. c = [i \in 1 .. 1 |-> Entry(i)']
          BY <5>1, <5>2, Zenon
        <5> QED BY <5>3
      <4>7. Len(b) - 1 = 1
        BY <1>4, <3>2
      <4>8. c = [i \in 1 .. 1 |-> Queue!Shifted(b[i + 1], stop)]
        <5>1. \A i \in 1 .. 1 : c[i] = Queue!Shifted(b[i + 1], stop)
          BY <4>5
        <5> HIDE DEF c, b
        <5> QED BY <4>6, <5>1
      <4> QED BY <4>7, <4>8
    <3> QED BY <1>1, <1>8, <3>1, <3>2
  <2>5. Queue!EndBuffer(stop)
    BY <2>1, <2>4 DEF Queue!EndBuffer, b, c, Buffers, Entry
  <2>6. Queue!PlaySample
    <3>1. /\ b # <<>>
          /\ \/ Head(b).left = 1 /\ Queue!EndBuffer(Head(b).next + 1)
             \/ Head(b).left = 0 /\ Queue!EndBuffer(Head(b).next)
      <4>1. b # <<>> /\ Head(b) = head
        BY <1>4, <1>8
      <4>2. \/ Head(b).left = 1 /\ stop = Head(b).next + 1
            \/ Head(b).left = 0 /\ stop = Head(b).next
        BY <2>2, <4>1
      <4>3. CASE Head(b).left = 1 /\ stop = Head(b).next + 1
        <5> HIDE DEF b
        <5>1. Queue!EndBuffer(Head(b).next + 1)
          BY <2>5, <4>3 DEF Queue!EndBuffer, Queue!Shifted
        <5> QED BY <4>1, <4>3, <5>1
      <4>4. CASE Head(b).left = 0 /\ stop = Head(b).next
        <5>1. Queue!EndBuffer(Head(b).next)
          BY <2>5, <4>4 DEF Queue!EndBuffer, Queue!Shifted
        <5> QED BY <4>1, <4>4, <5>1
      <4> QED BY <4>2, <4>3, <4>4
    <3> QED BY <3>1, Zenon DEF Queue!PlaySample, b, Buffers, Entry
  <2> QED BY <2>6 DEF QueueStep, Queue!Next
<1> QED BY <1>1, <1>2, <1>3, <1>6, <1>7, <1>8

LEMMA AiRefines ==
  ASSUME AiInv, AiInv', AiNext \/ UNCHANGED aiOwn
  PROVE  QueueStep
<1>1. CASE GiveAddress
  BY <1>1, GiveAddressRefines
<1>2. CASE GiveLength
  BY <1>2, GiveLengthRefines
<1>3. CASE StepSample
  BY <1>3, SampleRefines DEF StepSample
<1>4. CASE BeginStep \/ EndStep \/ Acknowledge \/ WriteControl \/ WriteDacrate
             \/ UNCHANGED aiOwn
  <2>1. UNCHANGED <<dma_count, dma_addr, dma_len, latch>>
    BY <1>4 DEF BeginStep, EndStep, Acknowledge, WriteControl, WriteDacrate, aiOwn,
       aiRegisters
  <2> QED BY <2>1, QueueStutters DEF AiInv
<1> QED BY <1>1, <1>2, <1>3, <1>4 DEF AiNext

-----------------------------------------------------------------------------
(* Cutting a buffer into commands.                                         *)

Streams == Seq(Kinds)
Cuts == [commands : Seq(Streams), left : Streams]
First(rest) == IF Head(rest) = "noop" THEN <<>> ELSE <<SubSeq(rest, 1, Length[Head(rest)])>>

\* A command that is whole, and what follows it.
LEMMA FirstCommand ==
  ASSUME NEW rest \in Streams, WholeCommand(rest)
  PROVE  /\ Length[Head(rest)] \in Nat \ {0} /\ Length[Head(rest)] <= Len(rest)
         /\ Dropped(rest, Length[Head(rest)]) \in Streams
         /\ Len(Dropped(rest, Length[Head(rest)])) = Len(rest) - Length[Head(rest)]
         /\ First(rest) \in Seq(Streams)
<1> DEFINE n == Length[Head(rest)]
<1>1. Head(rest) \in Kinds /\ Len(rest) \in Nat
  BY DEF WholeCommand, Streams
<1>2. n \in Nat \ {0} /\ n <= Len(rest)
  BY <1>1, RdpAssumption DEF WholeCommand
<1> HIDE DEF n
<1>3. SubSeq(rest, 1, n) \in Streams
  BY <1>1, <1>2, SubSeqProperties DEF Streams
<1>4. SubSeq(rest, n + 1, Len(rest)) \in Streams /\ Len(SubSeq(rest, n + 1, Len(rest))) = Len(rest) - n
  BY <1>1, <1>2, SubSeqProperties DEF Streams
<1>5. First(rest) \in Seq(Streams)
  BY <1>3 DEF First, n
<1> QED BY <1>2, <1>4, <1>5 DEF n, Dropped

\* One turn of the loop of LoadExecuteCommands.
LEMMA CutTurn ==
  /\ Cut \in [Streams -> Cuts]
  /\ \A rest \in Streams :
       IF ~ WholeCommand(rest) THEN Cut[rest] = [commands |-> <<>>, left |-> rest]
       ELSE LET next == Cut[Dropped(rest, Length[Head(rest)])]
            IN Cut[rest] = [commands |-> First(rest) \o next.commands, left |-> next.left]
<1> DEFINE Body(f) == [rest \in Streams |->
             IF ~ WholeCommand(rest) THEN [commands |-> <<>>, left |-> rest]
             ELSE LET n == Length[Head(rest)]
                      command == IF Head(rest) = "noop" THEN <<>> ELSE <<SubSeq(rest, 1, n)>>
                      next == f[Dropped(rest, n)]
                  IN [commands |-> command \o next.commands, left |-> next.left]]
           stop == [rest \in Streams |-> ~ WholeCommand(rest)]
           size == [rest \in Streams |-> Len(rest)]
           next == [rest \in Streams |-> IF WholeCommand(rest)
                                         THEN Dropped(rest, Length[Head(rest)]) ELSE rest]
           base == [rest \in Streams |-> [commands |-> <<>>, left |-> rest]]
           comb == [rest \in Streams |-> [v \in Cuts |->
                      IF WholeCommand(rest)
                      THEN [commands |-> First(rest) \o v.commands, left |-> v.left]
                      ELSE v]]
<1>1. /\ stop \in [Streams -> BOOLEAN] /\ size \in [Streams -> Nat]
      /\ next \in [Streams -> Streams]
  <2>1. stop \in [Streams -> BOOLEAN]
    BY DEF WholeCommand
  <2>2. size \in [Streams -> Nat]
    BY DEF Streams
  <2>3. next \in [Streams -> Streams]
    BY FirstCommand
  <2> QED BY <2>1, <2>2, <2>3
<1>2. base \in [Streams -> Cuts]
  BY DEF Cuts, Streams
<1>3. comb \in [Streams -> [Cuts -> Cuts]]
  <2> SUFFICES ASSUME NEW rest \in Streams, NEW v \in Cuts, WholeCommand(rest)
               PROVE  [commands |-> First(rest) \o v.commands, left |-> v.left] \in Cuts
    OBVIOUS
  <2>1. v.commands \in Seq(Streams) /\ v.left \in Streams /\ First(rest) \in Seq(Streams)
    BY FirstCommand DEF Cuts
  <2> QED BY <2>1, ConcatProperties DEF Cuts
<1>4. \A rest \in Streams : ~ stop[rest] => size[next[rest]] < size[rest]
  <2> SUFFICES ASSUME NEW rest \in Streams, WholeCommand(rest)
               PROVE  Len(Dropped(rest, Length[Head(rest)])) < Len(rest)
    BY <1>1
  <2>1. Len(rest) \in Nat
    BY DEF Streams
  <2> QED BY <2>1, FirstCommand
<1>5. PICK f \in [Streams -> Cuts] :
        \A rest \in Streams :
          f[rest] = IF stop[rest] THEN base[rest] ELSE comb[rest][f[next[rest]]]
  <2> HIDE DEF stop, size, next, base, comb, Body
  <2>1. Terminates(Streams, Cuts, size, stop, next, base, comb)
    BY <1>1, <1>2, <1>3, <1>4 DEF Terminates
  <2> QED BY <2>1, RecursionOnSize
<1>6. f = Body(f)
  <2> SUFFICES ASSUME NEW rest \in Streams PROVE f[rest] = Body(f)[rest]
    OBVIOUS
  <2>1. CASE ~ WholeCommand(rest)
    BY <1>5, <2>1
  <2>2. CASE WholeCommand(rest)
    <3>1. stop[rest] = FALSE
      BY <2>2
    <3>2. next[rest] = Dropped(rest, Length[Head(rest)]) /\ next[rest] \in Streams
      BY <1>1, <2>2
    <3>3. f[rest] = comb[rest][f[next[rest]]]
      BY <1>5, <3>1
    <3>4. f[next[rest]] \in Cuts
      BY <3>2
    <3> QED BY <2>2, <3>2, <3>3, <3>4 DEF First
  <2> QED BY <2>1, <2>2
<1>7. Cut = Body(Cut)
  <2>1. Cut = CHOOSE g : g = Body(g)
    BY DEF Cut, Streams
  <2> HIDE DEF Body
  <2> QED BY <1>6, <2>1
<1>8. ASSUME NEW rest \in Streams
      PROVE  IF ~ WholeCommand(rest) THEN Cut[rest] = [commands |-> <<>>, left |-> rest]
             ELSE LET after == Cut[Dropped(rest, Length[Head(rest)])]
                  IN Cut[rest] = [commands |-> First(rest) \o after.commands, left |-> after.left]
  <2>1. Cut[rest] = Body(Cut)[rest]
    BY <1>7
  <2> QED BY <2>1 DEF First
<1>9. \A rest \in Streams : Cut[rest] \in Cuts
  <2> DEFINE T == {rest \in Streams : Cut[rest] \in Cuts}
  <2>1. ASSUME NEW rest \in Streams, \A y \in Streams : size[y] < size[rest] => y \in T
        PROVE  rest \in T
    <3>1. CASE ~ WholeCommand(rest)
      <4>1. Cut[rest] = [commands |-> <<>>, left |-> rest]
        BY <1>8, <3>1
      <4>2. <<>> \in Seq(Streams)
        OBVIOUS
      <4>3. Cut[rest] \in Cuts
        BY <4>1, <4>2 DEF Cuts
      <4> QED BY <4>3
    <3>2. CASE WholeCommand(rest)
      <4> DEFINE y == Dropped(rest, Length[Head(rest)])
      <4>1. y \in Streams /\ size[y] < size[rest]
        BY <1>1, <1>4, <3>2
      <4>2. Cut[y] \in Cuts
        BY <4>1, <2>1
      <4>3. Cut[rest] = [commands |-> First(rest) \o Cut[y].commands, left |-> Cut[y].left]
        BY <1>8, <3>2
      <4>4. First(rest) \in Seq(Streams)
        BY <3>2, FirstCommand
      <4> HIDE DEF y
      <4>5. Cut[y].commands \in Seq(Streams) /\ Cut[y].left \in Streams
        BY <4>2 DEF Cuts
      <4>6. First(rest) \o Cut[y].commands \in Seq(Streams)
        BY <4>4, <4>5, ConcatProperties
      <4>7. Cut[rest] \in Cuts
        BY <4>3, <4>5, <4>6 DEF Cuts
      <4> QED BY <4>7
    <3> QED BY <3>1, <3>2
  <2> HIDE DEF T, size
  <2>2. Streams \subseteq T
    BY <1>1, <2>1, InductionOnSize
  <2> QED BY <2>2 DEF T
<1>10. Cut \in [Streams -> Cuts]
  BY <1>7, <1>9
<1> QED BY <1>8, <1>10

LEMMA CutTypes ==
  ASSUME NEW rest \in Streams
  PROVE  Commands(rest) \in Seq(Streams) /\ Remainder(rest) \in Streams
<1>1. Cut[rest] \in Cuts
  BY CutTurn
<1> QED BY <1>1 DEF Cuts, Commands, Remainder

LEMMA CutStops ==
  ASSUME NEW rest \in Streams, ~ WholeCommand(rest)
  PROVE  Commands(rest) = <<>> /\ Remainder(rest) = rest
<1>1. Cut[rest] = [commands |-> <<>>, left |-> rest]
  BY CutTurn
<1> QED BY <1>1 DEF Commands, Remainder

LEMMA CutGoesOn ==
  ASSUME NEW rest \in Streams, WholeCommand(rest)
  PROVE  LET after == Dropped(rest, Length[Head(rest)])
         IN /\ Commands(rest) = First(rest) \o Commands(after)
            /\ Remainder(rest) = Remainder(after)
<1> DEFINE next == Cut[Dropped(rest, Length[Head(rest)])]
<1>1. Cut[rest] = [commands |-> First(rest) \o next.commands, left |-> next.left]
  BY CutTurn
<1> QED BY <1>1 DEF Commands, Remainder

\* Cutting a stream that comes in two parts: what the first leaves is cut with the
\* second.
LEMMA CutInParts ==
  ASSUME NEW b \in Streams
  PROVE  \A a \in Streams :
           /\ Commands(a \o b) = Commands(a) \o Commands(Remainder(a) \o b)
           /\ Remainder(a \o b) = Remainder(Remainder(a) \o b)
<1> DEFINE size == [rest \in Streams |-> Len(rest)]
           T == {a \in Streams :
                   /\ Commands(a \o b) = Commands(a) \o Commands(Remainder(a) \o b)
                   /\ Remainder(a \o b) = Remainder(Remainder(a) \o b)}
<1>1. size \in [Streams -> Nat]
  BY DEF Streams
<1>2. ASSUME NEW a \in Streams, \A y \in Streams : size[y] < size[a] => y \in T
      PROVE  a \in T
  <2>1. a \o b \in Streams /\ Len(a \o b) = Len(a) + Len(b) /\ Len(a) \in Nat /\ Len(b) \in Nat
    BY ConcatProperties DEF Streams
  <2>2. CASE ~ WholeCommand(a)
    <3>1. Commands(a) = <<>> /\ Remainder(a) = a
      BY <2>2, CutStops
    <3>2. Commands(a \o b) \in Seq(Streams)
      BY <2>1, CutTypes
    <3>3. <<>> \o Commands(a \o b) = Commands(a \o b)
      BY <3>2
    <3> QED BY <3>1, <3>3
  <2>3. CASE WholeCommand(a)
    <3> DEFINE n == Length[Head(a)]
               after == Dropped(a, n)
               left == Remainder(after)
    <3>1. /\ n \in Nat \ {0} /\ n <= Len(a) /\ after \in Streams /\ Len(after) = Len(a) - n
          /\ First(a) \in Seq(Streams)
      BY <2>3, FirstCommand
    <3>2. a # <<>> /\ a \in Seq(Kinds) /\ b \in Seq(Kinds)
      BY <2>3 DEF WholeCommand, Streams
    <3>3. Head(a \o b) = Head(a) /\ a \o b # <<>>
      BY <3>2, <2>1
    <3>4. WholeCommand(a \o b)
      BY <2>1, <3>1, <3>3 DEF WholeCommand
    <3> HIDE DEF n
    <3>5. First(a \o b) = First(a)
      <4>1. SubSeq(a \o b, 1, n) = SubSeq(a, 1, n)
        BY <2>1, <3>1, <3>2
      <4> QED BY <3>3, <4>1 DEF First, n
    <3>6. Dropped(a \o b, n) = after \o b
      <4> DEFINE all == SubSeq(a \o b, n + 1, Len(a \o b))
                 cut == SubSeq(a, n + 1, Len(a))
      <4>1. all \in Seq(Kinds) /\ Len(all) = Len(a) + Len(b) - n
            /\ \A i \in 1 .. Len(a) + Len(b) - n : all[i] = (a \o b)[n + i]
        BY <2>1, <3>1, <3>2
      <4>2. cut \in Seq(Kinds) /\ Len(cut) = Len(a) - n
            /\ \A i \in 1 .. Len(a) - n : cut[i] = a[n + i]
        BY <2>1, <3>1, <3>2
      <4> HIDE DEF all, cut
      <4>3. cut \o b \in Seq(Kinds) /\ Len(cut \o b) = Len(a) - n + Len(b)
        <5>1. cut \in Seq(Kinds) /\ b \in Seq(Kinds)
          BY <3>2, <4>2
        <5>2. cut \o b \in Seq(Kinds) /\ Len(cut \o b) = Len(cut) + Len(b)
          BY <5>1, ConcatProperties
        <5> QED BY <4>2, <5>2
      <4>4. ASSUME NEW i \in 1 .. Len(a) + Len(b) - n
            PROVE  all[i] = (cut \o b)[i]
        <5>1. CASE i <= Len(a) - n
          <6>1. i \in 1 .. Len(a) - n /\ n + i \in 1 .. Len(a)
            BY <2>1, <3>1, <4>4, <5>1
          <6>2. (a \o b)[n + i] = a[n + i]
            BY <2>1, <3>1, <3>2, <6>1
          <6>3. (cut \o b)[i] = cut[i]
            BY <2>1, <3>1, <3>2, <4>2, <6>1
          <6> QED BY <4>1, <4>2, <6>1, <6>2, <6>3
        <5>2. CASE i > Len(a) - n
          <6>1. n + i - Len(a) \in 1 .. Len(b) /\ i - (Len(a) - n) = n + i - Len(a)
            BY <2>1, <3>1, <4>4, <5>2
          <6>2. (a \o b)[n + i] = b[n + i - Len(a)]
            BY <2>1, <3>1, <3>2, <6>1
          <6>3. (cut \o b)[i] = b[i - (Len(a) - n)]
            BY <2>1, <3>1, <3>2, <4>2, <5>2, <6>1
          <6> QED BY <4>1, <6>1, <6>2, <6>3
        <5>3. i <= Len(a) - n \/ i > Len(a) - n
          BY <2>1, <3>1
        <5> QED BY <5>1, <5>2, <5>3
      <4>5. all = cut \o b
        <5>1. Len(all) = Len(cut \o b) /\ Len(all) = Len(a) + Len(b) - n
          BY <2>1, <3>1, <4>1, <4>3
        <5>2. \A i \in 1 .. Len(all) : all[i] = (cut \o b)[i]
          BY <4>4, <5>1
        <5> QED BY <4>1, <4>3, <5>1, <5>2, SeqEqual
      <4> QED BY <4>5 DEF all, cut, Dropped
    <3>7. Commands(a) = First(a) \o Commands(after) /\ Remainder(a) = left
      BY <2>3, CutGoesOn DEF n
    <3>8. /\ Commands(a \o b) = First(a) \o Commands(after \o b)
          /\ Remainder(a \o b) = Remainder(after \o b)
      <4>1. Head(a \o b) = Head(a) /\ Length[Head(a \o b)] = n
        BY <3>3 DEF n
      <4> QED BY <2>1, <3>4, <3>5, <3>6, <4>1, CutGoesOn
    <3>9. /\ Commands(after \o b) = Commands(after) \o Commands(left \o b)
          /\ Remainder(after \o b) = Remainder(left \o b)
      <4>1. size[after] < size[a]
        BY <2>1, <3>1
      <4>2. after \in T
        BY <1>2, <3>1, <4>1
      <4> QED BY <4>2
    <3>10. /\ left \in Streams /\ left \o b \in Streams
           /\ Commands(after) \in Seq(Streams) /\ Commands(left \o b) \in Seq(Streams)
      <4>1. left \in Streams /\ Commands(after) \in Seq(Streams)
        BY <3>1, CutTypes
      <4>2. left \o b \in Streams
        BY <4>1, ConcatProperties DEF Streams
      <4> QED BY <4>1, <4>2, CutTypes
    <3>11. First(a) \o (Commands(after) \o Commands(left \o b))
              = (First(a) \o Commands(after)) \o Commands(left \o b)
      BY <3>1, <3>10, ConcatAssociative
    <3> HIDE DEF after, left
    <3> QED BY <3>7, <3>8, <3>9, <3>11
  <2> QED BY <2>2, <2>3
<1> HIDE DEF T, size
<1>3. Streams \subseteq T
  BY <1>1, <1>2, InductionOnSize
<1> QED BY <1>3 DEF T

\* What is left is the end of what was to be cut.
EndOf(rest, part) == Len(part) <= Len(rest) /\ part = Dropped(rest, Len(rest) - Len(part))

LEMMA DroppedFacts ==
  ASSUME NEW S, NEW rest \in Seq(S), NEW n \in 0 .. Len(rest)
  PROVE  /\ Dropped(rest, n) \in Seq(S) /\ Len(Dropped(rest, n)) = Len(rest) - n
         /\ \A i \in 1 .. Len(rest) - n : Dropped(rest, n)[i] = rest[n + i]
BY DEF Dropped

LEMMA EndOfEnd ==
  ASSUME NEW S, NEW rest \in Seq(S), NEW n \in 0 .. Len(rest), NEW part,
         part \in Seq(S), EndOf(Dropped(rest, n), part)
  PROVE  EndOf(rest, part)
<1> DEFINE mid == Dropped(rest, n)
           k == Len(mid) - Len(part)
<1>1. mid \in Seq(S) /\ Len(mid) = Len(rest) - n /\ \A i \in 1 .. Len(rest) - n : mid[i] = rest[n + i]
  BY DEF Dropped
<1>2. Len(part) \in Nat /\ Len(rest) \in Nat /\ Len(part) <= Len(mid) /\ part = Dropped(mid, k)
  BY DEF EndOf
<1> HIDE DEF mid
<1>3. k \in 0 .. Len(mid) /\ Len(mid) \in Nat
  BY <1>1, <1>2
<1>4. \A i \in 1 .. Len(mid) - k : part[i] = mid[k + i]
  <2> DEFINE tail == SubSeq(mid, k + 1, Len(mid))
  <2>1. part = tail
    BY <1>2 DEF Dropped
  <2>2. k + 1 \in 1 .. Len(mid) + 1 /\ mid \in Seq(S)
    BY <1>1, <1>3
  <2> HIDE DEF k
  <2>3. \A i \in 1 .. Len(mid) - k : tail[i] = mid[k + i]
    BY <1>3, <2>2
  <2> HIDE DEF tail
  <2> QED BY <2>1, <2>3
<1> DEFINE whole == Dropped(rest, n + k)
<1>5. whole \in Seq(S) /\ Len(whole) = Len(rest) - (n + k)
      /\ \A i \in 1 .. Len(rest) - (n + k) : whole[i] = rest[n + k + i]
  BY <1>1, <1>2, <1>3 DEF Dropped
<1>6. Len(whole) = Len(part) /\ Len(mid) - k = Len(part) /\ n + k = Len(rest) - Len(part)
  BY <1>1, <1>2, <1>3, <1>5
<1> HIDE DEF k, whole
<1>7. ASSUME NEW i \in 1 .. Len(part)
      PROVE  whole[i] = part[i]
  <2>1. part[i] = mid[k + i]
    BY <1>4, <1>6
  <2>2. k + i \in 1 .. Len(rest) - n /\ n + (k + i) = n + k + i
    BY <1>1, <1>2, <1>3, <1>6
  <2>3. whole[i] = rest[n + k + i]
    BY <1>5, <1>6
  <2> QED BY <1>1, <2>1, <2>2, <2>3
<1>8. whole = part
  <2>1. Len(whole) = Len(part) /\ \A i \in 1 .. Len(whole) : whole[i] = part[i]
    BY <1>6, <1>7
  <2> QED BY <1>5, <2>1, SeqEqual
<1> QED BY <1>1, <1>2, <1>6, <1>8 DEF EndOf, whole

LEMMA RemainderIsEnd == \A rest \in Streams : EndOf(rest, Remainder(rest))
<1> DEFINE size == [rest \in Streams |-> Len(rest)]
           T == {rest \in Streams : EndOf(rest, Remainder(rest))}
<1>1. size \in [Streams -> Nat]
  BY DEF Streams
<1>2. ASSUME NEW rest \in Streams, \A y \in Streams : size[y] < size[rest] => y \in T
      PROVE  rest \in T
  <2>1. CASE ~ WholeCommand(rest)
    <3>1. Remainder(rest) = rest
      BY <2>1, CutStops
    <3>2. SubSeq(rest, 1, Len(rest)) = rest /\ Len(rest) \in Nat
      BY DEF Streams
    <3>3. Dropped(rest, Len(rest) - Len(rest)) = rest
      BY <3>2 DEF Dropped
    <3> QED BY <3>1, <3>2, <3>3 DEF EndOf
  <2>2. CASE WholeCommand(rest)
    <3> DEFINE n == Length[Head(rest)]  after == Dropped(rest, n)
    <3>1. n \in Nat \ {0} /\ n <= Len(rest) /\ after \in Streams /\ Len(after) = Len(rest) - n
      BY <2>2, FirstCommand
    <3>2. Remainder(rest) = Remainder(after) /\ Remainder(after) \in Streams
      BY <2>2, <3>1, CutGoesOn, CutTypes
    <3>3. size[after] < size[rest]
      BY <1>1, <3>1 DEF Streams
    <3>4. EndOf(after, Remainder(after))
      BY <1>2, <3>1, <3>3
    <3> HIDE DEF n
    <3>5. n \in 0 .. Len(rest) /\ rest \in Seq(Kinds) /\ Remainder(after) \in Seq(Kinds)
      BY <3>1, <3>2 DEF Streams
    <3>6. EndOf(rest, Remainder(after))
      BY <3>4, <3>5, EndOfEnd
    <3> QED BY <3>2, <3>6
  <2> QED BY <2>1, <2>2
<1> HIDE DEF T, size
<1>3. Streams \subseteq T
  BY <1>1, <1>2, InductionOnSize
<1> QED BY <1>3 DEF T

-----------------------------------------------------------------------------
(* The RDP's command queue.                                                *)

RdpTypeOK ==
  /\ memory \in [0 .. MemSize - 1 -> Kinds]
  /\ start \in 0 .. MemSize /\ end \in 0 .. MemSize /\ current \in 0 .. MemSize
  /\ cmd_buffer \in Streams /\ queue_offset \in 0 .. Len(cmd_buffer)
  /\ given \in Streams

RdpInv == RdpTypeOK /\ StreamIsKept

LEMMA ExecuteStep ==
  ASSUME RdpInv, NEW cur \in 0 .. MemSize, NEW to \in 0 .. MemSize, cur < to, Execute(cur, to)
  PROVE  /\ StreamIsKept'
         /\ cmd_buffer' \in Streams /\ queue_offset' \in 0 .. Len(cmd_buffer')
         /\ given' \in Streams /\ current' = to /\ start' \in {start, to}
<1> DEFINE words == Words(cur, to)
           all == cmd_buffer \o words
           kept == Dropped(cmd_buffer, queue_offset)
           rest == Dropped(all, queue_offset)
           left == Remainder(rest)
<1>1. /\ cmd_buffer \in Seq(Kinds) /\ queue_offset \in Nat /\ queue_offset <= Len(cmd_buffer)
      /\ given \in Streams /\ Len(cmd_buffer) \in Nat
      /\ enqueued = Commands(given) /\ kept = Remainder(given)
  BY DEF RdpInv, RdpTypeOK, StreamIsKept, Streams
<1>2. words \in Seq(Kinds)
  <2>1. MemSize \in Nat /\ to - cur \in Nat /\ memory \in [0 .. MemSize - 1 -> Kinds]
    BY RdpAssumption DEF RdpInv, RdpTypeOK
  <2>2. \A i \in 1 .. to - cur : cur + i - 1 \in 0 .. MemSize - 1
    BY <2>1
  <2>3. \A i \in 1 .. to - cur : memory[cur + i - 1] \in Kinds
    BY <2>1, <2>2
  <2> QED BY <2>1, <2>3, IsASeq DEF Words
<1> HIDE DEF words
<1>3. all \in Seq(Kinds) /\ Len(all) = Len(cmd_buffer) + Len(words) /\ Len(words) \in Nat
      /\ Len(all) \in Nat
  BY <1>1, <1>2, ConcatProperties
<1>4. rest = kept \o words
  <2>1. kept \in Seq(Kinds) /\ Len(kept) = Len(cmd_buffer) - queue_offset
        /\ \A i \in 1 .. Len(cmd_buffer) - queue_offset : kept[i] = cmd_buffer[queue_offset + i]
    <3>1. queue_offset + 1 \in 1 .. Len(cmd_buffer) + 1
      BY <1>1
    <3> QED BY <1>1, <3>1 DEF Dropped
  <2>2. rest \in Seq(Kinds) /\ Len(rest) = Len(all) - queue_offset
        /\ \A i \in 1 .. Len(all) - queue_offset : rest[i] = all[queue_offset + i]
    <3>1. queue_offset \in 0 .. Len(all)
      BY <1>1, <1>3
    <3> HIDE DEF all
    <3> QED BY <1>3, <3>1, DroppedFacts
  <2> HIDE DEF kept, rest
  <2>3. kept \o words \in Seq(Kinds) /\ Len(kept \o words) = Len(kept) + Len(words)
    BY <1>2, <2>1, ConcatProperties
  <2>4. ASSUME NEW i \in 1 .. Len(all) - queue_offset
        PROVE  rest[i] = (kept \o words)[i]
    <3>1. CASE i <= Len(cmd_buffer) - queue_offset
      <4>1. i \in 1 .. Len(cmd_buffer) - queue_offset /\ queue_offset + i \in 1 .. Len(cmd_buffer)
        BY <1>1, <1>3, <3>1
      <4>2. all[queue_offset + i] = cmd_buffer[queue_offset + i]
        BY <1>1, <1>2, <4>1
      <4>3. (kept \o words)[i] = kept[i]
        BY <1>2, <2>1, <4>1
      <4> QED BY <2>1, <2>2, <4>1, <4>2, <4>3
    <3>2. CASE i > Len(cmd_buffer) - queue_offset
      <4>1. /\ queue_offset + i - Len(cmd_buffer) \in 1 .. Len(words)
            /\ i - Len(kept) = queue_offset + i - Len(cmd_buffer)
        BY <1>1, <1>3, <2>1, <3>2
      <4>2. all[queue_offset + i] = words[queue_offset + i - Len(cmd_buffer)]
        BY <1>1, <1>2, <4>1
      <4>3. (kept \o words)[i] = words[i - Len(kept)]
        BY <1>2, <2>1, <3>2, <4>1
      <4> QED BY <2>2, <4>1, <4>2, <4>3
    <3>3. i <= Len(cmd_buffer) - queue_offset \/ i > Len(cmd_buffer) - queue_offset
      BY <1>1, <1>3
    <3> QED BY <3>1, <3>2, <3>3
  <2>5. Len(kept \o words) = Len(all) - queue_offset
    BY <1>1, <1>3, <2>1, <2>3
  <2>6. Len(rest) = Len(kept \o words) /\ \A i \in 1 .. Len(rest) : rest[i] = (kept \o words)[i]
    BY <2>2, <2>4, <2>5
  <2> QED BY <2>2, <2>3, <2>6, SeqEqual
<1>5. /\ enqueued' = enqueued \o Commands(rest) /\ given' = given \o words
      /\ KeepRemainder(all, left) /\ current' = to /\ start' \in {start, to}
  BY DEF Execute, words
<1>6. /\ Commands(given \o words) = Commands(given) \o Commands(Remainder(given) \o words)
      /\ Remainder(given \o words) = Remainder(Remainder(given) \o words)
  BY <1>1, <1>2, CutInParts DEF Streams
<1>7. enqueued' = Commands(given') /\ left = Remainder(given')
  <2> HIDE DEF all, rest, kept
  <2> QED BY <1>1, <1>4, <1>5, <1>6
<1>8. rest \in Streams /\ left \in Seq(Kinds) /\ EndOf(rest, left)
  <2>1. rest \in Streams
    <3>1. queue_offset + 1 \in 1 .. Len(all) + 1
      BY <1>1, <1>3
    <3> HIDE DEF all
    <3> QED BY <1>3, <3>1 DEF Dropped, Streams
  <2> QED BY <2>1, CutTypes, RemainderIsEnd DEF Streams
<1>9. EndOf(all, left)
  <2>1. queue_offset \in 0 .. Len(all)
    BY <1>1, <1>3
  <2> HIDE DEF all, left
  <2> QED BY <1>3, <1>8, <2>1, EndOfEnd
<1>10. given' \in Streams
  BY <1>1, <1>2, <1>5, ConcatProperties DEF Streams
<1> HIDE DEF all, left, rest, kept
<1>11. CASE left = <<>>
  <2>1. cmd_buffer' = <<>> /\ queue_offset' = 0
    BY <1>5, <1>11 DEF KeepRemainder
  <2>2. Dropped(<<>>, 0) = <<>>
    BY DEF Dropped
  <2>3. cmd_buffer' \in Streams /\ queue_offset' \in 0 .. Len(cmd_buffer')
    BY <2>1 DEF Streams
  <2> QED BY <1>5, <1>7, <1>10, <1>11, <2>1, <2>2, <2>3 DEF StreamIsKept
<1>12. CASE left # <<>>
  <2>1. cmd_buffer' = all /\ queue_offset' = Len(all) - Len(left)
    BY <1>5, <1>12 DEF KeepRemainder
  <2>2. Len(left) \in Nat /\ Len(left) <= Len(all) /\ left = Dropped(all, Len(all) - Len(left))
    BY <1>8, <1>9 DEF EndOf
  <2>3. queue_offset' \in 0 .. Len(cmd_buffer')
    BY <1>3, <2>1, <2>2
  <2> QED BY <1>3, <1>5, <1>7, <1>10, <2>1, <2>2, <2>3 DEF StreamIsKept, Streams
<1> QED BY <1>11, <1>12

LEMMA LoadExecuteStep ==
  ASSUME RdpInv, NEW cur \in 0 .. MemSize, NEW to \in 0 .. MemSize,
         LoadExecuteCommands(cur, to), memory' = memory, end' \in 0 .. MemSize
  PROVE  RdpInv'
<1>1. CASE ~ freeze' /\ cur < to /\ Room(cur, to)
  <2>1. Execute(cur, to) /\ cur < to
    BY <1>1 DEF LoadExecuteCommands
  <2>2. /\ StreamIsKept' /\ cmd_buffer' \in Streams /\ queue_offset' \in 0 .. Len(cmd_buffer')
        /\ given' \in Streams /\ current' = to /\ start' \in {start, to}
    BY <2>1, ExecuteStep
  <2> QED BY <2>2 DEF RdpInv, RdpTypeOK
<1>2. CASE ~ (~ freeze' /\ cur < to /\ Room(cur, to))
  <2>1. current' = cur /\ UNCHANGED <<start, cmd_buffer, queue_offset, given, enqueued>>
    BY <1>2 DEF LoadExecuteCommands
  <2> QED BY <2>1 DEF RdpInv, RdpTypeOK, StreamIsKept
<1> QED BY <1>1, <1>2

LEMMA RdpStep ==
  ASSUME RdpInv, RdpNext \/ UNCHANGED rdpOwn
  PROVE  RdpInv'
<1>1. CASE WriteStart \/ WriteFreeze \/ UNCHANGED rdpOwn
  BY <1>1 DEF RdpInv, RdpTypeOK, StreamIsKept, WriteStart, WriteFreeze, rdpOwn
<1>2. CASE WriteEnd
  <2>1. /\ memory' = memory /\ end' \in 0 .. MemSize
        /\ LoadExecuteCommands(IF start_valid THEN start ELSE current, end')
    BY <1>2 DEF WriteEnd
  <2>2. (IF start_valid THEN start ELSE current) \in 0 .. MemSize
    BY DEF RdpInv, RdpTypeOK
  <2> QED BY <2>1, <2>2, LoadExecuteStep
<1>3. CASE WriteUnfreeze
  <2>1. memory' = memory /\ end' \in 0 .. MemSize /\ LoadExecuteCommands(current, end)
        /\ current \in 0 .. MemSize /\ end \in 0 .. MemSize
    BY <1>3 DEF WriteUnfreeze, RdpInv, RdpTypeOK
  <2> QED BY <2>1, LoadExecuteStep
<1> QED BY <1>1, <1>2, <1>3 DEF RdpNext

LEMMA RdpInitInv == RdpInit => RdpInv
<1> SUFFICES ASSUME RdpInit PROVE RdpInv
  OBVIOUS
<1>1. <<>> \in Streams /\ ~ WholeCommand(<<>>)
  BY DEF Streams, WholeCommand
<1>2. Commands(<<>>) = <<>> /\ Remainder(<<>>) = <<>>
  BY <1>1, CutStops
<1>3. Dropped(<<>>, 0) = <<>>
  BY DEF Dropped
<1>4. given = <<>> /\ cmd_buffer = <<>> /\ queue_offset = 0 /\ enqueued = <<>>
      /\ start = 0 /\ end = 0 /\ current = 0 /\ memory \in [0 .. MemSize - 1 -> Kinds]
  BY DEF RdpInit
<1>5. 0 \in 0 .. MemSize /\ 0 \in 0 .. Len(<<>>)
  BY RdpAssumption
<1> QED BY <1>1, <1>2, <1>3, <1>4, <1>5 DEF RdpInv, RdpTypeOK, StreamIsKept

-----------------------------------------------------------------------------
(* The devices together.                                                   *)

DevicesInv == ViInv /\ SiInv /\ AnswersInv /\ AiInv /\ RdpInv

LEMMA DevicesInitInv == DevicesInit => DevicesInv
<1> SUFFICES ASSUME DevicesInit PROVE DevicesInv
  OBVIOUS
<1>1. ViInv
  BY ViAssumption DEF DevicesInit, ViInit, ViInv, ViTypeOK, OneInterruptPerField
<1>2. SiInv
  BY DEF DevicesInit, SiInit, SiInv, SiTypeOK, SiEventMatchesBusy
<1>3. AiInv
  <2>1. /\ dma_count = 0 /\ cycles = 0 /\ dac_period \in Periods
        /\ latch = NoAddr /\ dma_enable = FALSE /\ stepping = FALSE /\ driver = "prime"
        /\ dma_addr = [i \in 0 .. 1 |-> 0] /\ dma_len = [i \in 0 .. 1 |-> 0]
    BY Zenon DEF DevicesInit, AiInit
  <2>2. dma_addr \in [0 .. 1 -> 0 .. Space - 1] /\ dma_len \in [0 .. 1 -> Nat]
    BY <2>1, AiAssumption
  <2>3. dma_enable \in BOOLEAN /\ stepping \in BOOLEAN
    BY <2>1, Zenon
  <2> QED BY <2>1, <2>2, <2>3, AiAssumption DEF AiInv, AiTypeOK, LatchIsEntry
<1>4. AnswersInv /\ RdpInv
  BY AnswersInit, RdpInitInv DEF DevicesInit
<1> QED BY <1>1, <1>2, <1>3, <1>4 DEF DevicesInv

LEMMA DevicesStep ==
  ASSUME DevicesInv, [DevicesNext]_devicesVars
  PROVE  DevicesInv' /\ QueueStep
<1>1. /\ ViNext \/ UNCHANGED viOwn
      /\ SiNext \/ UNCHANGED siOwn
      /\ AiNext \/ UNCHANGED aiOwn
      /\ RdpNext \/ UNCHANGED rdpOwn
  BY DEF DevicesNext, Audio, devicesVars
<1>2. DevicesInv'
  BY <1>1, ViStep, SiStep, AnswersStep, AiStep, RdpStep DEF DevicesInv
<1>3. QueueStep
  BY <1>1, <1>2, AiRefines DEF DevicesInv
<1> QED BY <1>2, <1>3

LEMMA DevicesInvariant == DevicesSpec => []DevicesInv
<1>1. DevicesInv /\ [DevicesNext]_devicesVars => DevicesInv'
  BY DevicesStep
<1> QED BY <1>1, DevicesInitInv, PTL DEF DevicesSpec

\* The registers keep their types: the audio queue never holds more than two buffers,
\* and the samples left of a buffer are never negative (ai.cpp, Sample).
THEOREM DevicesTypeCorrect ==
  DevicesSpec => [](ViTypeOK /\ SiTypeOK /\ ram \in Ram /\ PadOk(joypad) /\ AiTypeOK /\ RdpTypeOK)
<1>1. DevicesInv =>
        ViTypeOK /\ SiTypeOK /\ ram \in Ram /\ PadOk(joypad) /\ AiTypeOK /\ RdpTypeOK
  BY DEF DevicesInv, ViInv, SiInv, AnswersInv, AiInv, RdpInv
<1> QED BY <1>1, DevicesInvariant, PTL

\* In every field that the program leaves alone the video interrupt is raised once at
\* the line asked for and never besides, for every number of half lines, odd or even,
\* and every line (vi.cpp, CheckVideoInterrupt).
THEOREM VideoInterruptsOnce == DevicesSpec => []OneInterruptPerField
<1>1. DevicesInv => OneInterruptPerField
  BY DEF DevicesInv, ViInv
<1> QED BY <1>1, DevicesInvariant, PTL

\* A program that polls dma_busy of the serial interface comes to an end of it, and one
\* that waits has one finish event for each transfer (si.cpp, InitDma and OnDmaFinish).
THEOREM SerialEventsMatch == DevicesSpec => []SiEventMatchesBusy
<1>1. DevicesInv => SiEventMatchesBusy
  BY DEF DevicesInv, SiInv
<1> QED BY <1>1, DevicesInvariant, PTL

\* A game that asks the PIF for the state of the controller reads the buttons as they
\* are at the read, whatever the command list, the RAM before and the commands that
\* the walk finds in the answer itself (si.cpp, InitDma; pif.cpp, RunJoybusProtocol).
THEOREM AnswersAreFresh == DevicesSpec => []AnswerIsFresh
<1>1. DevicesInv => AnswerIsFresh
  BY DEF DevicesInv, AnswersInv
<1> QED BY <1>1, DevicesInvariant, PTL

\* However the stream of commands is cut into lists, in the middle of a command too,
\* the renderer gets exactly the commands of the stream, for every set of commands and
\* lengths (rdp.cpp, LoadExecuteCommands).
THEOREM StreamsAreKept == DevicesSpec => []StreamIsKept
<1>1. DevicesInv => StreamIsKept
  BY DEF DevicesInv, RdpInv
<1> QED BY <1>1, DevicesInvariant, PTL

\* The audio interface implements AudioQueue: whatever the program writes between the
\* steps of the sampler, each buffer is played once, in order, from its address and for
\* its length (ai.cpp, Sample and WriteReg).
THEOREM AudioRefinesQueue == DevicesSpec => PlaysLikeAQueue
<1>1. DevicesInit => Queue!Init
  <2> SUFFICES ASSUME DevicesInit PROVE Queue!Init
    OBVIOUS
  <2>1. dma_count = 0 /\ latch = NoAddr
    BY DEF DevicesInit, AiInit
  <2> QED BY <2>1 DEF Queue!Init
<1>2. DevicesInv /\ [DevicesNext]_devicesVars => QueueStep
  BY DevicesStep
<1> QED
  BY <1>1, <1>2, DevicesInvariant, PTL
  DEF DevicesSpec, PlaysLikeAQueue, Queue!Spec, QueueStep, Buffers, Entry
=============================================================================
