--------------------------- MODULE N64MemoryProofs ---------------------------
(***************************************************************************)
(* Proofs about the memory a program runs from: its caches and compiled    *)
(* blocks (N64CodeCache) and the translation in front of it (N64Mmu).      *)
(***************************************************************************)
EXTENDS N64Mmu, N64CodeCache, WellFoundedInduction, TLAPS

-----------------------------------------------------------------------------
(* Division: an address is a page and a place in it, or a pool and a place. *)

LEMMA Quotient ==
  ASSUME NEW m \in Nat \ {0}, NEW x \in Int
  PROVE  /\ x \div m \in Int /\ x % m \in 0 .. m - 1
         /\ x = m * (x \div m) + (x % m)
OBVIOUS

\* A positive multiple of m is no less than m.
LEMMA AtLeastOnce ==
  ASSUME NEW m \in Nat \ {0}, NEW k \in Int, k >= 1
  PROVE  m * k >= m
<1>1. m * k = m + m * (k - 1)
  OBVIOUS
<1>2. k - 1 \in Nat
  OBVIOUS
<1>3. m * (k - 1) \in Nat
  BY <1>2
<1> QED BY <1>1, <1>3

\* The quotient and the rest are the only ones.
LEMMA QuotientUnique ==
  ASSUME NEW m \in Nat \ {0}, NEW q \in Int, NEW r \in 0 .. m - 1
  PROVE  (m * q + r) \div m = q /\ (m * q + r) % m = r
<1> DEFINE x == m * q + r
           d == x \div m
           e == x % m
<1>1. x \in Int
  OBVIOUS
<1>2. d \in Int /\ e \in 0 .. m - 1 /\ x = m * d + e
  BY <1>1, Quotient
<1> HIDE DEF d, e
<1>3. m * (d - q) = m * d - m * q /\ m * (q - d) = m * q - m * d
  BY <1>2
<1>4. ~ (d - q >= 1)
  <2>1. d - q >= 1 => m * (d - q) >= m
    BY <1>2, AtLeastOnce
  <2>2. m * d \in Int /\ m * q \in Int
    BY <1>2
  <2> QED BY <1>2, <1>3, <2>1, <2>2
<1>5. ~ (q - d >= 1)
  <2>1. q - d >= 1 => m * (q - d) >= m
    BY <1>2, AtLeastOnce
  <2>2. m * d \in Int /\ m * q \in Int
    BY <1>2
  <2> QED BY <1>2, <1>3, <2>1, <2>2
<1>6. d = q
  BY <1>2, <1>4, <1>5
<1>7. e = r
  BY <1>2, <1>6
<1> QED BY <1>6, <1>7 DEF d, e

\* A quotient does not become smaller as the number grows.
LEMMA QuotientMonotone ==
  ASSUME NEW m \in Nat \ {0}, NEW x \in Int, NEW y \in Int, x <= y
  PROVE  x \div m <= y \div m
<1> DEFINE d == x \div m
           e == y \div m
<1>1. /\ d \in Int /\ x = m * d + (x % m) /\ x % m \in 0 .. m - 1
      /\ e \in Int /\ y = m * e + (y % m) /\ y % m \in 0 .. m - 1
  BY Quotient
<1> HIDE DEF d, e
<1>2. m * (d - e) = m * d - m * e /\ m * d \in Int /\ m * e \in Int
  BY <1>1
<1>3. d - e >= 1 => m * (d - e) >= m
  BY <1>1, AtLeastOnce
<1>4. ~ (d - e >= 1)
  BY <1>1, <1>2, <1>3
<1> QED BY <1>1, <1>4 DEF d, e

\* Every address is the word Index of the page Tag, and no other address is.
LEMMA AddressFacts ==
  /\ \A a \in Addrs : /\ Tag(a) \in 0 .. Pages - 1 /\ Index(a) \in 0 .. Words - 1
                      /\ a = Tag(a) * Words + Index(a)
  /\ \A t \in 0 .. Pages - 1, i \in 0 .. Words - 1 :
        /\ t * Words + i \in Addrs
        /\ Tag(t * Words + i) = t /\ Index(t * Words + i) = i
<1>1. Words \in Nat \ {0} /\ Pages \in Nat \ {0} /\ Pages * Words \in Nat
  BY SizesAssumption
<1>2. ASSUME NEW t \in Int, NEW i \in 0 .. Words - 1
      PROVE  Tag(t * Words + i) = t /\ Index(t * Words + i) = i
  <2>1. t * Words + i = Words * t + i
    BY <1>1
  <2> QED BY <1>1, <2>1, QuotientUnique DEF Tag, Index
<1>3. ASSUME NEW t \in 0 .. Pages - 1, NEW i \in 0 .. Words - 1
      PROVE  t * Words + i \in Addrs
  <2>1. Words * (Pages - t) = Pages * Words - t * Words /\ t * Words \in Nat
    BY <1>1
  <2>2. Words * (Pages - t) >= Words
    BY <1>1, AtLeastOnce
  <2> QED BY <1>1, <2>1, <2>2 DEF Addrs
<1>4. ASSUME NEW a \in Addrs
      PROVE  /\ Tag(a) \in 0 .. Pages - 1 /\ Index(a) \in 0 .. Words - 1
             /\ a = Tag(a) * Words + Index(a)
  <2> DEFINE t == Tag(a)
  <2>1. a \in 0 .. Pages * Words - 1
    BY DEF Addrs
  <2>2. /\ t \in Int /\ Index(a) \in 0 .. Words - 1
        /\ a = Words * t + Index(a)
    BY <1>1, <2>1, Quotient DEF Tag, Index
  <2> HIDE DEF t
  <2>3. t * Words = Words * t /\ t * Words \in Int
    BY <1>1, <2>2
  <2>4. ~ (0 - t >= 1)
    <3>1. 0 - t >= 1 => Words * (0 - t) >= Words
      BY <1>1, <2>2, AtLeastOnce
    <3>2. Words * (0 - t) = 0 - t * Words
      BY <1>1, <2>2
    <3> QED BY <1>1, <2>1, <2>2, <2>3, <3>1, <3>2
  <2>5. ~ (t - Pages + 1 >= 1)
    <3>1. t - Pages + 1 >= 1 => Words * (t - Pages + 1) >= Words
      BY <1>1, <2>2, AtLeastOnce
    <3>2. Words * (t - Pages + 1) = t * Words - Pages * Words + Words
      BY <1>1, <2>2
    <3> QED BY <1>1, <2>1, <2>2, <2>3, <3>1, <3>2
  <2>6. t \in 0 .. Pages - 1
    BY <1>1, <2>2, <2>4, <2>5
  <2> QED BY <2>2, <2>3, <2>6 DEF t
<1> QED BY <1>2, <1>3, <1>4

\* A block ends with its pool, and a range lies in the pools of its ends and those
\* between.
LEMMA PoolFacts ==
  /\ \A a \in Nat, w \in Int : w \in a .. PoolEnd(a) => Pool(w) = Pool(a)
  /\ \A a, b \in Nat : a <= b => Pool(a) <= Pool(b)
  /\ \A a \in Nat : Pool(a) \in Int
<1>1. PoolWords \in Nat \ {0}
  BY SizesAssumption
<1>2. ASSUME NEW a \in Nat, NEW w \in Int, w \in a .. PoolEnd(a)
      PROVE  Pool(w) = Pool(a)
  <2> DEFINE p == Pool(a)
  <2>1. p \in Int /\ a = PoolWords * p + (a % PoolWords) /\ a % PoolWords \in 0 .. PoolWords - 1
    BY <1>1, Quotient DEF Pool
  <2>2. PoolEnd(a) = (p + 1) * PoolWords - 1
    BY DEF PoolEnd
  <2> HIDE DEF p
  <2> DEFINE r == w - PoolWords * p
  <2>3. (p + 1) * PoolWords = PoolWords * p + PoolWords /\ PoolWords * p \in Int
    BY <1>1, <2>1
  <2>4. r \in 0 .. PoolWords - 1 /\ w = PoolWords * p + r
    BY <1>1, <1>2, <2>1, <2>2, <2>3
  <2> HIDE DEF r
  <2>5. w \div PoolWords = p
    BY <1>1, <2>1, <2>4, QuotientUnique
  <2> QED BY <2>5 DEF Pool, p
<1>3. ASSUME NEW a \in Nat, NEW b \in Nat, a <= b
      PROVE  Pool(a) <= Pool(b)
  BY <1>1, <1>3, QuotientMonotone DEF Pool
<1>4. \A a \in Nat : Pool(a) \in Int
  BY <1>1, Quotient DEF Pool
<1> QED BY <1>2, <1>3, <1>4

LEMMA PoolInRange ==
  ASSUME NEW lo \in Nat, NEW hi \in Nat, NEW w \in lo .. hi
  PROVE  Pool(w) \in Pool(lo) .. Pool(hi)
<1>1. w \in Nat /\ lo <= w /\ w <= hi
  OBVIOUS
<1>2. Pool(lo) <= Pool(w) /\ Pool(w) <= Pool(hi)
      /\ Pool(lo) \in Int /\ Pool(w) \in Int /\ Pool(hi) \in Int
  BY <1>1, PoolFacts
<1> QED BY <1>2

\* A memory of whole pools holds every block that begins in it.
LEMMA PoolsFill ==
  ASSUME NEW size \in Nat, NEW q \in Int, size = PoolWords * q, NEW a \in 0 .. size - 1
  PROVE  a .. PoolEnd(a) \subseteq 0 .. size - 1
<1> DEFINE p == Pool(a)
<1>1. PoolWords \in Nat \ {0} /\ a \in Nat /\ a < size
  BY SizesAssumption
<1>2. /\ p \in Int /\ a = PoolWords * p + (a % PoolWords)
      /\ a % PoolWords \in 0 .. PoolWords - 1
  BY <1>1, Quotient DEF Pool
<1>3. PoolEnd(a) = (p + 1) * PoolWords - 1
  BY DEF PoolEnd
<1> HIDE DEF p
<1>4. /\ PoolWords * (p - q + 1) = PoolWords * p - PoolWords * q + PoolWords
      /\ (p + 1) * PoolWords = PoolWords * p + PoolWords
      /\ PoolWords * p \in Int /\ PoolWords * q \in Int
  BY <1>1, <1>2
<1>5. ~ (p - q + 1 >= 1)
  <2>1. p - q + 1 >= 1 => PoolWords * (p - q + 1) >= PoolWords
    BY <1>1, <1>2, AtLeastOnce
  <2> QED BY <1>1, <1>2, <1>4, <2>1
<1>6. PoolWords * (p + 1) <= PoolWords * q
  <2>1. PoolWords * (q - (p + 1)) \in Nat
    BY <1>1, <1>2, <1>5
  <2>2. PoolWords * (q - (p + 1)) = PoolWords * q - PoolWords * (p + 1)
        /\ PoolWords * (p + 1) \in Int
    BY <1>1, <1>2
  <2> QED BY <1>4, <2>1, <2>2
<1>7. PoolEnd(a) \in Int /\ PoolEnd(a) < size
  BY <1>1, <1>2, <1>3, <1>4, <1>6
<1> QED BY <1>1, <1>7

\* A pool lies within a page, and so do the words of a block.
LEMMA BlockInMemory ==
  ASSUME NEW a \in Addrs
  PROVE  BlockWords(a) \subseteq Addrs
<1> DEFINE k == Words \div PoolWords
<1>1. /\ Words \in Nat /\ Pages \in Nat /\ PoolWords \in Nat \ {0}
      /\ Words % PoolWords = 0 /\ Pages * Words \in Nat
  BY SizesAssumption
<1>2. k \in Int /\ Words = PoolWords * k
  BY <1>1, Quotient
<1> HIDE DEF k
<1>3. Pages * k \in Int /\ Pages * Words = PoolWords * (Pages * k)
  BY <1>1, <1>2
<1> QED BY <1>1, <1>3, PoolsFill DEF Addrs, BlockWords

-----------------------------------------------------------------------------
(* The data cache.                                                          *)

CacheLine == [tag : 0 .. Pages - 1, valid : BOOLEAN, dirty : BOOLEAN, data : Values]

CacheTypeOK ==
  /\ rdram \in [Addrs -> Values]
  /\ dCache \in [0 .. Words - 1 -> CacheLine]
  /\ last \in [Addrs -> Values \cup {Undefined}]

\* A word that the program has a claim to is in its line or, unless that line is
\* dirty, in RDRAM, and when it is in both the two agree.
WordOk(b) ==
  last[b] # Undefined =>
    /\ Holds(Line(b), b) => Line(b).data = last[b]
    /\ ~ (Holds(Line(b), b) /\ Line(b).dirty) => rdram[b] = last[b]

CacheInv ==
  /\ CacheTypeOK
  /\ \A i \in 0 .. Words - 1 : dCache[i].dirty => dCache[i].valid
  /\ \A b \in Addrs : WordOk(b)

\* The line of an address.
LEMMA LineFacts ==
  ASSUME CacheInv, NEW a \in Addrs
  PROVE  /\ Line(a) \in CacheLine
         /\ Line(a).tag \in 0 .. Pages - 1 /\ Line(a).data \in Values
         /\ Line(a).valid \in BOOLEAN /\ Line(a).dirty \in BOOLEAN
         /\ Line(a).dirty => Line(a).valid
         /\ \A b \in Addrs : Index(b) = Index(a) => Line(b) = Line(a)
         /\ \A b \in Addrs : Index(b) = Index(a) /\ Tag(b) = Tag(a) => b = a
<1>1. Index(a) \in 0 .. Words - 1
  BY AddressFacts
<1>2. Line(a) \in CacheLine
  BY <1>1 DEF CacheInv, CacheTypeOK, Line
<1>3. Line(a).dirty => Line(a).valid
  BY <1>1 DEF CacheInv, Line
<1>4. \A b \in Addrs : Index(b) = Index(a) => Line(b) = Line(a)
  BY DEF Line
<1>5. \A b \in Addrs : Index(b) = Index(a) /\ Tag(b) = Tag(a) => b = a
  BY AddressFacts
<1> QED BY <1>2, <1>3, <1>4, <1>5 DEF CacheLine

\* Once the line of a is written back, RDRAM has every word of that index.
LEMMA WritebackFacts ==
  ASSUME CacheInv, NEW a \in Addrs, NEW memory,
         memory = IF Line(a).dirty THEN Writeback(a) ELSE rdram
  PROVE  /\ memory \in [Addrs -> Values]
         /\ \A b \in Addrs : Index(b) # Index(a) => memory[b] = rdram[b]
         /\ \A b \in Addrs : Index(b) = Index(a) /\ last[b] # Undefined
                                => memory[b] = last[b]
<1>1. rdram \in [Addrs -> Values]
  BY DEF CacheInv, CacheTypeOK
<1>2. /\ Line(a).tag \in 0 .. Pages - 1 /\ Line(a).data \in Values
      /\ Line(a).dirty => Line(a).valid
      /\ \A b \in Addrs : Index(b) = Index(a) => Line(b) = Line(a)
  BY LineFacts
<1>3. CASE ~ Line(a).dirty
  BY <1>1, <1>2, <1>3 DEF CacheInv, WordOk
<1>4. CASE Line(a).dirty
  <2>1. memory = [rdram EXCEPT ![Victim(a)] = Line(a).data]
    BY <1>4 DEF Writeback
  <2>2. Victim(a) \in Addrs /\ Tag(Victim(a)) = Line(a).tag /\ Index(Victim(a)) = Index(a)
    BY <1>2, AddressFacts DEF Victim
  <2>3. /\ memory \in [Addrs -> Values]
        /\ \A b \in Addrs : memory[b] = IF b = Victim(a) THEN Line(a).data ELSE rdram[b]
    BY <1>1, <1>2, <2>1, <2>2
  <2>4. ASSUME NEW b \in Addrs, Index(b) = Index(a), last[b] # Undefined
        PROVE  memory[b] = last[b]
    <3>1. Line(b) = Line(a) /\ WordOk(b)
      BY <1>2, <2>4 DEF CacheInv
    <3>2. CASE b = Victim(a)
      <4>1. Holds(Line(b), b)
        BY <1>2, <1>4, <2>2, <3>1, <3>2 DEF Holds
      <4> QED BY <2>3, <2>4, <3>1, <3>2, <4>1 DEF WordOk
    <3>3. CASE b # Victim(a)
      <4>1. Tag(b) # Line(a).tag
        BY <2>2, <2>4, <3>3, AddressFacts
      <4>2. ~ Holds(Line(b), b)
        BY <3>1, <4>1 DEF Holds
      <4> QED BY <2>3, <2>4, <3>1, <3>3, <4>2 DEF WordOk
    <3> QED BY <3>2, <3>3
  <2> QED BY <2>2, <2>3, <2>4
<1> QED BY <1>3, <1>4

\* What an operation that changes a line has to show of the words of its index.
LEMMA LineChanged ==
  ASSUME CacheInv, NEW a \in Addrs, NEW line \in CacheLine, SetLine(a, line),
         line.dirty => line.valid,
         rdram' \in [Addrs -> Values], last' \in [Addrs -> Values \cup {Undefined}],
         \A b \in Addrs : Index(b) # Index(a) =>
            rdram'[b] = rdram[b] /\ last'[b] \in {last[b], Undefined},
         \A b \in Addrs :
            Index(b) = Index(a) /\ last'[b] # Undefined /\ line.valid /\ line.tag = Tag(b)
              => line.data = last'[b],
         \A b \in Addrs :
            Index(b) = Index(a) /\ last'[b] # Undefined
            /\ ~ (line.dirty /\ line.tag = Tag(b))
              => rdram'[b] = last'[b]
  PROVE  CacheInv'
<1>1. /\ dCache \in [0 .. Words - 1 -> CacheLine]
      /\ dCache' = [dCache EXCEPT ![Index(a)] = line]
  BY DEF CacheInv, CacheTypeOK, SetLine
<1>2. Index(a) \in 0 .. Words - 1
  BY AddressFacts
<1>3. /\ dCache' \in [0 .. Words - 1 -> CacheLine]
      /\ dCache'[Index(a)] = line
      /\ \A i \in 0 .. Words - 1 : i # Index(a) => dCache'[i] = dCache[i]
  BY <1>1, <1>2
<1>4. CacheTypeOK'
  BY <1>3 DEF CacheTypeOK
<1>5. \A i \in 0 .. Words - 1 : dCache'[i].dirty => dCache'[i].valid
  BY <1>3 DEF CacheInv
<1>6. ASSUME NEW b \in Addrs
      PROVE  WordOk(b)'
  <2>1. Index(b) \in 0 .. Words - 1
    BY AddressFacts
  <2>2. CASE Index(b) = Index(a)
    <3>1. Line(b)' = line
      BY <1>3, <2>2 DEF Line
    <3> QED BY <2>2, <3>1 DEF WordOk, Holds
  <2>3. CASE Index(b) # Index(a)
    <3>1. Line(b)' = Line(b) /\ WordOk(b)
      BY <1>3, <2>1, <2>3 DEF Line, CacheInv
    <3>2. rdram'[b] = rdram[b] /\ last'[b] \in {last[b], Undefined}
      BY <2>3
    <3> QED BY <3>1, <3>2 DEF WordOk, Holds
  <2> QED BY <2>2, <2>3
<1> QED BY <1>4, <1>5, <1>6 DEF CacheInv

\* The same when the operation first writes a dirty line back and leaves what the
\* program has claims to: the new line need only be right if it holds a word.
LEMMA LineFlushed ==
  ASSUME CacheInv, NEW a \in Addrs, NEW line \in CacheLine, SetLine(a, line),
         rdram' = IF Line(a).dirty THEN Writeback(a) ELSE rdram,
         ~ line.dirty, last' = last,
         line.valid => line.data = rdram'[line.tag * Words + Index(a)]
  PROVE  CacheInv'
<1>1. /\ rdram' \in [Addrs -> Values]
      /\ \A b \in Addrs : Index(b) # Index(a) => rdram'[b] = rdram[b]
      /\ \A b \in Addrs :
            Index(b) = Index(a) /\ last[b] # Undefined => rdram'[b] = last[b]
  BY WritebackFacts
<1>2. last \in [Addrs -> Values \cup {Undefined}]
  BY DEF CacheInv, CacheTypeOK
<1>3. \A b \in Addrs : b = Tag(b) * Words + Index(b)
  BY AddressFacts
<1>4. ASSUME NEW b \in Addrs, Index(b) = Index(a), last'[b] # Undefined, line.valid,
             line.tag = Tag(b)
      PROVE  line.data = last'[b]
  BY <1>1, <1>3, <1>4
<1>5. \A b \in Addrs : Index(b) # Index(a) =>
        rdram'[b] = rdram[b] /\ last'[b] \in {last[b], Undefined}
  BY <1>1
<1>6. \A b \in Addrs :
        Index(b) = Index(a) /\ last'[b] # Undefined
        /\ ~ (line.dirty /\ line.tag = Tag(b))
          => rdram'[b] = last'[b]
  BY <1>1
<1>7. /\ rdram' \in [Addrs -> Values] /\ last' \in [Addrs -> Values \cup {Undefined}]
      /\ line.dirty => line.valid
  BY <1>1, <1>2
<1> QED BY <1>4, <1>5, <1>6, <1>7, LineChanged

LEMMA LoadCachedStep ==
  ASSUME CacheInv, NEW a \in Addrs, LoadCached(a)
  PROVE  CacheInv'
<1>1. /\ Line(a) \in CacheLine /\ Line(a).tag \in 0 .. Pages - 1
      /\ Line(a).dirty => Line(a).valid
  BY LineFacts
<1>2. /\ rdram' = Evicted(a) /\ last' = last
      /\ SetLine(a, IF Holds(Line(a), a) THEN Line(a) ELSE Filled(a, rdram'))
  BY DEF LoadCached, SetLine, Line
<1>3. CASE Holds(Line(a), a)
  <2>1. rdram' = rdram
    BY <1>2, <1>3 DEF Evicted
  <2>2. Index(a) \in 0 .. Words - 1 /\ dCache \in [0 .. Words - 1 -> CacheLine]
    BY AddressFacts DEF CacheInv, CacheTypeOK
  <2>3. dCache' = dCache
    BY <1>2, <1>3, <2>2 DEF SetLine, Line
  <2> QED BY <1>2, <2>1, <2>3 DEF CacheInv, CacheTypeOK, WordOk, Line, Holds
<1>4. CASE ~ Holds(Line(a), a)
  <2> DEFINE line == Filled(a, rdram')
  <2>1. rdram' = IF Line(a).dirty THEN Writeback(a) ELSE rdram
    BY <1>1, <1>2, <1>4 DEF Evicted
  <2>2. rdram' \in [Addrs -> Values]
    BY <2>1, WritebackFacts
  <2>3. /\ line.tag = Tag(a) /\ line.valid = TRUE /\ line.dirty = FALSE
        /\ line.data = rdram'[a]
    BY DEF Filled
  <2>4. Tag(a) \in 0 .. Pages - 1 /\ a = Tag(a) * Words + Index(a)
    BY AddressFacts
  <2>5. line \in CacheLine
    BY <2>2, <2>4 DEF Filled, CacheLine
  <2>6. SetLine(a, line)
    BY <1>2, <1>4
  <2> HIDE DEF line
  <2> QED BY <1>2, <2>1, <2>3, <2>4, <2>5, <2>6, LineFlushed
<1> QED BY <1>3, <1>4

LEMMA StoreCachedStep ==
  ASSUME CacheInv, NEW a \in Addrs, NEW v \in Values, StoreCached(a, v)
  PROVE  CacheInv'
<1> DEFINE line == [tag |-> Tag(a), valid |-> TRUE, dirty |-> TRUE, data |-> v]
<1>1. /\ Line(a).tag \in 0 .. Pages - 1 /\ (Line(a).dirty => Line(a).valid)
      /\ \A b \in Addrs : Index(b) = Index(a) => Line(b) = Line(a)
      /\ \A b \in Addrs : Index(b) = Index(a) /\ Tag(b) = Tag(a) => b = a
  BY LineFacts
<1>2. /\ rdram' = Evicted(a) /\ last' = [last EXCEPT ![a] = v]
      /\ SetLine(a, line)
  BY DEF StoreCached, SetLine
<1>3. Tag(a) \in 0 .. Pages - 1
  BY AddressFacts
<1>4. line \in CacheLine /\ line.tag = Tag(a) /\ line.valid /\ line.dirty
      /\ line.data = v
  BY <1>3 DEF CacheLine
<1> HIDE DEF line
<1>5. rdram \in [Addrs -> Values] /\ last \in [Addrs -> Values \cup {Undefined}]
  BY DEF CacheInv, CacheTypeOK
<1>6. /\ last' \in [Addrs -> Values \cup {Undefined}]
      /\ last'[a] = v /\ \A b \in Addrs : b # a => last'[b] = last[b]
  BY <1>2, <1>5
<1>7. /\ rdram' \in [Addrs -> Values]
      /\ \A b \in Addrs : Index(b) # Index(a) => rdram'[b] = rdram[b]
      /\ \A b \in Addrs : Index(b) = Index(a) /\ last[b] # Undefined /\ b # a
                                => rdram'[b] = last[b]
  <2>1. CASE Holds(Line(a), a)
    <3>1. rdram' = rdram
      BY <1>2, <2>1 DEF Evicted
    <3>2. ASSUME NEW b \in Addrs, Index(b) = Index(a), last[b] # Undefined, b # a
          PROVE  rdram'[b] = last[b]
      <4>1. ~ Holds(Line(b), b)
        BY <1>1, <2>1, <3>2 DEF Holds
      <4> QED BY <3>1, <3>2, <4>1 DEF CacheInv, WordOk
    <3> QED BY <1>5, <3>1, <3>2
  <2>2. CASE ~ Holds(Line(a), a)
    <3>1. rdram' = IF Line(a).dirty THEN Writeback(a) ELSE rdram
      BY <1>1, <1>2, <2>2 DEF Evicted
    <3> QED BY <3>1, WritebackFacts
  <2> QED BY <2>1, <2>2
<1>8. \A b \in Addrs : Index(b) # Index(a) =>
        rdram'[b] = rdram[b] /\ last'[b] \in {last[b], Undefined}
  BY <1>6, <1>7
<1>9. \A b \in Addrs :
        Index(b) = Index(a) /\ last'[b] # Undefined /\ line.valid /\ line.tag = Tag(b)
          => line.data = last'[b]
  BY <1>1, <1>4, <1>6
<1>10. \A b \in Addrs :
        Index(b) = Index(a) /\ last'[b] # Undefined
        /\ ~ (line.dirty /\ line.tag = Tag(b))
          => rdram'[b] = last'[b]
  BY <1>4, <1>6, <1>7
<1> QED BY <1>2, <1>4, <1>6, <1>7, <1>8, <1>9, <1>10, LineChanged

\* A write past the D-cache.
LEMMA WrittenPast ==
  ASSUME CacheInv, NEW S \in SUBSET Addrs, NEW v \in Values,
         rdram' \in [Addrs -> Values], last' \in [Addrs -> Values \cup {Undefined}],
         \A b \in S : rdram'[b] = v /\ last'[b] = PutPast(b, v),
         \A b \in Addrs \ S : rdram'[b] = rdram[b] /\ last'[b] = last[b],
         dCache' = dCache
  PROVE  CacheInv'
<1>1. CacheTypeOK'
  BY DEF CacheInv, CacheTypeOK
<1>2. \A i \in 0 .. Words - 1 : dCache'[i].dirty => dCache'[i].valid
  BY DEF CacheInv
<1>3. ASSUME NEW b \in Addrs
      PROVE  WordOk(b)'
  <2>1. Line(b)' = Line(b) /\ WordOk(b)
    BY DEF Line, CacheInv
  <2>2. CASE b \in S
    BY <2>1, <2>2 DEF WordOk, PutPast
  <2>3. CASE b \notin S
    BY <2>1, <2>3 DEF WordOk
  <2> QED BY <2>2, <2>3
<1> QED BY <1>1, <1>2, <1>3 DEF CacheInv

LEMMA StoreUncachedStep ==
  ASSUME CacheInv, NEW a \in Addrs, NEW v \in Values, StoreUncached(a, v)
  PROVE  CacheInv'
<1> DEFINE S == {a}
<1>1. /\ rdram' = [rdram EXCEPT ![a] = v]
      /\ last' = [last EXCEPT ![a] = PutPast(a, v)] /\ dCache' = dCache
  BY DEF StoreUncached
<1>2. rdram \in [Addrs -> Values] /\ last \in [Addrs -> Values \cup {Undefined}]
  BY DEF CacheInv, CacheTypeOK
<1>3. PutPast(a, v) \in Values \cup {Undefined}
  BY DEF PutPast
<1>4. /\ rdram' \in [Addrs -> Values] /\ last' \in [Addrs -> Values \cup {Undefined}]
      /\ \A b \in S : rdram'[b] = v /\ last'[b] = PutPast(b, v)
      /\ \A b \in Addrs \ S : rdram'[b] = rdram[b] /\ last'[b] = last[b]
  BY <1>1, <1>2, <1>3
<1>5. S \in SUBSET Addrs
  OBVIOUS
<1> HIDE DEF S
<1> QED BY <1>1, <1>4, <1>5, WrittenPast

LEMMA DmaToRdramStep ==
  ASSUME CacheInv, NEW lo \in Addrs, NEW hi \in Nat, NEW v \in Values,
         DmaToRdram(lo, hi, v)
  PROVE  CacheInv'
<1> DEFINE S == {b \in Addrs : b \in lo .. hi - 1}
<1>1. /\ rdram' = [a \in Addrs |-> IF a \in S THEN v ELSE rdram[a]]
      /\ last' = [a \in Addrs |-> IF a \in S THEN PutPast(a, v) ELSE last[a]]
      /\ dCache' = dCache
  BY DEF DmaToRdram
<1>2. S \in SUBSET Addrs
  OBVIOUS
<1> HIDE DEF S
<1>3. rdram \in [Addrs -> Values] /\ last \in [Addrs -> Values \cup {Undefined}]
  BY DEF CacheInv, CacheTypeOK
<1>4. \A b \in Addrs : PutPast(b, v) \in Values \cup {Undefined}
  BY DEF PutPast
<1>5. /\ rdram' \in [Addrs -> Values] /\ last' \in [Addrs -> Values \cup {Undefined}]
      /\ \A b \in S : rdram'[b] = v /\ last'[b] = PutPast(b, v)
      /\ \A b \in Addrs \ S : rdram'[b] = rdram[b] /\ last'[b] = last[b]
  BY <1>1, <1>2, <1>3, <1>4
<1> QED BY <1>1, <1>2, <1>5, WrittenPast

-----------------------------------------------------------------------------
(* The CACHE instruction on the data cache.                                 *)

\* A line that holds nothing any more, in front of what RDRAM has to have.
LEMMA LineDropped ==
  ASSUME CacheInv, NEW a \in Addrs, NEW line \in CacheLine, SetLine(a, line),
         ~ line.valid, ~ line.dirty, rdram' = rdram,
         last' \in [Addrs -> Values \cup {Undefined}],
         \A b \in Addrs : last'[b] \in {last[b], Undefined},
         \A b \in Addrs : Index(b) = Index(a) /\ Holds(Line(b), b) /\ Line(b).dirty
                            => last'[b] = Undefined
  PROVE  CacheInv'
<1>1. rdram' \in [Addrs -> Values] /\ (line.dirty => line.valid)
  BY DEF CacheInv, CacheTypeOK
<1>2. \A b \in Addrs : Index(b) # Index(a) =>
        rdram'[b] = rdram[b] /\ last'[b] \in {last[b], Undefined}
  OBVIOUS
<1>3. ASSUME NEW b \in Addrs, Index(b) = Index(a), last'[b] # Undefined
      PROVE  rdram'[b] = last'[b]
  <2>1. last'[b] = last[b] /\ ~ (Holds(Line(b), b) /\ Line(b).dirty)
    BY <1>3
  <2> QED BY <1>3, <2>1 DEF CacheInv, WordOk
<1>4. \A b \in Addrs :
        Index(b) = Index(a) /\ last'[b] # Undefined
        /\ ~ (line.dirty /\ line.tag = Tag(b))
          => rdram'[b] = last'[b]
  BY <1>3
<1> QED BY <1>1, <1>2, <1>4, LineChanged

LEMMA IndexInvalidateDStep ==
  ASSUME CacheInv, NEW a \in Addrs, IndexInvalidateD(a)
  PROVE  CacheInv'
<1> DEFINE line == [Line(a) EXCEPT !.valid = FALSE, !.dirty = @ /\ ~Line(a).valid]
<1>1. /\ Line(a) \in CacheLine /\ (Line(a).dirty => Line(a).valid)
      /\ Line(a).dirty \in BOOLEAN /\ Line(a).valid \in BOOLEAN
  BY LineFacts
<1>2. (Line(a).dirty /\ ~ Line(a).valid) = FALSE
  BY <1>1
<1>3. line = [Line(a) EXCEPT !.valid = FALSE, !.dirty = FALSE]
  BY <1>1, <1>2 DEF CacheLine
<1>4. line \in CacheLine /\ line.valid = FALSE /\ line.dirty = FALSE
  BY <1>1, <1>3 DEF CacheLine
<1>5. /\ SetLine(a, line) /\ last' = last
      /\ rdram' = IF Line(a).dirty THEN Writeback(a) ELSE rdram
  BY <1>1 DEF IndexInvalidateD, KeepsWord
<1> HIDE DEF line
<1> QED BY <1>4, <1>5, LineFlushed

LEMMA HitWriteBackDStep ==
  ASSUME CacheInv, NEW a \in Addrs, NEW invalidate \in BOOLEAN,
         HitWriteBackD(a, invalidate)
  PROVE  CacheInv'
<1> DEFINE line == [Line(a) EXCEPT !.valid = @ /\ ~invalidate, !.dirty = FALSE]
<1>1. /\ Line(a) \in CacheLine /\ Line(a).tag \in 0 .. Pages - 1
      /\ Line(a).valid \in BOOLEAN /\ Line(a).data \in Values
      /\ (Line(a).dirty => Line(a).valid)
      /\ Line(a).tag = Tag(a)
  BY LineFacts DEF HitWriteBackD
<1>2. /\ SetLine(a, line) /\ last' = last
      /\ rdram' = IF Line(a).dirty THEN Writeback(a) ELSE rdram
  BY DEF HitWriteBackD, KeepsWord
<1> DEFINE valid == Line(a).valid /\ ~ invalidate
<1>3. valid \in BOOLEAN /\ line = [Line(a) EXCEPT !.valid = valid, !.dirty = FALSE]
  OBVIOUS
<1>4. valid => Line(a).valid
  OBVIOUS
<1> HIDE DEF valid, line
<1>5. /\ line \in CacheLine /\ line.tag = Tag(a) /\ line.dirty = FALSE
      /\ line.data = Line(a).data
  BY <1>1, <1>3 DEF CacheLine
<1>6. line.valid = valid
  BY <1>1, <1>3 DEF CacheLine
<1>7. /\ rdram' \in [Addrs -> Values] /\ last' \in [Addrs -> Values \cup {Undefined}]
      /\ \A b \in Addrs : Index(b) # Index(a) => rdram'[b] = rdram[b]
      /\ \A b \in Addrs :
            Index(b) = Index(a) /\ last[b] # Undefined => rdram'[b] = last[b]
  BY <1>2, WritebackFacts DEF CacheInv, CacheTypeOK
<1>8. ASSUME NEW b \in Addrs, Index(b) = Index(a), last'[b] # Undefined, line.valid,
             line.tag = Tag(b)
      PROVE  line.data = last'[b]
  <2>1. b = a
    BY <1>5, <1>8, LineFacts
  <2>2. Holds(Line(a), a)
    BY <1>1, <1>4, <1>6, <1>8 DEF Holds
  <2> QED BY <1>2, <1>5, <1>8, <2>1, <2>2 DEF CacheInv, WordOk
<1>9. \A b \in Addrs : Index(b) # Index(a) =>
        rdram'[b] = rdram[b] /\ last'[b] \in {last[b], Undefined}
  BY <1>2, <1>7
<1>10. \A b \in Addrs :
        Index(b) = Index(a) /\ last'[b] # Undefined
        /\ ~ (line.dirty /\ line.tag = Tag(b))
          => rdram'[b] = last'[b]
  BY <1>2, <1>7
<1> QED BY <1>2, <1>5, <1>7, <1>8, <1>9, <1>10, LineChanged

LEMMA IndexStoreTagDStep ==
  ASSUME CacheInv, NEW a \in Addrs, IndexStoreTagD(a)
  PROVE  CacheInv'
<1> DEFINE line == [Line(a) EXCEPT !.tag = 0, !.valid = FALSE, !.dirty = FALSE]
<1>1. /\ Line(a) \in CacheLine /\ Line(a).tag \in 0 .. Pages - 1
      /\ (Line(a).dirty => Line(a).valid)
      /\ \A b \in Addrs : Index(b) = Index(a) => Line(b) = Line(a)
  BY LineFacts
<1>2. /\ SetLine(a, line) /\ rdram' = rdram
      /\ last' = IF Line(a).dirty THEN [last EXCEPT ![Victim(a)] = Undefined] ELSE last
  BY <1>1 DEF IndexStoreTagD, KeepsWord, LosesWord
<1>3. line \in CacheLine /\ line.valid = FALSE /\ line.dirty = FALSE
  <2>1. 0 \in 0 .. Pages - 1
    BY SizesAssumption
  <2> QED BY <1>1, <2>1 DEF CacheLine
<1> HIDE DEF line
<1>4. Victim(a) \in Addrs /\ Tag(Victim(a)) = Line(a).tag /\ Index(Victim(a)) = Index(a)
  BY <1>1, AddressFacts DEF Victim
<1>5. last \in [Addrs -> Values \cup {Undefined}]
  BY DEF CacheInv, CacheTypeOK
<1>6. /\ last' \in [Addrs -> Values \cup {Undefined}]
      /\ \A b \in Addrs : last'[b] \in {last[b], Undefined}
      /\ Line(a).dirty => last'[Victim(a)] = Undefined
  BY <1>2, <1>4, <1>5
<1>7. ASSUME NEW b \in Addrs, Index(b) = Index(a), Holds(Line(b), b), Line(b).dirty
      PROVE  last'[b] = Undefined
  <2>1. Tag(b) = Line(a).tag /\ Line(a).dirty
    BY <1>1, <1>7 DEF Holds
  <2>2. b = Victim(a)
    BY <1>4, <1>7, <2>1, AddressFacts
  <2> QED BY <1>6, <2>1, <2>2
<1> QED BY <1>2, <1>3, <1>6, <1>7, LineDropped

LEMMA HitInvalidateDStep ==
  ASSUME CacheInv, NEW a \in Addrs, HitInvalidateD(a)
  PROVE  CacheInv'
<1> DEFINE line == [Line(a) EXCEPT !.valid = FALSE, !.dirty = FALSE]
<1>1. /\ Line(a) \in CacheLine /\ Line(a).tag = Tag(a)
      /\ (Line(a).dirty => Line(a).valid)
      /\ \A b \in Addrs : Index(b) = Index(a) => Line(b) = Line(a)
      /\ \A b \in Addrs : Index(b) = Index(a) /\ Tag(b) = Tag(a) => b = a
  BY LineFacts DEF HitInvalidateD
<1>2. /\ SetLine(a, line) /\ rdram' = rdram
      /\ last' = IF Line(a).dirty THEN [last EXCEPT ![a] = Undefined] ELSE last
  BY <1>1 DEF HitInvalidateD, KeepsWord, LosesWord
<1>3. line \in CacheLine /\ line.valid = FALSE /\ line.dirty = FALSE
  BY <1>1 DEF CacheLine
<1> HIDE DEF line
<1>4. last \in [Addrs -> Values \cup {Undefined}]
  BY DEF CacheInv, CacheTypeOK
<1>5. /\ last' \in [Addrs -> Values \cup {Undefined}]
      /\ \A b \in Addrs : last'[b] \in {last[b], Undefined}
      /\ Line(a).dirty => last'[a] = Undefined
  BY <1>2, <1>4
<1>6. ASSUME NEW b \in Addrs, Index(b) = Index(a), Holds(Line(b), b), Line(b).dirty
      PROVE  last'[b] = Undefined
  <2>1. b = a /\ Line(a).dirty
    BY <1>1, <1>6 DEF Holds
  <2> QED BY <1>5, <2>1
<1> QED BY <1>2, <1>3, <1>5, <1>6, LineDropped

LEMMA CreateDirtyExclusiveStep ==
  ASSUME CacheInv, NEW a \in Addrs, CreateDirtyExclusive(a)
  PROVE  CacheInv'
<1> DEFINE line == [Line(a) EXCEPT !.tag = Tag(a), !.valid = TRUE, !.dirty = TRUE]
<1>1. /\ Line(a) \in CacheLine /\ (Line(a).dirty => Line(a).valid)
      /\ \A b \in Addrs : Index(b) = Index(a) => Line(b) = Line(a)
      /\ \A b \in Addrs : Index(b) = Index(a) /\ Tag(b) = Tag(a) => b = a
  BY LineFacts
<1>2. /\ SetLine(a, line)
      /\ rdram' = IF Line(a).dirty /\ Line(a).tag # Tag(a) THEN Writeback(a) ELSE rdram
      /\ last' = IF Holds(Line(a), a) THEN last ELSE [last EXCEPT ![a] = Undefined]
  BY DEF CreateDirtyExclusive, KeepsWord, LosesWord
<1>3. Tag(a) \in 0 .. Pages - 1
  BY AddressFacts
<1>4. /\ line \in CacheLine /\ line.tag = Tag(a) /\ line.valid = TRUE
      /\ line.dirty = TRUE /\ line.data = Line(a).data
  BY <1>1, <1>3 DEF CacheLine
<1> HIDE DEF line
<1>5. rdram \in [Addrs -> Values] /\ last \in [Addrs -> Values \cup {Undefined}]
  BY DEF CacheInv, CacheTypeOK
<1>6. /\ last' \in [Addrs -> Values \cup {Undefined}]
      /\ \A b \in Addrs : last'[b] \in {last[b], Undefined}
      /\ ~ Holds(Line(a), a) => last'[a] = Undefined
  BY <1>2, <1>5
<1>7. /\ rdram' \in [Addrs -> Values]
      /\ \A b \in Addrs : Index(b) # Index(a) => rdram'[b] = rdram[b]
      /\ \A b \in Addrs : Index(b) = Index(a) /\ last[b] # Undefined /\ b # a
                                => rdram'[b] = last[b]
  <2>1. CASE Line(a).dirty /\ Line(a).tag = Tag(a)
    <3>1. rdram' = rdram
      BY <1>2, <2>1
    <3>2. ASSUME NEW b \in Addrs, Index(b) = Index(a), last[b] # Undefined, b # a
          PROVE  rdram'[b] = last[b]
      <4>1. ~ Holds(Line(b), b)
        BY <1>1, <2>1, <3>2 DEF Holds
      <4> QED BY <3>1, <3>2, <4>1 DEF CacheInv, WordOk
    <3> QED BY <1>5, <3>1, <3>2
  <2>2. CASE ~ (Line(a).dirty /\ Line(a).tag = Tag(a))
    <3>1. rdram' = IF Line(a).dirty THEN Writeback(a) ELSE rdram
      BY <1>2, <2>2
    <3> QED BY <3>1, WritebackFacts
  <2> QED BY <2>1, <2>2
<1>8. ASSUME NEW b \in Addrs, Index(b) = Index(a), last'[b] # Undefined, line.valid,
             line.tag = Tag(b)
      PROVE  line.data = last'[b]
  <2>1. b = a /\ Holds(Line(a), a) /\ last'[a] = last[a]
    BY <1>1, <1>4, <1>6, <1>8
  <2> QED BY <1>4, <1>8, <2>1 DEF CacheInv, WordOk
<1>9. \A b \in Addrs : Index(b) # Index(a) =>
        rdram'[b] = rdram[b] /\ last'[b] \in {last[b], Undefined}
  BY <1>6, <1>7
<1>10. \A b \in Addrs :
        Index(b) = Index(a) /\ last'[b] # Undefined
        /\ ~ (line.dirty /\ line.tag = Tag(b))
          => rdram'[b] = last'[b]
  BY <1>4, <1>6, <1>7
<1> QED BY <1>2, <1>4, <1>6, <1>7, <1>8, <1>9, <1>10, LineChanged

LEMMA CacheDStep ==
  ASSUME CacheInv, NEW a \in Addrs, CacheD(a)
  PROVE  CacheInv'
BY IndexInvalidateDStep, IndexStoreTagDStep, CreateDirtyExclusiveStep,
   HitInvalidateDStep, HitWriteBackDStep DEF CacheD

-----------------------------------------------------------------------------
(* The instruction cache and the compiled blocks.                           *)

ICacheTypeOK ==
  iCache \in [tag : 0 .. Pages - 1, valid : BOOLEAN, data : [0 .. Words - 1 -> Values]]

\* A table of blocks, each of which ends with its pool.
BlockTable(table, addrs) ==
  /\ table = [a \in addrs |-> table[a]]
  /\ \A a \in addrs :
        /\ table[a] = [code |-> table[a].code, settled |-> table[a].settled,
                       written |-> table[a].written]
        /\ DOMAIN table[a].code \subseteq BlockWords(a) \cap addrs
        /\ table[a].settled \subseteq DOMAIN table[a].code

CodeInv ==
  /\ CacheInv
  /\ ICacheTypeOK
  /\ BlockTable(blocks, Addrs)
  /\ CpuCodeIsCurrent

LEMMA AddrsAreNat == Addrs \in SUBSET Nat /\ ImemAddrs \in SUBSET Nat
BY DEF Addrs, ImemAddrs

\* A reset leaves the blocks of the other pools, and a write marks none of those if
\* it is within the pools that are dropped.
LEMMA DroppedFacts ==
  ASSUME NEW table, NEW addrs \in SUBSET Nat, BlockTable(table, addrs),
         NEW dropped, NEW words, \A w \in words \cap addrs : Pool(w) \in dropped,
         NEW a \in addrs
  PROVE  LET r == Marked(ResetPools(table, dropped), words)
         IN  /\ DOMAIN r = addrs
             /\ r[a] = IF Pool(a) \in dropped THEN NoBlock ELSE table[a]
<1> DEFINE t == ResetPools(table, dropped)
           r == Marked(t, words)
<1>1. t = [b \in addrs |-> IF Pool(b) \in dropped THEN NoBlock ELSE table[b]]
  BY DEF ResetPools, BlockTable
<1> HIDE DEF t
<1>2. /\ DOMAIN r = addrs
      /\ r[a] = [t[a] EXCEPT !.written = @ \cup (words \cap DOMAIN t[a].code)]
  BY <1>1 DEF Marked
<1>3. t[a] = [code |-> t[a].code, settled |-> t[a].settled, written |-> t[a].written]
  BY <1>1 DEF BlockTable, NoBlock
<1>4. words \cap DOMAIN t[a].code = {}
  <2>1. CASE Pool(a) \in dropped
    <3>1. t[a].code = << >>
      BY <1>1, <2>1 DEF NoBlock
    <3> QED BY <3>1
  <2>2. CASE Pool(a) \notin dropped
    <3>1. DOMAIN t[a].code \subseteq BlockWords(a) \cap addrs
      BY <1>1, <2>2 DEF BlockTable
    <3>2. ASSUME NEW w \in words \cap DOMAIN t[a].code PROVE FALSE
      <4>1. w \in addrs /\ w \in a .. PoolEnd(a) /\ a \in Nat /\ w \in Int
        BY <3>1, <3>2 DEF BlockWords
      <4>2. Pool(w) = Pool(a)
        BY <4>1, PoolFacts
      <4> QED BY <2>2, <3>2, <4>1, <4>2
    <3> QED BY <3>2
  <2> QED BY <2>1, <2>2
<1> HIDE DEF r
<1>5. r[a] = t[a]
  <2>1. t[a].written \cup (words \cap DOMAIN t[a].code) = t[a].written
    BY <1>4
  <2> QED BY <1>2, <1>3, <2>1
<1>6. r[a] = IF Pool(a) \in dropped THEN NoBlock ELSE table[a]
  BY <1>1, <1>5
<1> QED BY <1>2, <1>6 DEF r, t

\* A write changes only words of the pools it drops: the blocks that are kept are
\* current, and have no word written.
LEMMA WriteKept ==
  ASSUME NEW table, NEW addrs \in SUBSET Nat, BlockTable(table, addrs),
         NEW memory, Current(table, memory),
         NEW dropped, NEW words, \A w \in words \cap addrs : Pool(w) \in dropped,
         NEW written, \A w \in addrs : Pool(w) \notin dropped =>
                                         written[w] \in {memory[w], Undefined}
  PROVE  /\ BlockTable(Marked(ResetPools(table, dropped), words), addrs)
         /\ Current(Marked(ResetPools(table, dropped), words), written)
<1> DEFINE r == Marked(ResetPools(table, dropped), words)
<1>1. r = [a \in addrs |-> r[a]]
  <2>1. r = [a \in DOMAIN r |-> r[a]]
    BY DEF Marked
  <2>2. DOMAIN r = addrs
    BY DEF Marked, ResetPools, BlockTable
  <2> HIDE DEF r
  <2> QED BY <2>1, <2>2
<1>2. \A a \in addrs : r[a] = IF Pool(a) \in dropped THEN NoBlock ELSE table[a]
  BY DroppedFacts
<1> HIDE DEF r
<1>3. ASSUME NEW a \in addrs
      PROVE  /\ r[a] = [code |-> r[a].code, settled |-> r[a].settled, written |-> r[a].written]
             /\ DOMAIN r[a].code \subseteq BlockWords(a) \cap addrs
             /\ r[a].settled \subseteq DOMAIN r[a].code
             /\ r[a].written = {}
             /\ \A w \in r[a].settled : written[w] # Undefined => r[a].code[w] = written[w]
  <2>1. CASE Pool(a) \in dropped
    <3>1. r[a] = [code |-> << >>, settled |-> {}, written |-> {}]
      BY <1>2, <2>1 DEF NoBlock
    <3> QED BY <3>1
  <2>2. CASE Pool(a) \notin dropped
    <3>1. r[a] = table[a]
      BY <1>2, <2>2
    <3>2. /\ table[a] = [code |-> table[a].code, settled |-> table[a].settled,
                         written |-> table[a].written]
          /\ DOMAIN table[a].code \subseteq BlockWords(a) \cap addrs
          /\ table[a].settled \subseteq DOMAIN table[a].code
      BY DEF BlockTable
    <3>3. a \in DOMAIN table
      BY DEF BlockTable
    <3>4. /\ table[a].written = {}
          /\ \A w \in table[a].settled : memory[w] # Undefined => table[a].code[w] = memory[w]
      BY <3>3 DEF Current
    <3>5. ASSUME NEW w \in table[a].settled, written[w] # Undefined
          PROVE  table[a].code[w] = written[w]
      <4>1. w \in addrs /\ w \in a .. PoolEnd(a) /\ a \in Nat /\ w \in Int
        BY <3>2, <3>5 DEF BlockWords
      <4>2. Pool(w) = Pool(a)
        BY <4>1, PoolFacts
      <4>3. written[w] = memory[w]
        BY <2>2, <3>5, <4>1, <4>2
      <4> QED BY <3>4, <3>5, <4>3
    <3> QED BY <3>1, <3>2, <3>4, <3>5
  <2> QED BY <2>1, <2>2
<1>4. BlockTable(r, addrs)
  BY <1>1, <1>3 DEF BlockTable
<1>5. Current(r, written)
  BY <1>1, <1>3 DEF Current
<1> QED BY <1>4, <1>5 DEF r

\* An operation that drops no block gives up the words it changes.
LEMMA CodeUntouched ==
  ASSUME BlockTable(blocks, Addrs), CpuCodeIsCurrent, blocks' = blocks,
         \A w \in Addrs : last'[w] \in {last[w], Undefined}
  PROVE  BlockTable(blocks', Addrs) /\ CpuCodeIsCurrent'
<1>1. ASSUME NEW a \in Addrs
      PROVE  /\ blocks[a].written = {}
             /\ \A w \in blocks[a].settled : last'[w] # Undefined => blocks[a].code[w] = last'[w]
  <2>1. a \in DOMAIN blocks
    BY DEF BlockTable
  <2>2. /\ blocks[a].written = {}
        /\ \A w \in blocks[a].settled : last[w] # Undefined => blocks[a].code[w] = last[w]
    BY <2>1 DEF CpuCodeIsCurrent, Current
  <2>3. blocks[a].settled \subseteq Addrs
    BY DEF BlockTable
  <2> QED BY <2>2, <2>3
<1>2. DOMAIN blocks = Addrs
  BY DEF BlockTable
<1> QED BY <1>1, <1>2 DEF CpuCodeIsCurrent, Current

\* A block is compiled from words that are current where they are settled.
LEMMA CompiledOk ==
  ASSUME NEW table, NEW addrs, BlockTable(table, addrs),
         NEW memory, Current(table, memory),
         NEW a \in addrs, NEW code, NEW settled, DOMAIN code = BlockWords(a) \cap addrs,
         settled \subseteq DOMAIN code,
         \A w \in settled : memory[w] # Undefined => code[w] = memory[w]
  PROVE  LET compiled == [table EXCEPT ![a] = Block(code, settled)]
         IN  BlockTable(compiled, addrs) /\ Current(compiled, memory)
<1> DEFINE compiled == [table EXCEPT ![a] = Block(code, settled)]
<1>1. table = [b \in addrs |-> table[b]]
  BY DEF BlockTable
<1>2. /\ compiled = [b \in addrs |-> compiled[b]] /\ compiled[a] = Block(code, settled)
      /\ \A b \in addrs : b # a => compiled[b] = table[b]
      /\ DOMAIN compiled = addrs /\ DOMAIN table = addrs
  BY <1>1
<1> HIDE DEF compiled
<1>3. Block(code, settled) = [code |-> code, settled |-> settled, written |-> {}]
  BY DEF Block
<1>4. ASSUME NEW b \in addrs
      PROVE  /\ compiled[b] = [code |-> compiled[b].code, settled |-> compiled[b].settled,
                               written |-> compiled[b].written]
             /\ DOMAIN compiled[b].code \subseteq BlockWords(b) \cap addrs
             /\ compiled[b].settled \subseteq DOMAIN compiled[b].code
             /\ compiled[b].written = {}
             /\ \A w \in compiled[b].settled :
                   memory[w] # Undefined => compiled[b].code[w] = memory[w]
  <2>1. CASE b = a
    BY <1>2, <1>3, <2>1
  <2>2. CASE b # a
    BY <1>2, <2>2 DEF BlockTable, Current
  <2> QED BY <2>1, <2>2
<1>5. BlockTable(compiled, addrs)
  BY <1>2, <1>4 DEF BlockTable
<1>6. Current(compiled, memory)
  BY <1>2, <1>4 DEF Current
<1> QED BY <1>5, <1>6 DEF compiled

LEMMA FilledPageType ==
  ASSUME CacheInv, NEW a \in Addrs
  PROVE  FilledPage(a) \in [tag : 0 .. Pages - 1, valid : BOOLEAN,
                            data : [0 .. Words - 1 -> Values]]
<1>1. Tag(a) \in 0 .. Pages - 1
      /\ \A w \in 0 .. Words - 1 : Tag(a) * Words + w \in Addrs
  BY AddressFacts
<1>2. rdram \in [Addrs -> Values]
  BY DEF CacheInv, CacheTypeOK
<1>3. [w \in 0 .. Words - 1 |-> rdram[Tag(a) * Words + w]] \in [0 .. Words - 1 -> Values]
  BY <1>1, <1>2
<1> QED BY <1>1, <1>3 DEF FilledPage

LEMMA StoreStep ==
  ASSUME CodeInv, NEW a \in Addrs, NEW v \in Values,
         StoreCached(a, v) \/ StoreUncached(a, v)
  PROVE  CodeInv'
<1>1. CacheInv' /\ iCache' = iCache
  BY StoreCachedStep, StoreUncachedStep DEF CodeInv, StoreCached, StoreUncached
<1>2. /\ blocks' = Marked(ResetPools(blocks, {Pool(a)}), {a})
      /\ last' = [last EXCEPT ![a] = v] \/ last' = [last EXCEPT ![a] = PutPast(a, v)]
  BY DEF StoreCached, StoreUncached, Invalidate
<1>3. last \in [Addrs -> Values \cup {Undefined}]
  BY DEF CodeInv, CacheInv, CacheTypeOK
<1>4. \A w \in Addrs : Pool(w) \notin {Pool(a)} => last'[w] \in {last[w], Undefined}
  BY <1>2, <1>3
<1> DEFINE table == blocks
           kept == Marked(ResetPools(table, {Pool(a)}), {a})
<1>5. PICK memory : memory = last'
  OBVIOUS
<1>6. /\ BlockTable(table, Addrs) /\ Current(table, last)
      /\ \A w \in {a} \cap Addrs : Pool(w) \in {Pool(a)}
      /\ \A w \in Addrs : Pool(w) \notin {Pool(a)} => memory[w] \in {last[w], Undefined}
  BY <1>4, <1>5 DEF CodeInv, CpuCodeIsCurrent
<1>7. blocks' = kept
  BY <1>2
<1> HIDE DEF table
<1>8. BlockTable(kept, Addrs) /\ Current(kept, memory)
  BY <1>6, AddrsAreNat, WriteKept
<1> HIDE DEF kept
<1>9. BlockTable(blocks', Addrs) /\ CpuCodeIsCurrent'
  BY <1>5, <1>7, <1>8 DEF CpuCodeIsCurrent
<1> QED BY <1>1, <1>9 DEF CodeInv, ICacheTypeOK

LEMMA DmaCodeStep ==
  ASSUME CodeInv, NEW lo \in Addrs, NEW hi \in Nat, NEW v \in Values,
         DmaToRdram(lo, hi, v)
  PROVE  CodeInv'
<1>1. CacheInv' /\ iCache' = iCache
  BY DmaToRdramStep DEF CodeInv, DmaToRdram
<1>2. /\ blocks' = Marked(ResetPools(blocks, Pool(lo) .. Pool(hi)), lo .. hi - 1)
      /\ last' = [a \in Addrs |-> IF a \in lo .. hi - 1 THEN PutPast(a, v) ELSE last[a]]
  BY DEF DmaToRdram, InvalidateRange
<1>3. ASSUME NEW w \in Addrs, Pool(w) \notin Pool(lo) .. Pool(hi)
      PROVE  last'[w] \in {last[w], Undefined}
  <2>1. lo \in Nat /\ w \in Nat
    BY AddrsAreNat
  <2>2. ~ (lo <= w /\ w <= hi)
    <3>1. ASSUME lo <= w, w <= hi PROVE FALSE
      <4>1. Pool(lo) <= Pool(w) /\ Pool(w) <= Pool(hi)
        BY <2>1, <3>1, PoolFacts
      <4>2. Pool(lo) \in Int /\ Pool(w) \in Int /\ Pool(hi) \in Int
        BY <2>1, PoolFacts
      <4> QED BY <1>3, <4>1, <4>2
    <3> QED BY <3>1
  <2>3. w \notin lo .. hi - 1
    BY <2>1, <2>2
  <2> QED BY <1>2, <2>3
<1>4. ASSUME NEW w \in (lo .. hi - 1) \cap Addrs
      PROVE  Pool(w) \in Pool(lo) .. Pool(hi)
  <2>1. lo \in Nat /\ w \in lo .. hi
    BY AddrsAreNat
  <2> QED BY <2>1, PoolInRange
<1> DEFINE table == blocks
           dropped == Pool(lo) .. Pool(hi)
           words == lo .. hi - 1
           kept == Marked(ResetPools(table, dropped), words)
<1>5. PICK memory : memory = last'
  OBVIOUS
<1>6. /\ BlockTable(table, Addrs) /\ Current(table, last)
      /\ \A w \in words \cap Addrs : Pool(w) \in dropped
      /\ \A w \in Addrs : Pool(w) \notin dropped => memory[w] \in {last[w], Undefined}
  BY <1>3, <1>4, <1>5 DEF CodeInv, CpuCodeIsCurrent
<1>7. blocks' = kept
  BY <1>2
<1> HIDE DEF table, dropped, words
<1>8. BlockTable(kept, Addrs) /\ Current(kept, memory)
  BY <1>6, AddrsAreNat, WriteKept
<1> HIDE DEF kept
<1>9. BlockTable(blocks', Addrs) /\ CpuCodeIsCurrent'
  BY <1>5, <1>7, <1>8 DEF CpuCodeIsCurrent
<1> QED BY <1>1, <1>9 DEF CodeInv, ICacheTypeOK

LEMMA LoadStep ==
  ASSUME CodeInv, NEW a \in Addrs, LoadCached(a)
  PROVE  CodeInv'
<1>1. CacheInv' /\ iCache' = iCache /\ blocks' = blocks /\ last' = last
  BY LoadCachedStep DEF CodeInv, LoadCached
<1>2. BlockTable(blocks', Addrs) /\ CpuCodeIsCurrent'
  BY <1>1, CodeUntouched DEF CodeInv
<1> QED BY <1>1, <1>2 DEF CodeInv, ICacheTypeOK

LEMMA CacheDCodeStep ==
  ASSUME CodeInv, NEW a \in Addrs, CacheD(a)
  PROVE  CodeInv'
<1>1. CacheInv' /\ iCache' = iCache /\ blocks' = blocks
  BY CacheDStep DEF CodeInv, CacheD
<1>2. last \in [Addrs -> Values \cup {Undefined}]
  BY DEF CodeInv, CacheInv, CacheTypeOK
<1>3. last' = last \/ \E b : last' = [last EXCEPT ![b] = Undefined]
  BY DEF CacheD, IndexInvalidateD, IndexStoreTagD, CreateDirtyExclusive, HitInvalidateD,
         HitWriteBackD, KeepsWord, LosesWord
<1>4. \A w \in Addrs : last'[w] \in {last[w], Undefined}
  BY <1>2, <1>3
<1>5. BlockTable(blocks', Addrs) /\ CpuCodeIsCurrent'
  BY <1>1, <1>4, CodeUntouched DEF CodeInv
<1> QED BY <1>1, <1>5 DEF CodeInv, ICacheTypeOK

LEMMA CacheICodeStep ==
  ASSUME CodeInv, NEW a \in Addrs, CacheI(a)
  PROVE  CodeInv'
<1>1. /\ CacheTypeOK /\ ICacheTypeOK
      /\ dCache' = dCache /\ blocks' = blocks
  BY DEF CodeInv, CacheInv, CacheI
<1>2. CASE (\E hit \in BOOLEAN : InvalidateI(a, hit)) \/ IndexStoreTagI \/ FillI(a)
  <2>1. rdram' = rdram /\ last' = last
    BY <1>2 DEF InvalidateI, IndexStoreTagI, FillI
  <2>2. ICacheTypeOK'
    <3>1. CASE FillI(a)
      BY <3>1, FilledPageType DEF FillI, ICacheTypeOK, CodeInv
    <3>2. CASE \E hit \in BOOLEAN : InvalidateI(a, hit)
      <4>1. iCache' = [iCache EXCEPT !.valid = FALSE]
        BY <3>2 DEF InvalidateI
      <4> QED BY <1>1, <4>1 DEF ICacheTypeOK
    <3>3. CASE IndexStoreTagI
      <4>1. iCache' = [iCache EXCEPT !.tag = 0, !.valid = FALSE] /\ 0 \in 0 .. Pages - 1
        BY <3>3, SizesAssumption DEF IndexStoreTagI
      <4> QED BY <1>1, <4>1 DEF ICacheTypeOK
    <3> QED BY <1>2, <3>1, <3>2, <3>3
  <2>3. CacheInv'
    BY <1>1, <2>1 DEF CodeInv, CacheInv, CacheTypeOK, WordOk, Line
  <2>4. BlockTable(blocks', Addrs) /\ CpuCodeIsCurrent'
    BY <1>1, <2>1, CodeUntouched DEF CodeInv
  <2> QED BY <2>2, <2>3, <2>4 DEF CodeInv
<1>3. CASE HitWriteBackI(a)
  <2>1. /\ rdram' = [b \in Addrs |-> IF Tag(b) = Tag(a) THEN iCache.data[Index(b)] ELSE rdram[b]]
        /\ last' = [b \in Addrs |-> IF rdram'[b] # rdram[b] THEN Undefined ELSE last[b]]
        /\ iCache' = iCache
    BY <1>3 DEF HitWriteBackI
  <2>2. \A b \in Addrs : iCache.data[Index(b)] \in Values
    BY <1>1, AddressFacts DEF ICacheTypeOK
  <2>3. /\ rdram' \in [Addrs -> Values] /\ last' \in [Addrs -> Values \cup {Undefined}]
    <3>1. rdram' \in [Addrs -> Values]
      BY <1>1, <2>1, <2>2 DEF CacheTypeOK
    <3>2. last' \in [Addrs -> Values \cup {Undefined}]
      BY <1>1, <2>1 DEF CacheTypeOK
    <3> QED BY <3>1, <3>2
  <2>4. \A b \in Addrs :
            last'[b] \in {last[b], Undefined} /\ (last'[b] # Undefined => rdram'[b] = rdram[b])
    BY <2>1
  <2>5. CacheInv'
    <3>1. \A b \in Addrs : WordOk(b)'
      BY <1>1, <2>4 DEF CodeInv, CacheInv, WordOk, Line
    <3>2. CacheTypeOK'
      BY <1>1, <2>3 DEF CacheTypeOK
    <3> QED BY <1>1, <3>1, <3>2 DEF CodeInv, CacheInv
  <2>6. BlockTable(blocks', Addrs) /\ CpuCodeIsCurrent'
    BY <1>1, <2>4, CodeUntouched DEF CodeInv
  <2> QED BY <1>1, <2>1, <2>5, <2>6 DEF CodeInv, ICacheTypeOK
<1> QED BY <1>2, <1>3 DEF CacheI

\* A word whose copies agree is the last one put there.
LEMMA SettledIsLast ==
  ASSUME CacheInv, NEW w \in Addrs, Visible(w) = rdram[w], last[w] # Undefined
  PROVE  rdram[w] = last[w]
BY DEF CacheInv, WordOk, Visible

LEMMA RunStep ==
  ASSUME CodeInv, NEW a \in Addrs, Run(a) \/ RunUncached(a)
  PROVE  CodeInv'
<1>1. CacheInv /\ rdram' = rdram /\ dCache' = dCache /\ last' = last
  BY DEF CodeInv, Run, RunUncached
<1>2. CacheInv'
  BY <1>1 DEF CacheInv, CacheTypeOK, WordOk, Line
<1>3. /\ BlockTable(blocks, Addrs) /\ Current(blocks, last)
      /\ BlockWords(a) = BlockWords(a) \cap Addrs
  BY BlockInMemory DEF CodeInv, CpuCodeIsCurrent
<1>4. CASE Run(a)
  <2>1. PICK line : line = iCache'
    OBVIOUS
  <2>2. line = IF Holds(iCache, a) THEN iCache ELSE FilledPage(a)
    BY <1>4, <2>1 DEF Run
  <2>3. ICacheTypeOK'
    BY <2>1, <2>2, FilledPageType DEF CodeInv, ICacheTypeOK
  <2> DEFINE code == [w \in BlockWords(a) |-> Fetched(line, w)]
             settled == {w \in BlockWords(a) : Settled(line, w)}
             table == blocks
             compiled == [table EXCEPT ![a] = Block(code, settled)]
  <2>4. blocks' = compiled
    BY <1>4, <2>1 DEF Run, Compiled
  <2>5. DOMAIN code = BlockWords(a) \cap Addrs /\ settled \subseteq DOMAIN code
    BY <1>3
  <2>6. ASSUME NEW w \in settled, last[w] # Undefined
        PROVE  code[w] = last[w]
    <3>1. w \in BlockWords(a) /\ w \in Addrs /\ Settled(line, w)
      BY <1>3, <2>6
    <3>2. code[w] = rdram[w] /\ Visible(w) = rdram[w]
      BY <3>1 DEF Settled
    <3> QED BY <1>1, <2>6, <3>1, <3>2, SettledIsLast
  <2> HIDE DEF code, settled, table
  <2>7. BlockTable(compiled, Addrs) /\ Current(compiled, last)
    BY <1>3, <2>5, <2>6, CompiledOk DEF table
  <2> HIDE DEF compiled
  <2>8. BlockTable(blocks', Addrs) /\ CpuCodeIsCurrent'
    BY <1>1, <2>4, <2>7 DEF CpuCodeIsCurrent
  <2> QED BY <1>2, <2>3, <2>8 DEF CodeInv
<1>5. CASE RunUncached(a)
  <2> DEFINE code == [w \in BlockWords(a) |-> rdram[w]]
             settled == {w \in BlockWords(a) : Visible(w) = rdram[w]}
             table == blocks
             compiled == [table EXCEPT ![a] = Block(code, settled)]
  <2>1. iCache' = iCache /\ blocks' = compiled
    BY <1>5 DEF RunUncached
  <2>2. DOMAIN code = BlockWords(a) \cap Addrs /\ settled \subseteq DOMAIN code
    BY <1>3
  <2>3. ASSUME NEW w \in settled, last[w] # Undefined
        PROVE  code[w] = last[w]
    <3>1. w \in Addrs /\ code[w] = rdram[w] /\ Visible(w) = rdram[w]
      BY <1>3, <2>3
    <3> QED BY <1>1, <2>3, <3>1, SettledIsLast
  <2> HIDE DEF code, settled, table
  <2>4. BlockTable(compiled, Addrs) /\ Current(compiled, last)
    BY <1>3, <2>2, <2>3, CompiledOk DEF table
  <2> HIDE DEF compiled
  <2>5. BlockTable(blocks', Addrs) /\ CpuCodeIsCurrent'
    BY <1>1, <2>1, <2>4 DEF CpuCodeIsCurrent
  <2> QED BY <1>2, <2>1, <2>5 DEF CodeInv, ICacheTypeOK
<1> QED BY <1>4, <1>5

-----------------------------------------------------------------------------
(* The blocks of the RSP.                                                   *)

RspInv ==
  /\ imem \in [ImemAddrs -> Values]
  /\ BlockTable(rspBlocks, ImemAddrs)
  /\ RspCodeIsCurrent

LEMMA ImemSize ==
  /\ ImemWords \in Nat \ {0} /\ PoolWords \in Nat \ {0}
  /\ \A a \in ImemAddrs : BlockWords(a) \subseteq ImemAddrs
<1>1. ImemWords \in Nat \ {0} /\ PoolWords \in Nat \ {0}
      /\ ImemWords % PoolWords = 0
  BY SizesAssumption
<1> DEFINE q == ImemWords \div PoolWords
<1>2. q \in Int /\ ImemWords = PoolWords * q
  BY <1>1, Quotient
<1> HIDE DEF q
<1> QED BY <1>1, <1>2, PoolsFill DEF ImemAddrs, BlockWords

\* Only what lies in the pools that are dropped may change.
LEMMA RspCodeKept ==
  ASSUME RspInv, NEW dropped, NEW words,
         \A w \in words \cap ImemAddrs : Pool(w) \in dropped,
         rspBlocks' = Marked(ResetPools(rspBlocks, dropped), words),
         imem' \in [ImemAddrs -> Values],
         \A w \in ImemAddrs : Pool(w) \notin dropped => imem'[w] = imem[w]
  PROVE  RspInv'
<1> DEFINE table == rspBlocks
           kept == Marked(ResetPools(table, dropped), words)
<1>1. PICK memory : memory = imem'
  OBVIOUS
<1>2. /\ BlockTable(table, ImemAddrs) /\ Current(table, imem)
      /\ \A w \in ImemAddrs : Pool(w) \notin dropped => memory[w] \in {imem[w], Undefined}
  BY <1>1 DEF RspInv, RspCodeIsCurrent
<1>3. rspBlocks' = kept
  OBVIOUS
<1> HIDE DEF table
<1>4. BlockTable(kept, ImemAddrs) /\ Current(kept, memory)
  BY <1>2, AddrsAreNat, WriteKept
<1> HIDE DEF kept
<1>5. BlockTable(rspBlocks', ImemAddrs) /\ RspCodeIsCurrent'
  BY <1>1, <1>3, <1>4 DEF RspCodeIsCurrent
<1> QED BY <1>5 DEF RspInv

LEMMA StoreToImemStep ==
  ASSUME RspInv, NEW a \in ImemAddrs, NEW v \in Values, StoreToImem(a, v)
  PROVE  RspInv'
<1>1. /\ imem' = [imem EXCEPT ![a] = v]
      /\ rspBlocks' = Marked(ResetPools(rspBlocks, {Pool(a)}), {a})
  BY DEF StoreToImem, Invalidate
<1>2. imem \in [ImemAddrs -> Values]
  BY DEF RspInv
<1>3. imem' \in [ImemAddrs -> Values]
      /\ \A w \in ImemAddrs : Pool(w) \notin {Pool(a)} => imem'[w] = imem[w]
  BY <1>1, <1>2
<1>4. \A w \in {a} \cap ImemAddrs : Pool(w) \in {Pool(a)}
  OBVIOUS
<1> QED BY <1>1, <1>3, <1>4, RspCodeKept

LEMMA RspRunStep ==
  ASSUME RspInv, NEW a \in ImemAddrs, RspRun(a)
  PROVE  RspInv'
<1> DEFINE code == [w \in BlockWords(a) |-> imem[w]]
           settled == BlockWords(a)
           table == rspBlocks
           compiled == [table EXCEPT ![a] = Block(code, settled)]
<1>1. rspBlocks' = compiled /\ imem' = imem
  BY DEF RspRun
<1>2. /\ BlockTable(table, ImemAddrs) /\ Current(table, imem)
      /\ BlockWords(a) = BlockWords(a) \cap ImemAddrs
  BY ImemSize DEF RspInv, RspCodeIsCurrent
<1>3. /\ DOMAIN code = BlockWords(a) \cap ImemAddrs /\ settled \subseteq DOMAIN code
      /\ \A w \in settled : imem[w] # Undefined => code[w] = imem[w]
  BY <1>2
<1> HIDE DEF code, settled, table
<1>4. BlockTable(compiled, ImemAddrs) /\ Current(compiled, imem)
  BY <1>2, <1>3, CompiledOk
<1> HIDE DEF compiled
<1>5. BlockTable(rspBlocks', ImemAddrs) /\ RspCodeIsCurrent'
  BY <1>1, <1>4 DEF RspCodeIsCurrent
<1> QED BY <1>1, <1>5 DEF RspInv

\* The rest of a number within one length of the memory.
LEMMA AroundOnce ==
  ASSUME NEW x \in 0 - ImemWords .. 2 * ImemWords - 1
  PROVE  x % ImemWords = CASE x < 0 -> x + ImemWords
                           [] x >= 0 /\ x < ImemWords -> x
                           [] OTHER -> x - ImemWords
<1>1. ImemWords \in Nat \ {0} /\ x \in Int
  BY ImemSize
<1>2. CASE x < 0
  <2>1. x + ImemWords \in 0 .. ImemWords - 1 /\ x = ImemWords * (0 - 1) + (x + ImemWords)
    BY <1>1, <1>2
  <2>2. x % ImemWords = x + ImemWords
    BY <1>1, <2>1, QuotientUnique
  <2> QED BY <1>1, <1>2, <2>2
<1>3. CASE x >= 0 /\ x < ImemWords
  <2>1. x \in 0 .. ImemWords - 1 /\ x = ImemWords * 0 + x
    BY <1>1, <1>3
  <2>2. x % ImemWords = x
    BY <1>1, <2>1, QuotientUnique
  <2> QED BY <1>1, <1>3, <2>2
<1>4. CASE x >= ImemWords
  <2>1. x - ImemWords \in 0 .. ImemWords - 1 /\ x = ImemWords * 1 + (x - ImemWords)
    BY <1>1, <1>4
  <2>2. x % ImemWords = x - ImemWords
    BY <1>1, <2>1, QuotientUnique
  <2> QED BY <1>1, <1>4, <2>2
<1> QED BY <1>1, <1>2, <1>3, <1>4

LEMMA ResetTwice ==
  ASSUME NEW table, NEW A, NEW B
  PROVE  ResetPools(ResetPools(table, A), B) = ResetPools(table, A \cup B)
BY DEF ResetPools

\* The pools that a transfer drops hold every word it changes.
LEMMA DmaDropsFacts ==
  ASSUME NEW start \in ImemAddrs, NEW n \in 1 .. ImemWords + 1
  PROVE  \E dropped :
            /\ DmaDrops(start, (start + n) % ImemWords, n >= ImemWords)
                 = ResetPools(rspBlocks, dropped)
            /\ \A w \in ImemAddrs :
                  (w - start) % ImemWords < n => Pool(w) \in dropped
<1> DEFINE M == ImemWords
           end == (start + n) % M
           full == n >= M
<1>1. M \in Nat \ {0} /\ start \in 0 .. M - 1 /\ start \in Nat /\ n \in 1 .. M + 1
  BY ImemSize DEF ImemAddrs
<1>2. \A w \in ImemAddrs : w \in 0 .. M - 1
  BY <1>1 DEF ImemAddrs
<1>3. ASSUME NEW w \in ImemAddrs
      PROVE  (w - start) % M = IF w >= start THEN w - start ELSE w - start + M
  <2>1. w - start \in 0 - M .. 2 * M - 1
    BY <1>1, <1>2
  <2>2. CASE w >= start
    BY <1>1, <1>2, <2>1, <2>2, AroundOnce
  <2>3. CASE w < start
    BY <1>1, <1>2, <2>1, <2>3, AroundOnce
  <2> QED BY <1>1, <1>2, <2>2, <2>3
<1>4. CASE full
  <2>1. DmaDrops(start, end, full) = ResetPools(rspBlocks, Pool(0) .. Pool(M))
    BY <1>4 DEF DmaDrops, InvalidateRange
  <2>2. \A w \in ImemAddrs : Pool(w) \in Pool(0) .. Pool(M)
    BY <1>1, <1>2, PoolInRange
  <2> QED BY <2>1, <2>2
<1>5. CASE ~ full /\ start + n < M
  <2>1. start + n \in 0 - M .. 2 * M - 1
    BY <1>1, <1>5
  <2>2. end = start + n
    BY <1>1, <1>5, <2>1, AroundOnce
  <2>3. end \in Nat /\ start < end
    BY <1>1, <2>2
  <2> HIDE DEF end
  <2>4. DmaDrops(start, end, full) = ResetPools(rspBlocks, Pool(start) .. Pool(end))
    BY <1>1, <1>5, <2>3 DEF DmaDrops, InvalidateRange
  <2>5. ASSUME NEW w \in ImemAddrs, (w - start) % M < n
        PROVE  Pool(w) \in Pool(start) .. Pool(end)
    <3>1. w \in start .. end
      BY <1>1, <1>2, <1>3, <1>5, <2>2, <2>5
    <3> QED BY <1>1, <2>3, <3>1, PoolInRange
  <2> QED BY <2>4, <2>5 DEF end
<1>6. CASE ~ full /\ ~ (start + n < M)
  <2>1. start + n \in 0 - M .. 2 * M - 1
    BY <1>1, <1>6
  <2>2. end = start + n - M
    BY <1>1, <1>6, <2>1, AroundOnce
  <2>3. end \in Nat /\ end < start
    BY <1>1, <1>6, <2>2
  <2> HIDE DEF end
  <2> DEFINE dropped == IF end # 0
                        THEN (Pool(0) .. Pool(end)) \cup (Pool(start) .. Pool(M))
                        ELSE Pool(start) .. Pool(M)
  <2>4. DmaDrops(start, end, full) = ResetPools(rspBlocks, dropped)
    <3>1. CASE end # 0
      <4> DEFINE A == Pool(0) .. Pool(end)
                 B == Pool(start) .. Pool(M)
      <4>1. DmaDrops(start, end, full) = ResetPools(ResetPools(rspBlocks, A), B)
        BY <1>1, <1>6, <2>3, <3>1 DEF DmaDrops, InvalidateRange
      <4>2. dropped = A \cup B
        BY <3>1
      <4> HIDE DEF dropped, A, B
      <4>3. ResetPools(ResetPools(rspBlocks, A), B) = ResetPools(rspBlocks, A \cup B)
        BY ResetTwice
      <4> QED BY <4>1, <4>2, <4>3
    <3>2. CASE end = 0
      <4>1. DmaDrops(start, end, full) = ResetPools(rspBlocks, Pool(start) .. Pool(M))
        BY <1>1, <1>6, <2>3, <3>2 DEF DmaDrops, InvalidateRange
      <4> QED BY <3>2, <4>1
    <3> QED BY <3>1, <3>2
  <2>5. ASSUME NEW w \in ImemAddrs, (w - start) % M < n
        PROVE  Pool(w) \in dropped
    <3>1. CASE w >= start
      <4>1. w \in start .. M
        BY <1>1, <1>2, <3>1
      <4> QED BY <1>1, <4>1, PoolInRange
    <3>2. CASE ~ (w >= start)
      <4>1. w \in 0 .. end /\ end # 0
        BY <1>1, <1>2, <1>3, <2>2, <2>5, <3>2
      <4> QED BY <2>3, <4>1, PoolInRange
    <3> QED BY <3>1, <3>2
  <2> HIDE DEF dropped
  <2> QED BY <2>4, <2>5 DEF end
<1> QED BY <1>4, <1>5, <1>6

LEMMA DmaToImemStep ==
  ASSUME RspInv, NEW start \in ImemAddrs, NEW n \in 1 .. ImemWords + 1, NEW v \in Values,
         DmaToImem(start, n, v)
  PROVE  RspInv'
<1>1. /\ imem' = [a \in ImemAddrs |-> IF a \in TransferWords(start, n) THEN v ELSE imem[a]]
      /\ rspBlocks' = Marked(DmaDrops(start, (start + n) % ImemWords, n >= ImemWords),
                             TransferWords(start, n))
  BY DEF DmaToImem
<1>2. PICK dropped :
        /\ DmaDrops(start, (start + n) % ImemWords, n >= ImemWords)
             = ResetPools(rspBlocks, dropped)
        /\ \A w \in ImemAddrs : (w - start) % ImemWords < n => Pool(w) \in dropped
  BY DmaDropsFacts
<1>3. \A w \in TransferWords(start, n) \cap ImemAddrs : Pool(w) \in dropped
  BY <1>2 DEF TransferWords
<1>4. imem' \in [ImemAddrs -> Values]
  BY <1>1 DEF RspInv
<1>5. \A w \in ImemAddrs : Pool(w) \notin dropped => imem'[w] = imem[w]
  BY <1>1, <1>3
<1>6. rspBlocks' = Marked(ResetPools(rspBlocks, dropped), TransferWords(start, n))
  BY <1>1, <1>2
<1> QED BY <1>3, <1>4, <1>5, <1>6, RspCodeKept

-----------------------------------------------------------------------------
(* The theorems about the caches and the blocks.                            *)

LEMMA CodeInitOk == CodeInit => CodeInv /\ RspInv
<1> SUFFICES ASSUME CodeInit PROVE CodeInv /\ RspInv
  OBVIOUS
<1> PICK zero \in Values :
        rdram = [a \in Addrs |-> zero] /\ imem = [a \in ImemAddrs |-> zero]
  BY DEF CodeInit
<1> DEFINE line == [tag |-> 0, valid |-> FALSE, dirty |-> FALSE, data |-> rdram[0]]
<1>1. zero \in Values /\ 0 \in 0 .. Pages - 1
  BY SizesAssumption
<1>2. 0 \in Addrs
  <2>1. 0 \in 0 .. Words - 1 /\ 0 * Words + 0 = 0
    BY SizesAssumption
  <2> QED BY <1>1, <2>1, AddressFacts
<1>3. /\ rdram = [a \in Addrs |-> zero] /\ imem = [a \in ImemAddrs |-> zero]
      /\ dCache = [i \in 0 .. Words - 1 |-> line]
      /\ iCache = [tag |-> 0, valid |-> FALSE, data |-> [w \in 0 .. Words - 1 |-> rdram[0]]]
      /\ blocks = [a \in Addrs |-> NoBlock] /\ last = rdram
      /\ rspBlocks = [a \in ImemAddrs |-> NoBlock]
  BY DEF CodeInit
<1>4. rdram \in [Addrs -> Values] /\ rdram[0] \in Values /\ imem \in [ImemAddrs -> Values]
  BY <1>1, <1>2, <1>3
<1>5. line \in CacheLine /\ line.dirty = FALSE /\ line.valid = FALSE
  BY <1>1, <1>4 DEF CacheLine
<1> HIDE DEF line
<1>6. CacheTypeOK
  BY <1>3, <1>4, <1>5 DEF CacheTypeOK
<1>7. \A i \in 0 .. Words - 1 : dCache[i].dirty => dCache[i].valid
  BY <1>3, <1>5
<1>8. \A b \in Addrs : WordOk(b)
  <2>1. \A b \in Addrs : Line(b) = line
    BY <1>3, AddressFacts DEF Line
  <2> QED BY <1>3, <1>5, <2>1 DEF WordOk, Holds
<1>9. ICacheTypeOK
  BY <1>1, <1>3, <1>4 DEF ICacheTypeOK
<1>10. /\ NoBlock = [code |-> NoBlock.code, settled |-> NoBlock.settled,
                      written |-> NoBlock.written]
       /\ DOMAIN NoBlock.code = {} /\ NoBlock.settled = {} /\ NoBlock.written = {}
  <2>1. NoBlock.code = << >>
    BY DEF NoBlock
  <2> QED BY <2>1 DEF NoBlock
<1>11. BlockTable(blocks, Addrs) /\ CpuCodeIsCurrent
  BY <1>3, <1>10 DEF BlockTable, CpuCodeIsCurrent, Current
<1>12. BlockTable(rspBlocks, ImemAddrs) /\ RspCodeIsCurrent
  BY <1>3, <1>10 DEF BlockTable, RspCodeIsCurrent, Current
<1> QED BY <1>4, <1>6, <1>7, <1>8, <1>9, <1>11, <1>12 DEF CodeInv, CacheInv, RspInv

LEMMA CpuNextOk ==
  ASSUME CodeInv, CpuNext PROVE CodeInv'
<1>1. ASSUME NEW a \in Addrs, LoadCached(a) \/ CacheD(a) \/ CacheI(a)
      PROVE  CodeInv'
  BY <1>1, LoadStep, CacheDCodeStep, CacheICodeStep
<1>2. ASSUME NEW a \in EntryPoints, Run(a) \/ RunUncached(a)
      PROVE  CodeInv'
  <2>1. a \in Addrs
    BY SizesAssumption DEF Addrs
  <2> QED BY <1>2, <2>1, RunStep
<1>3. ASSUME NEW a \in Addrs, NEW v \in Values, StoreCached(a, v) \/ StoreUncached(a, v)
      PROVE  CodeInv'
  BY <1>3, StoreStep
<1>4. ASSUME NEW lo \in Addrs, NEW final \in Addrs, NEW v \in Values, lo <= final,
             DmaToRdram(lo, final + 1, v)
      PROVE  CodeInv'
  <2>1. final \in Nat
    BY AddrsAreNat
  <2>2. final + 1 \in Nat
    BY <2>1
  <2> QED BY <1>4, <2>2, DmaCodeStep
<1> QED BY <1>1, <1>2, <1>3, <1>4 DEF CpuNext, CpuSteps

LEMMA RspNextOk ==
  ASSUME RspInv, RspNext PROVE RspInv'
BY RspRunStep, StoreToImemStep, DmaToImemStep DEF RspNext

LEMMA CodeStepOk ==
  CodeInv /\ RspInv /\ [CodeNext]_<<cpuVars, rspVars>> => CodeInv' /\ RspInv'
<1> SUFFICES ASSUME CodeInv, RspInv, [CodeNext]_<<cpuVars, rspVars>>
             PROVE  CodeInv' /\ RspInv'
  OBVIOUS
<1>1. UNCHANGED cpuVars => CodeInv'
  BY DEF cpuVars, CodeInv, CacheInv, CacheTypeOK, WordOk, Line, ICacheTypeOK, CpuCodeIsCurrent, Current
<1>2. UNCHANGED rspVars => RspInv'
  BY DEF rspVars, RspInv, RspCodeIsCurrent, Current
<1>3. CpuNext /\ UNCHANGED rspVars => CodeInv' /\ RspInv'
  BY <1>2, CpuNextOk
<1>4. RspNext /\ UNCHANGED cpuVars => CodeInv' /\ RspInv'
  BY <1>1, RspNextOk
<1>5. UNCHANGED <<cpuVars, rspVars>> => CodeInv' /\ RspInv'
  BY <1>1, <1>2
<1> QED BY <1>3, <1>4, <1>5 DEF CodeNext

LEMMA CodeInvariant == CodeSpec => [](CodeInv /\ RspInv)
BY CodeInitOk, CodeStepOk, PTL DEF CodeSpec

\* Memory holds words, every line a page and a word, and no block reaches beyond its
\* pool or its memory.
THEOREM CodeTypeCorrect ==
  CodeSpec => [](/\ CacheTypeOK /\ ICacheTypeOK
                 /\ BlockTable(blocks, Addrs) /\ BlockTable(rspBlocks, ImemAddrs))
<1>1. CodeInv /\ RspInv => /\ CacheTypeOK /\ ICacheTypeOK
                           /\ BlockTable(blocks, Addrs) /\ BlockTable(rspBlocks, ImemAddrs)
  BY DEF CodeInv, CacheInv, RspInv
<1> QED BY <1>1, CodeInvariant, PTL

\* Through every eviction, write-back and cache operation, for any size of the caches,
\* a cached load finds what was last stored at its address or transferred to it.
THEOREM LoadsSeeLastStore == CodeSpec => []LoadsSeeStores
<1>1. CodeInv => LoadsSeeStores
  BY DEF CodeInv, CacheInv, WordOk, LoadsSeeStores, Visible
<1> QED BY <1>1, CodeInvariant, PTL

\* No block is kept after a store or a transfer to any word it was compiled from, on
\* the CPU or, around the end of its memory, on the RSP; and the code of a word that
\* was settled when it was compiled is what was last put there.  A word compiled from
\* a stale line, or under a store that was still in the D-cache, is covered by the
\* first part only: the write-back and the cache operations drop no block.
THEOREM NoStaleBlock == CodeSpec => []CodeIsCurrent
<1>1. CodeInv /\ RspInv => CodeIsCurrent
  BY DEF CodeInv, RspInv, CodeIsCurrent
<1> QED BY <1>1, CodeInvariant, PTL

-----------------------------------------------------------------------------
(* Address translation.                                                     *)

Prefixes == Area \cup {"low", "ones"}
HiFields == [r : 0 .. 3, prefix : Prefixes, pair : Nat, asid : 0 .. 255]
LoFields == [pfn : Nat, v : BOOLEAN, d : BOOLEAN, g : BOOLEAN]
TlbEntry == [hi : HiFields, lo : [0 .. 1 -> LoFields], global : BOOLEAN,
             pairs : {1, 4}, computed : BOOLEAN]
Status == [ksu : Ksu, exl : BOOLEAN, extended : SUBSET Ksu]

Address == [area : Area, page : Nat]

MmuTypeOK ==
  /\ tlb \in [Slots -> TlbEntry]
  /\ entryHi \in HiFields
  /\ index \in Slots
  /\ status \in Status
  /\ writes \in 0 .. MaxWrites

\* An entry's page is a multiple of its size, as TlbEntry::Write masks it.
Aligned(entry) == Floor(entry.hi.pair, entry.pairs) = entry.hi.pair

\* The translation functions are those of the mode that Status says.
ModesFresh == operating = Operating(status) /\ addressing = Addressing(status)

MmuInv ==
  /\ MmuTypeOK
  /\ \A s \in Slots : Aligned(tlb[s])
  /\ ModesFresh
  /\ ProbeFindsFault

LEMMA FloorFacts ==
  ASSUME NEW n \in Nat, NEW m \in {1, 4}
  PROVE  Floor(n, m) \in Nat /\ Floor(Floor(n, m), m) = Floor(n, m)
<1>1. CASE m = 1
  BY <1>1 DEF Floor
<1>2. CASE m = 4
  BY <1>2 DEF Floor
<1> QED BY <1>1, <1>2

\* The least of a set of numbers is one of them.
LEMMA HasMinimum ==
  ASSUME NEW S \in SUBSET Nat, S # {}
  PROVE  Min(S) \in S
<1> DEFINE R == OpToRel(<, Nat)
<1>1. IsWellFoundedOn(R, Nat)
  BY NatLessThanWellFounded
<1>2. \A i, m \in Nat : i < m => <<i, m>> \in R
  BY DEF OpToRel
<1> HIDE DEF R
<1>3. PICK m \in S : \A i \in S : ~ (<<i, m>> \in R)
  BY <1>1, WFMin
<1>4. \A i \in S : ~ (i < m)
  BY <1>2, <1>3
<1>5. \A i \in S : m <= i
  BY <1>4
<1> QED BY <1>5 DEF Min

LEMMA AddressTypes ==
  ASSUME NEW addr \in Address, NEW r \in 0 .. 3, NEW asid \in 0 .. 255
  PROVE  /\ addr.area \in Area /\ addr.page \in Nat
         /\ Region(addr.area) \in 0 .. 3
         /\ Hi(r, addr, asid) \in HiFields
<1>1. addr.area \in Area /\ addr.page \in Nat
  BY DEF Address
<1>2. Prefix(addr.area) \in Prefixes
  BY <1>1 DEF Prefix, Prefixes
<1>4. addr.page \div 2 \in Nat
  BY <1>1
<1>3. Region(addr.area) \in 0 .. 3
  BY DEF Region
<1> QED BY <1>1, <1>2, <1>3, <1>4 DEF Hi, HiFields

\* A translation that fails names the slot that the search has found, or none.
NamesHit(result, addr) ==
  result.kind \in {"TlbInvalid", "TlbModification", "TlbMiss", "XtlbMiss"}
    => result.slot = Hit(addr)

LEMMA FaultNamesHit ==
  ASSUME NEW addr, NEW op
  PROVE  /\ NamesHit(TlbTranslate(addr, op), addr)
         /\ NamesHit(Translate(addr, op), addr)
         /\ NamesHit(Fails("AddressError", NoSlot), addr)
<1> DEFINE error == Fails("AddressError", NoSlot)
           segment == Segment(addr.area)
<1>1. NamesHit(error, addr)
  BY DEF Fails, NamesHit
<1>2. NamesHit(TlbTranslate(addr, op), addr)
  <2>1. \/ TlbTranslate(addr, op).slot = Hit(addr)
        \/ TlbTranslate(addr, op).kind = "Ok"
    BY DEF TlbTranslate, Fails
  <2> QED BY <2>1 DEF NamesHit
<1>3. \A f, c : NamesHit([kind |-> "Ok", frame |-> f, cached |-> c], addr)
  BY DEF NamesHit
<1>4. \/ Translate(addr, op) = error
      \/ Translate(addr, op) = Devirtualize(addr, op)
  BY DEF Translate
<1>5. \/ Devirtualize(addr, op) = error
      \/ Devirtualize(addr, op) = TlbTranslate(addr, op)
      \/ Devirtualize(addr, op) = [kind |-> "Ok", frame |-> addr.page,
                                   cached |-> segment = "cached"]
  BY Zenon DEF Devirtualize
<1> HIDE DEF error, segment
<1>6. NamesHit(Translate(addr, op), addr)
  BY <1>1, <1>2, <1>3, <1>4, <1>5
<1> QED BY <1>1, <1>2, <1>6 DEF error

\* With the EntryHi that such a fault leaves, TLBP searches as the translation did.
LEMMA ProbeIsHit ==
  ASSUME MmuTypeOK, \A s \in Slots : Aligned(tlb[s]), NEW addr \in Address,
         tlb' = tlb, \A s \in Slots : tlb[s].computed,
         entryHi' = Hi(Region(addr.area), addr, entryHi.asid)
  PROVE  Probe' = Hit(addr)
<1>1. entryHi.asid \in 0 .. 255
  BY DEF MmuTypeOK, HiFields
<1>2. /\ entryHi'.prefix = Prefix(addr.area) /\ entryHi'.pair = addr.page \div 2
      /\ entryHi'.asid = entryHi.asid /\ entryHi'.r = Region(addr.area)
  BY DEF Hi
<1>3. ASSUME NEW s \in Slots
      PROVE  Translates(tlb[s], addr) <=> Probes(tlb[s])'
  <2>1. Floor(tlb[s].hi.pair, tlb[s].pairs) = tlb[s].hi.pair /\ tlb[s].computed
    BY DEF Aligned
  <2> QED BY <1>2, <2>1 DEF Translates, MatchesPage, Probes
<1>4. {s \in Slots : Translates(tlb[s], addr)} = {s \in Slots : Probes(tlb[s])'}
  BY <1>3
<1>5. Probe' = First({s \in Slots : Probes(tlb[s])'})
  BY DEF Probe, First
<1> QED BY <1>4, <1>5 DEF Hit

LEMMA FaultStep ==
  ASSUME MmuInv, NEW addr \in Address, NEW result, NamesHit(result, addr),
         Raise(addr, result), UNCHANGED <<tlb, index, writes>>
  PROVE  MmuInv'
<1> DEFINE r == RegionAfterFault(result.kind, addr)
<1>1. MmuTypeOK /\ ModesFresh /\ \A s \in Slots : Aligned(tlb[s])
  BY DEF MmuInv
<1>2. /\ tlb' = tlb /\ index' = index /\ writes' = writes
      /\ status' = [status EXCEPT !.exl = TRUE]
      /\ entryHi' = Hi(r, addr, entryHi.asid)
      /\ fault' = [kind |-> result.kind, addr |-> addr, slot |-> result.slot,
                   stale |-> entryHi'.r # Region(addr.area)]
      /\ IF status.exl THEN UNCHANGED <<operating, addressing>>
                       ELSE SetVaddrToPaddrFuncs(status')
  BY DEF Raise
<1>3. entryHi.r \in 0 .. 3 /\ entryHi.asid \in 0 .. 255
  BY <1>1 DEF MmuTypeOK, HiFields
<1>4. r \in 0 .. 3
  BY <1>3, AddressTypes DEF RegionAfterFault
<1>5. entryHi' \in HiFields
  BY <1>2, <1>3, <1>4, AddressTypes
<1>6. status' \in Status
  BY <1>1, <1>2 DEF MmuTypeOK, Status
<1>7. MmuTypeOK'
  BY <1>1, <1>2, <1>5, <1>6 DEF MmuTypeOK
<1>8. ModesFresh'
  <2>1. CASE status.exl
    <3>1. status' = status
      BY <1>1, <1>2, <2>1 DEF MmuTypeOK, Status
    <3> QED BY <1>1, <1>2, <2>1, <3>1 DEF ModesFresh
  <2>2. CASE ~ status.exl
    BY <1>2, <2>2 DEF ModesFresh, SetVaddrToPaddrFuncs
  <2> QED BY <2>1, <2>2
<1>9. ProbeFindsFault'
  <2> SUFFICES ASSUME fault'.kind \in {"TlbInvalid", "TlbModification", "TlbMiss", "XtlbMiss"},
                      ~ fault'.stale, \A s \in Slots : tlb'[s].computed
               PROVE  Probe' = fault'.slot
    BY DEF ProbeFindsFault
  <2>1. fault'.kind = result.kind /\ fault'.slot = result.slot
    BY <1>2
  <2>2. entryHi'.r = Region(addr.area)
    BY <1>2
  <2>3. entryHi'.r = r
    BY <1>2 DEF Hi
  <2>4. Probe' = Hit(addr)
    BY <1>1, <1>2, <2>2, <2>3, ProbeIsHit
  <2>5. result.slot = Hit(addr)
    BY <2>1 DEF NamesHit
  <2> QED BY <2>1, <2>4, <2>5
<1> QED BY <1>1, <1>2, <1>7, <1>8, <1>9 DEF MmuInv, Aligned

LEMMA AccessStep ==
  ASSUME MmuInv, NEW addr \in Addresses, NEW op, Access(addr, op)
  PROVE  MmuInv'
<1> DEFINE result == Translate(addr, op)
<1>1. Raise(addr, result) /\ UNCHANGED <<tlb, index, writes>>
  BY DEF Access
<1>2. NamesHit(result, addr) /\ addr \in Address
  BY FaultNamesHit, MmuAssumption DEF Address
<1> HIDE DEF result
<1> QED BY <1>1, <1>2, FaultStep

LEMMA LookupStep ==
  ASSUME MmuInv, NEW addr \in Addresses, NEW low \in LowAreas, Lookup(addr, low)
  PROVE  MmuInv'
<1> DEFINE seen == IF operating = "kernel" THEN [addr EXCEPT !.area = low] ELSE addr
           result == IF Segment(low) = "mapped" THEN TlbTranslate(seen, "Read")
                     ELSE Fails("AddressError", NoSlot)
<1>1. Raise(seen, result) /\ UNCHANGED <<tlb, index, writes>>
  BY DEF Lookup
<1>2. addr \in Address /\ low \in Area
  BY MmuAssumption DEF Address, Area
<1>3. seen \in Address
  BY <1>2 DEF Address
<1> HIDE DEF seen
<1>4. NamesHit(result, seen)
  BY FaultNamesHit
<1> HIDE DEF result
<1> QED BY <1>1, <1>3, <1>4, FaultStep

\* Everything else the program does ends the handling of the fault.
LEMMA UntoldStep ==
  ASSUME MmuTypeOK', \A s \in Slots : Aligned(tlb[s])', ModesFresh', Untold
  PROVE  MmuInv'
<1>1. fault'.kind = "None"
  BY DEF Untold, NoFault
<1> QED BY <1>1 DEF MmuInv, ProbeFindsFault

LEMMA OtherExceptionStep ==
  ASSUME MmuInv, OtherException
  PROVE  MmuInv'
<1>1. MmuTypeOK' /\ ModesFresh'
  BY DEF MmuInv, OtherException, MmuTypeOK, Status, ModesFresh, SetVaddrToPaddrFuncs
<1> QED BY <1>1, UntoldStep DEF MmuInv, OtherException

LEMMA EretStep ==
  ASSUME MmuInv, Eret
  PROVE  MmuInv'
<1>1. MmuTypeOK' /\ ModesFresh'
  BY DEF MmuInv, Eret, MmuTypeOK, Status, ModesFresh, SetVaddrToPaddrFuncs
<1> QED BY <1>1, UntoldStep DEF MmuInv, Eret

LEMMA Mtc0StatusStep ==
  ASSUME MmuInv, NEW mode \in Modes, Mtc0Status(mode)
  PROVE  MmuInv'
<1>1. mode \in [ksu : Ksu, extended : SUBSET Ksu]
  BY MmuAssumption
<1>2. MmuTypeOK' /\ ModesFresh'
  BY <1>1 DEF MmuInv, Mtc0Status, MmuTypeOK, Status, ModesFresh, SetVaddrToPaddrFuncs
<1> QED BY <1>2, UntoldStep DEF MmuInv, Mtc0Status

LEMMA Mtc0EntryHiStep ==
  ASSUME MmuInv, NEW addr \in Addresses, NEW asid \in Asids, Mtc0EntryHi(addr, asid)
  PROVE  MmuInv'
<1>0. addr \in Address /\ asid \in 0 .. 255
  BY MmuAssumption DEF Address
<1>1. Region(addr.area) \in 0 .. 3
  BY DEF Region
<1>2. entryHi' \in HiFields
  BY <1>0, <1>1, AddressTypes DEF Mtc0EntryHi
<1>3. MmuTypeOK' /\ ModesFresh'
  BY <1>2 DEF MmuInv, Mtc0EntryHi, MmuTypeOK, ModesFresh
<1> QED BY <1>3, UntoldStep DEF MmuInv, Mtc0EntryHi

LEMMA TlbpStep ==
  ASSUME MmuInv, Tlbp
  PROVE  MmuInv'
<1> DEFINE found == {s \in Slots : Probes(tlb[s])}
<1>1. Slots \subseteq Nat /\ 0 \in Slots /\ NoSlot \notin Slots
  BY MmuAssumption DEF Slots, NoSlot
<1>2. Probe = IF found # {} THEN Min(found) ELSE NoSlot
  BY DEF Probe, First
<1>3. found \subseteq Slots
  OBVIOUS
<1> HIDE DEF found
<1>4. found # {} => Min(found) \in found
  BY <1>1, <1>3, HasMinimum
<1>5. index' \in Slots
  BY <1>1, <1>2, <1>3, <1>4 DEF Tlbp
<1>6. MmuTypeOK' /\ ModesFresh'
  BY <1>5 DEF MmuInv, Tlbp, MmuTypeOK, ModesFresh
<1>7. ProbeFindsFault'
  BY DEF MmuInv, Tlbp, ProbeFindsFault, Probe, Probes
<1> QED BY <1>6, <1>7 DEF MmuInv, Tlbp, Aligned

LEMMA TlbrStep ==
  ASSUME MmuInv, Tlbr
  PROVE  MmuInv'
<1>1. tlb[index] \in TlbEntry
  BY DEF MmuInv, MmuTypeOK
<1>2. entryHi' \in HiFields
  BY <1>1 DEF Tlbr, TlbEntry
<1>3. MmuTypeOK' /\ ModesFresh'
  BY <1>2 DEF MmuInv, Tlbr, MmuTypeOK, ModesFresh
<1> QED BY <1>3, UntoldStep DEF MmuInv, Tlbr

\* TlbEntry::Write leaves an entry whose page is aligned to its size.
LEMMA WrittenEntry ==
  ASSUME NEW hi \in HiFields, NEW lo \in EntryLos, NEW pageMask \in PageMasks
  PROVE  Written(hi, lo, pageMask) \in TlbEntry /\ Aligned(Written(hi, lo, pageMask))
<1> DEFINE pairs == Pairs(pageMask)
           los == [i \in 0 .. 1 |-> lo[i + 1]]
           masked == MaskedHi(hi, pairs)
           global == lo[1].g /\ lo[2].g
<1>1. pairs \in {1, 4}
  BY DEF Pairs
<1>2. hi.pair \in Nat
  BY DEF HiFields
<1>3. los \in [0 .. 1 -> LoFields]
  <2>1. \A i \in 1 .. 2 : lo[i] \in LoFields
    BY MmuAssumption DEF LoFields
  <2> QED BY <2>1
<1>4. global \in BOOLEAN
  OBVIOUS
<1>5. /\ Written(hi, lo, pageMask) =
           [hi |-> masked, lo |-> los, global |-> global, pairs |-> pairs,
            computed |-> TRUE]
      /\ masked = [hi EXCEPT !.pair = Floor(hi.pair, pairs)]
  BY DEF Written, MaskedHi
<1> HIDE DEF pairs, los, masked, global
<1>6. Floor(hi.pair, pairs) \in Nat /\ Floor(Floor(hi.pair, pairs), pairs) = Floor(hi.pair, pairs)
  BY <1>1, <1>2, FloorFacts
<1>7. masked \in HiFields /\ masked.pair = Floor(hi.pair, pairs)
  BY <1>5, <1>6 DEF HiFields
<1>8. Written(hi, lo, pageMask) \in TlbEntry
  BY <1>1, <1>3, <1>4, <1>5, <1>7 DEF TlbEntry
<1>9. Aligned(Written(hi, lo, pageMask))
  <2>1. Written(hi, lo, pageMask).hi = masked /\ Written(hi, lo, pageMask).pairs = pairs
    BY <1>5
  <2> QED BY <1>6, <1>7, <2>1 DEF Aligned
<1> QED BY <1>8, <1>9

LEMMA WriteEntryStep ==
  ASSUME MmuInv, NEW slot \in Slots, NEW lo \in EntryLos, NEW pageMask \in PageMasks,
         WriteEntry(slot, lo, pageMask), index' \in Slots
  PROVE  MmuInv'
<1> DEFINE entry == Written(entryHi, lo, pageMask)
<1>1. entry \in TlbEntry /\ Aligned(entry)
  BY WrittenEntry DEF MmuInv, MmuTypeOK
<1>2. tlb' = [tlb EXCEPT ![slot] = entry]
  BY DEF WriteEntry
<1> HIDE DEF entry
<1>3. tlb' \in [Slots -> TlbEntry]
  BY <1>1, <1>2 DEF MmuInv, MmuTypeOK
<1>4. \A s \in Slots : Aligned(tlb'[s])
  BY <1>1, <1>2 DEF MmuInv, MmuTypeOK
<1>5. writes' \in 0 .. MaxWrites
  BY MmuAssumption DEF MmuInv, MmuTypeOK, WriteEntry
<1>6. MmuTypeOK' /\ ModesFresh'
  BY <1>3, <1>5 DEF MmuInv, WriteEntry, MmuTypeOK, ModesFresh
<1>7. \A s \in Slots : Aligned(tlb[s])'
  BY <1>4 DEF Aligned
<1> QED BY <1>6, <1>7, UntoldStep DEF WriteEntry

LEMMA MmuInitInv == MmuInit => MmuInv
<1> SUFFICES ASSUME MmuInit PROVE MmuInv
  OBVIOUS
<1>1. Untouched \in TlbEntry /\ Aligned(Untouched)
  <2>1. [r |-> 0, prefix |-> "ones", pair |-> 0, asid |-> 255] \in HiFields
    BY DEF HiFields, Prefixes, Area, Word
  <2>2. [i \in 0 .. 1 |-> [pfn |-> 0, v |-> FALSE, d |-> FALSE, g |-> FALSE]]
          \in [0 .. 1 -> LoFields]
    BY DEF LoFields
  <2> QED BY <2>1, <2>2 DEF Untouched, TlbEntry, Aligned, Floor
<1>2. Cleared \in TlbEntry /\ Aligned(Cleared)
  <2>1. [r |-> 3, prefix |-> "kseg0", pair |-> 0, asid |-> 0] \in HiFields
    BY DEF HiFields, Prefixes, Area, Word
  <2> DEFINE his == [r |-> 3, prefix |-> "kseg0", pair |-> 0, asid |-> 0]
  <2>2. Cleared = [Untouched EXCEPT !.hi = his, !.global = FALSE, !.computed = TRUE]
    BY DEF Cleared
  <2>3. his.pair = 0
    OBVIOUS
  <2>4. Untouched.pairs = 1
    BY DEF Untouched
  <2> HIDE DEF his
  <2>5. Cleared \in TlbEntry
    BY <1>1, <2>1, <2>2 DEF TlbEntry, his
  <2>6. Cleared.hi = his /\ Cleared.pairs = 1
    BY <1>1, <2>2, <2>4 DEF TlbEntry
  <2> QED BY <2>3, <2>5, <2>6 DEF Aligned, Floor
<1>3. /\ tlb \in [Slots -> TlbEntry]
      /\ \A s \in Slots : Aligned(tlb[s])
  BY <1>1, <1>2 DEF MmuInit
<1>4. entryHi \in HiFields
  BY DEF MmuInit, HiFields, Prefixes
<1>5. status \in Status /\ index \in Slots /\ writes \in 0 .. MaxWrites
  BY MmuAssumption DEF MmuInit, Status, Ksu, Slots
<1>6. ModesFresh
  BY DEF MmuInit, ModesFresh, Operating, Addressing, IsKernel
<1>7. ProbeFindsFault
  BY DEF MmuInit, NoFault, ProbeFindsFault
<1> QED BY <1>3, <1>4, <1>5, <1>6, <1>7 DEF MmuInv, MmuTypeOK

LEMMA MmuStepInv == MmuInv /\ [MmuNext]_mmuVars => MmuInv'
<1> SUFFICES ASSUME MmuInv, [MmuNext]_mmuVars PROVE MmuInv'
  OBVIOUS
<1>1. CASE \E addr \in Addresses, op \in {"Read", "Write"} : Access(addr, op)
  BY <1>1, AccessStep
<1>11. CASE \E addr \in Addresses, low \in LowAreas : Lookup(addr, low)
  BY <1>11, LookupStep
<1>2. CASE \E addr \in Addresses, asid \in Asids : Mtc0EntryHi(addr, asid)
  BY <1>2, Mtc0EntryHiStep
<1>3. CASE Tlbp
  BY <1>3, TlbpStep
<1>4. CASE Tlbr
  BY <1>4, TlbrStep
<1>5. CASE \E slot \in Slots, lo \in EntryLos, pageMask \in PageMasks :
              Tlbwi(slot, lo, pageMask)
  BY <1>5, WriteEntryStep DEF Tlbwi
<1>6. CASE \E lo \in EntryLos, pageMask \in PageMasks : Tlbwr(lo, pageMask)
  <2>1. PICK lo \in EntryLos, pageMask \in PageMasks : Tlbwr(lo, pageMask)
    BY <1>6
  <2>2. PICK slot \in IF Wired \in Slots THEN Wired .. Entries - 1 ELSE Slots :
               WriteEntry(slot, lo, pageMask)
    BY <2>1 DEF Tlbwr
  <2>3. slot \in Slots
    BY <2>2, MmuAssumption DEF Slots
  <2>4. index' \in Slots
    BY <2>1 DEF Tlbwr, MmuInv, MmuTypeOK
  <2> QED BY <2>2, <2>3, <2>4, WriteEntryStep
<1>7. CASE OtherException
  BY <1>7, OtherExceptionStep
<1>8. CASE Eret
  BY <1>8, EretStep
<1>9. CASE \E mode \in Modes : Mtc0Status(mode)
  BY <1>9, Mtc0StatusStep
<1>10. CASE UNCHANGED mmuVars
  BY <1>10 DEF mmuVars, MmuInv, MmuTypeOK, Aligned, ModesFresh, Operating, IsKernel,
       Addressing, ProbeFindsFault, Probe, Probes
<1> QED
  BY <1>1, <1>2, <1>3, <1>4, <1>5, <1>6, <1>7, <1>8, <1>9, <1>10, <1>11 DEF MmuNext

LEMMA MmuInvariant == MmuSpec => []MmuInv
<1>1. MmuInit => MmuInv
  BY MmuInitInv
<1>2. MmuInv /\ [MmuNext]_mmuVars => MmuInv'
  BY MmuStepInv
<1> QED BY <1>1, <1>2, PTL DEF MmuSpec

\* The TLB holds well-formed entries, whose pages are multiples of their sizes,
\* and Index always names one of them, whatever TLBP found (TlbEntry::Write, tlbp).
THEOREM TlbTypeCorrect == MmuSpec => [](MmuTypeOK /\ \A s \in Slots : Aligned(tlb[s]))
<1>1. MmuInv => MmuTypeOK /\ \A s \in Slots : Aligned(tlb[s])
  BY DEF MmuInv
<1> QED BY <1>1, MmuInvariant, PTL

\* The translation functions in use are always those that Status asks for, whichever
\* of the exception entry, ERET and MTC0 has changed it, although an exception
\* raised inside a handler does not set them again (SetVaddrToPaddrFuncs).
THEOREM ModesFollowStatus == MmuSpec => []ModesFresh
<1>1. MmuInv => ModesFresh
  BY DEF MmuInv
<1> QED BY <1>1, MmuInvariant, PTL

\* TLBP in the handler of a failed translation finds the very entry that refused
\* the access, and none after a miss, for every TLB, page size and address (tlbp and
\* VirtualToPhysicalAddressTlb search alike).
THEOREM HandlerFindsFault == MmuSpec => []ProbeFindsFault
<1>1. MmuInv => ProbeFindsFault
  BY DEF MmuInv
<1> QED BY <1>1, MmuInvariant, PTL
=============================================================================
