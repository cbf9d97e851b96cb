---------------------- MODULE N64RegisterAllocatorProofs ----------------------
(***************************************************************************)
(* Proofs about N64RegisterAllocator, for any number of host and guest     *)
(* registers and blocks of any length.  Each function of the template gets *)
(* a lemma that says what it does to the bindings and to what the emitted  *)
(* code has left in the registers.                                         *)
(***************************************************************************)
EXTENDS N64RegisterAllocator, SequenceTheorems, NaturalsInduction,
        WellFoundedInduction, TLAPS

Binding == [guest : Guests \cup {R!None}, access : Nat,
            dirty : BOOLEAN, reserved : BOOLEAN]
Machine ==
  [at : {"run", "skip", "left"}, stack : Seq(Int), underflow : BOOLEAN,
   evicted : BOOLEAN, gpr : [Guests -> Int], host : [HostNames -> Int],
   bindings : [R!Indices -> Binding],
   guest_to_host : [Guests -> R!Indices \cup {R!None}],
   next_free : 1 .. Len(R!Hosts) + 1, access_index : Nat,
   aligned : BOOLEAN, stack_space : BOOLEAN]

\* A guest is bound to the host register it is found under, host registers not yet
\* used are free and, until the first eviction, a guest that is found is bound.
Links(t) ==
  /\ \A i \in R!Indices :
       t.bindings[i].guest # R!None => t.guest_to_host[t.bindings[i].guest] = i
  /\ \A i \in R!Indices : t.next_free <= i => t.bindings[i].guest = R!None
  /\ ~ t.evicted => \A g \in Guests :
       t.guest_to_host[g] # R!None => t.bindings[t.guest_to_host[g]].guest = g

\* A bound guest is in its host register, and one that is not in memory is bound
\* by a binding that will be stored.
Sound(t, gs) ==
  /\ \A i \in R!Indices :
       t.bindings[i].guest # R!None => t.host[R!Hosts[i]] = gs[t.bindings[i].guest]
  /\ \A g \in Guests \ {0} :
       \/ t.gpr[g] = gs[g]
       \/ \E i \in R!Indices : t.bindings[i].guest = g /\ t.bindings[i].dirty

NoneReserved(t) == \A i \in R!Indices : ~ t.bindings[i].reserved
InMemory(t, gs) == \A g \in Guests \ {0} : t.gpr[g] = gs[g]

AllocatorInv ==
  /\ m \in Machine /\ guest \in [Guests -> Int] /\ guest[0] = 0
  /\ confused \in BOOLEAN
  /\ m.at # "skip"
  /\ m.at = "run" => NoneReserved(m)
  /\ Links(m)
  /\ ~ confused /\ m.at = "run" => Sound(m, guest)
  /\ ~ confused /\ m.at = "left" => InMemory(m, guest)

-----------------------------------------------------------------------------
(* The host registers.                                                     *)

LEMMA HostFacts ==
  /\ R!Hosts \in Seq(STRING) /\ Len(R!Hosts) \in Nat
  /\ Len(Volatile) \in Nat /\ Len(Volatile) <= Len(R!Hosts)
  /\ \A i \in 1 .. Len(Volatile) : R!Hosts[i] = Volatile[i]
  /\ R!Indices = 1 .. Len(R!Hosts)
  /\ \A i \in R!Indices : R!Hosts[i] \in HostNames
  /\ \A i \in R!Indices : i \in Int
  /\ R!None \notin R!Indices /\ R!None \notin Guests
  /\ R!None = -1
<1>1. R!Hosts \in Seq(STRING) /\ Len(R!Hosts) = Len(Volatile) + Len(NonVolatile)
      /\ \A i \in 1 .. Len(Volatile) : R!Hosts[i] = Volatile[i]
  BY AllocatorAssumption, ConcatProperties DEF R!Hosts
<1>2. Len(Volatile) \in Nat /\ Len(NonVolatile) \in Nat /\ Len(R!Hosts) \in Nat
  BY <1>1, AllocatorAssumption, LenProperties
<1>3. Len(Volatile) <= Len(R!Hosts)
  BY <1>1, <1>2
<1>4. R!Indices = 1 .. Len(R!Hosts) /\ \A i \in R!Indices : i \in Int
  BY <1>2 DEF R!Indices
<1>5. R!None \notin R!Indices /\ R!None \notin Guests
  BY <1>4, <1>2, AllocatorAssumption DEF R!None
<1> QED BY <1>1, <1>2, <1>3, <1>4, <1>5 DEF HostNames, R!None

\* A volatile register is found at its place.
LEMMA VolatileIndex ==
  ASSUME NEW h \in {Volatile[i] : i \in 1 .. Len(Volatile)}
  PROVE  /\ R!IsBindable(h)
         /\ R!IndexOf(h) \in R!Indices
         /\ R!Hosts[R!IndexOf(h)] = h
         /\ R!IndexOf(h) <= Len(Volatile)
<1>1. PICK k \in 1 .. Len(Volatile) : h = Volatile[k]
  OBVIOUS
<1>2. k \in R!Indices /\ R!Hosts[k] = h /\ k <= Len(Volatile)
  BY <1>1, HostFacts
<1>3. R!IndexOf(h) \in R!Indices /\ R!Hosts[R!IndexOf(h)] = h
  BY <1>2 DEF R!IndexOf
<1>4. R!IndexOf(h) = k
  BY <1>2, <1>3, AllocatorAssumption
<1> QED BY <1>2, <1>3, <1>4 DEF R!IsBindable

\* A set of numbers has a least element.
LEMMA HasLeast ==
  ASSUME NEW S \in SUBSET Nat, S # {}
  PROVE  \E k \in S : \A i \in S : k <= i
<1> DEFINE before == OpToRel(<, Nat)
<1>1. IsWellFoundedOn(before, Nat)
  BY NatLessThanWellFounded
<1>2. \A i, k \in Nat : i < k => <<i, k>> \in before
  BY DEF OpToRel
<1> HIDE DEF before
<1>3. PICK k \in S : \A i \in S : ~ (<<i, k>> \in before)
  BY <1>1, WFMin
<1>4. \A i \in S : ~ (i < k)
  BY <1>2, <1>3
<1>5. \A i \in S : k <= i
  BY <1>4
<1> QED BY <1>5

-----------------------------------------------------------------------------
(* Loops over the bindings.                                                *)

\* What holds before a loop and is kept by each turn holds after each.
LEMMA LoopKeeps ==
  ASSUME NEW n \in Nat, NEW T, 0 \in T, \A i \in 1 .. n : i - 1 \in T => i \in T
  PROVE  \A i \in 0 .. n : i \in T
<1> DEFINE Bad == {i \in 0 .. n : i \notin T}
<1> SUFFICES ASSUME Bad # {} PROVE FALSE
  OBVIOUS
<1>1. Bad \in SUBSET Nat
  OBVIOUS
<1>2. PICK k \in Bad : \A i \in Bad : k <= i
  <2> HIDE DEF Bad
  <2> QED BY <1>1, HasLeast
<1>3. k \in 1 .. n /\ k - 1 \in 0 .. n /\ ~ (k <= k - 1)
  BY <1>2
<1>4. k - 1 \notin Bad
  <2> HIDE DEF Bad
  <2> QED BY <1>2, <1>3
<1> QED BY <1>2, <1>3, <1>4

\* f is what each turn of a loop leaves that starts from t.
IsLoop(f, n, t, step) ==
  f = [i \in 0 .. n |-> IF i = 0 THEN t ELSE step[i][f[i - 1]]]

\* A loop whose turns stay in a set has a result.
LEMMA LoopRuns ==
  ASSUME NEW n \in Nat, NEW M, NEW t \in M, NEW step \in [1 .. n -> [M -> M]]
  PROVE  \E f \in [0 .. n -> M] : IsLoop(f, n, t, step)
<1> DEFINE Upto(k) == \E f \in [0 .. k -> M] :
             f = [i \in 0 .. k |-> IF i = 0 THEN t ELSE step[i][f[i - 1]]]
           T == {k \in 0 .. n : Upto(k)}
<1>1. 0 \in T
  <2>1. [i \in 0 .. 0 |-> t] \in [0 .. 0 -> M]
    OBVIOUS
  <2>2. [i \in 0 .. 0 |-> t]
          = [i \in 0 .. 0 |-> IF i = 0 THEN t ELSE step[i][[j \in 0 .. 0 |-> t][i - 1]]]
    OBVIOUS
  <2>3. Upto(0)
    BY <2>1, <2>2
  <2> HIDE DEF Upto
  <2> QED BY <2>3
<1>2. ASSUME NEW k \in 1 .. n, k - 1 \in T
      PROVE  k \in T
  <2>0. Upto(k - 1)
    BY <1>2
  <2>1. PICK f \in [0 .. k - 1 -> M] :
          f = [i \in 0 .. k - 1 |-> IF i = 0 THEN t ELSE step[i][f[i - 1]]]
    BY <2>0
  <2> DEFINE e == [i \in 0 .. k |-> IF i = k THEN step[k][f[k - 1]] ELSE f[i]]
  <2>2. f[k - 1] \in M /\ step[k] \in [M -> M]
    BY <2>1
  <2>3. e \in [0 .. k -> M]
    BY <2>1, <2>2
  <2>4. ASSUME NEW i \in 0 .. k
        PROVE  e[i] = IF i = 0 THEN t ELSE step[i][e[i - 1]]
    <3>1. CASE i = 0
      <4>1. 0 \in 0 .. k - 1 /\ 0 # k
        OBVIOUS
      <4> QED BY <3>1, <4>1, <2>1
    <3>2. CASE i = k
      <4>1. k - 1 \in 0 .. k /\ k - 1 # k /\ k # 0
        OBVIOUS
      <4>2. e[k - 1] = f[k - 1]
        BY <4>1
      <4> QED BY <3>2, <4>1, <4>2
    <3>3. CASE i # 0 /\ i # k
      <4>1. i \in 0 .. k - 1 /\ i - 1 \in 0 .. k - 1 /\ i - 1 # k /\ i - 1 \in 0 .. k
        BY <3>3
      <4>2. e[i] = f[i] /\ e[i - 1] = f[i - 1]
        BY <3>3, <4>1
      <4>3. f[i] = step[i][f[i - 1]]
        BY <3>3, <4>1, <2>1
      <4> QED BY <3>3, <4>2, <4>3
    <3> QED BY <3>1, <3>2, <3>3
  <2>5. e = [i \in 0 .. k |-> IF i = 0 THEN t ELSE step[i][e[i - 1]]]
    <3>1. e = [i \in 0 .. k |-> e[i]]
      BY <2>3
    <3> HIDE DEF e
    <3> QED BY <2>4, <3>1
  <2>6. Upto(k)
    <3> HIDE DEF e
    <3> QED BY <2>3, <2>5
  <2> HIDE DEF Upto
  <2> QED BY <2>6
<1>3. \A i \in 1 .. n : i - 1 \in T => i \in T
  <2> HIDE DEF T
  <2> QED BY <1>2
<1>4. n \in T
  <2>1. n \in 0 .. n
    OBVIOUS
  <2> HIDE DEF T
  <2>2. \A i \in 0 .. n : i \in T
    BY <1>1, <1>3, LoopKeeps
  <2> QED BY <2>1, <2>2
<1> QED BY <1>4 DEF IsLoop

-----------------------------------------------------------------------------
(* What the functions of the template do.                                  *)

\* d is t with a value from the stack in the host register h.
IsPopped(t, h, d) ==
  /\ d \in Machine
  /\ d.at = t.at /\ d.bindings = t.bindings
  /\ d.guest_to_host = t.guest_to_host
  /\ d.next_free = t.next_free /\ d.evicted = t.evicted
  /\ d.access_index = t.access_index /\ d.gpr = t.gpr
  /\ \A k \in HostNames : k # h => d.host[k] = t.host[k]
  /\ t.at # "run" => d = t

LEMMA PopFacts ==
  ASSUME NEW t \in Machine, NEW h \in HostNames
  PROVE  IsPopped(t, h, R!Pop(t, h))
<1> DEFINE d == R!Pop(t, h)
<1> SUFFICES IsPopped(t, h, d)
  OBVIOUS
<1>1. d = IF ~ R!Running(t) THEN t
          ELSE IF t.stack = <<>> THEN [t EXCEPT !.host[h] = Junk, !.underflow = TRUE]
          ELSE [t EXCEPT !.host[h] = Head(t.stack), !.stack = Tail(t.stack)]
  BY DEF R!Pop
<1> HIDE DEF d
<1>2. CASE t.at # "run"
  <2>1. d = t
    BY <1>1, <1>2 DEF R!Running
  <2> QED BY <1>2, <2>1 DEF IsPopped
<1>3. ASSUME t.at = "run", NEW v \in Int, NEW rest \in Seq(Int), NEW u \in BOOLEAN,
             d = [t EXCEPT !.host[h] = v, !.stack = rest, !.underflow = u]
      PROVE  IsPopped(t, h, d)
  <2>1. d \in Machine
    BY <1>3 DEF Machine
  <2>2. /\ d.at = t.at /\ d.bindings = t.bindings
        /\ d.guest_to_host = t.guest_to_host
        /\ d.next_free = t.next_free /\ d.evicted = t.evicted
        /\ d.access_index = t.access_index /\ d.gpr = t.gpr
        /\ \A k \in HostNames : k # h => d.host[k] = t.host[k]
    BY <1>3 DEF Machine
  <2> QED BY <1>3, <2>1, <2>2 DEF IsPopped
<1>4. t.stack \in Seq(Int) /\ t.underflow \in BOOLEAN
  BY DEF Machine
<1>5. CASE t.at = "run" /\ t.stack = <<>>
  <2>1. d = [t EXCEPT !.host[h] = Junk, !.stack = t.stack, !.underflow = TRUE]
    BY <1>1, <1>4, <1>5 DEF R!Running, Machine
  <2> QED BY <1>3, <1>4, <1>5, <2>1, AllocatorAssumption
<1>6. CASE t.at = "run" /\ t.stack # <<>>
  <2>1. d = [t EXCEPT !.host[h] = Head(t.stack), !.stack = Tail(t.stack),
                      !.underflow = t.underflow]
    BY <1>1, <1>4, <1>6 DEF R!Running, Machine
  <2>2. Head(t.stack) \in Int /\ Tail(t.stack) \in Seq(Int)
    BY <1>4, <1>6
  <2> QED BY <1>3, <1>4, <1>6, <2>1, <2>2
<1> QED BY <1>2, <1>5, <1>6

\* d is t with the binding i stored: a dirty one in memory, and one that is restored
\* with its host register popped.
IsFlushed(t, i, restore, d) ==
  /\ d \in Machine
  /\ d.at = t.at /\ d.bindings = t.bindings
  /\ d.guest_to_host = t.guest_to_host
  /\ d.next_free = t.next_free /\ d.evicted = t.evicted
  /\ d.access_index = t.access_index
  /\ \A g \in Guests :
       d.gpr[g] = IF t.bindings[i].guest = g /\ t.bindings[i].dirty /\ t.at = "run"
                  THEN t.host[R!Hosts[i]] ELSE t.gpr[g]
  /\ \A h \in HostNames : h # R!Hosts[i] => d.host[h] = t.host[h]
  /\ ~ restore \/ i <= Len(Volatile) => d.host = t.host
  /\ t.at # "run" => d = t

LEMMA FlushFacts ==
  ASSUME NEW t \in Machine, NEW i \in R!Indices, NEW restore \in BOOLEAN
  PROVE  IsFlushed(t, i, restore, R!Flush(t, i, restore))
<1> DEFINE b == t.bindings[i]
           stored == IF R!Occupied(b) /\ b.dirty /\ R!Running(t)
                     THEN [t EXCEPT !.gpr[b.guest] = t.host[R!Hosts[i]]] ELSE t
           d == R!Flush(t, i, restore)
<1>1. R!Hosts[i] \in HostNames /\ b \in Binding /\ t.host[R!Hosts[i]] \in Int
  BY HostFacts DEF Machine
<1>2. IsFlushed(t, i, FALSE, stored) /\ stored.stack = t.stack /\ stored.host = t.host
  <2>1. CASE R!Occupied(b) /\ b.dirty /\ R!Running(t)
    <3>1. b.guest \in Guests /\ t.at = "run"
      BY <1>1, <2>1 DEF R!Occupied, R!Running, Binding
    <3>2. stored = [t EXCEPT !.gpr[b.guest] = t.host[R!Hosts[i]]]
      BY <2>1
    <3> HIDE DEF stored
    <3> QED BY <1>1, <2>1, <3>1, <3>2 DEF Machine, IsFlushed
  <2>2. CASE ~ (R!Occupied(b) /\ b.dirty /\ R!Running(t))
    <3>1. stored = t
      BY <2>2
    <3>2. \A g \in Guests : ~ (b.guest = g /\ b.dirty /\ t.at = "run")
      BY <2>2, HostFacts DEF R!Occupied, R!Running
    <3> HIDE DEF stored
    <3> QED BY <3>1, <3>2 DEF IsFlushed
  <2> QED BY <2>1, <2>2
<1>3. d = IF R!Occupied(b) /\ restore /\ ~ R!IsVolatile(i)
          THEN R!Pop(stored, R!Hosts[i]) ELSE stored
  BY DEF R!Flush
<1> SUFFICES IsFlushed(t, i, restore, d)
  OBVIOUS
<1> HIDE DEF stored, d
<1>4. CASE R!Occupied(b) /\ restore /\ ~ R!IsVolatile(i)
  <2>0. ~ (i <= Len(Volatile)) /\ restore /\ d = R!Pop(stored, R!Hosts[i])
    BY <1>3, <1>4 DEF R!IsVolatile
  <2>1. stored \in Machine /\ (t.at # "run" => stored = t)
    BY <1>2 DEF IsFlushed
  <2>2. IsPopped(stored, R!Hosts[i], d)
    BY <1>1, <2>0, <2>1, PopFacts
  <2> QED BY <1>2, <2>0, <2>1, <2>2 DEF IsFlushed, IsPopped
<1>5. CASE ~ (R!Occupied(b) /\ restore /\ ~ R!IsVolatile(i))
  <2>1. d = stored
    BY <1>3, <1>5
  <2> QED BY <1>2, <2>1 DEF IsFlushed
<1> QED BY <1>4, <1>5

\* d is t with the binding i free and its guest found nowhere.
IsReset(t, i, d) ==
  /\ d \in Machine
  /\ d.at = t.at /\ d.gpr = t.gpr /\ d.host = t.host
  /\ d.next_free = t.next_free /\ d.evicted = t.evicted
  /\ d.bindings[i].guest = R!None
  /\ d.bindings[i].reserved = t.bindings[i].reserved
  /\ \A j \in R!Indices : j # i => d.bindings[j] = t.bindings[j]
  /\ \A g \in Guests :
       d.guest_to_host[g] = IF t.bindings[i].guest = g THEN R!None
                            ELSE t.guest_to_host[g]

LEMMA ResetFacts ==
  ASSUME NEW t \in Machine, NEW i \in R!Indices
  PROVE  IsReset(t, i, R!ResetBinding(t, i))
<1> DEFINE d == R!ResetBinding(t, i)
           b == t.bindings[i]
<1>1. b \in Binding
  BY DEF Machine
<1>2. CASE R!Occupied(b)
  <2>1. b.guest \in Guests
    BY <1>1, <1>2 DEF R!Occupied, Binding
  <2> DEFINE found == [t.guest_to_host EXCEPT ![b.guest] = R!None]
             free == [b EXCEPT !.dirty = FALSE, !.guest = R!None]
             bound == [t.bindings EXCEPT ![i] = free]
  <2>2. d = [t EXCEPT !.guest_to_host[b.guest] = R!None,
                      !.bindings[i].dirty = FALSE, !.bindings[i].guest = R!None]
    BY <1>2 DEF R!ResetBinding
  <2>3. d = [t EXCEPT !.guest_to_host = found, !.bindings = bound]
    BY <1>1, <2>2 DEF Machine, Binding
  <2>4. free \in Binding /\ free.guest = R!None /\ free.reserved = b.reserved
    BY <1>1 DEF Binding
  <2> HIDE DEF d, free
  <2>5. bound \in [R!Indices -> Binding] /\ bound[i] = free
        /\ \A j \in R!Indices : j # i => bound[j] = t.bindings[j]
    BY <2>4 DEF Machine
  <2>6. /\ found \in [Guests -> R!Indices \cup {R!None}]
        /\ \A g \in Guests : found[g] = IF b.guest = g THEN R!None
                                        ELSE t.guest_to_host[g]
    BY <2>1 DEF Machine
  <2> HIDE DEF bound, found
  <2>7. d \in Machine
    BY <2>3, <2>5, <2>6 DEF Machine
  <2>8. d.guest_to_host = found /\ d.bindings = bound
        /\ d.at = t.at /\ d.gpr = t.gpr /\ d.host = t.host
        /\ d.next_free = t.next_free /\ d.evicted = t.evicted
    BY <2>3 DEF Machine
  <2> QED BY <2>4, <2>5, <2>6, <2>7, <2>8 DEF IsReset, d
<1>3. CASE ~ R!Occupied(b)
  <2>1. d = t /\ b.guest = R!None
    BY <1>3 DEF R!ResetBinding, R!Occupied
  <2> QED BY <2>1, HostFacts DEF IsReset
<1> QED BY <1>2, <1>3

\* d differs from t in the binding i only, which is free, and holds the same guests.
Destroyed(t, i, d) ==
  /\ d \in Machine
  /\ d.at = t.at /\ d.host = t.host
  /\ d.next_free = t.next_free /\ d.evicted = t.evicted
  /\ d.bindings[i].guest = R!None
  /\ d.bindings[i].reserved = t.bindings[i].reserved
  /\ \A j \in R!Indices : j # i => d.bindings[j] = t.bindings[j]
  /\ Links(t) => Links(d)
  /\ \A gs \in [Guests -> Int] : t.at = "run" /\ Sound(t, gs) => Sound(d, gs)

LEMMA DestroyFacts ==
  ASSUME NEW t \in Machine, NEW i \in R!Indices, NEW restore \in BOOLEAN,
         ~ restore \/ i <= Len(Volatile)
  PROVE  Destroyed(t, i, R!FlushAndDestroyBinding(t, i, restore))
<1> DEFINE f == R!Flush(t, i, restore)
           d == R!ResetBinding(f, i)
<1>1. IsFlushed(t, i, restore, f) /\ f.host = t.host
  BY FlushFacts DEF IsFlushed
<1> HIDE DEF f
<1>2. IsReset(f, i, d)
  BY <1>1, ResetFacts DEF IsFlushed
<1> HIDE DEF d
<1> USE DEF IsFlushed, IsReset
<1>3. ASSUME Links(t) PROVE Links(d)
  <2>1. ASSUME NEW j \in R!Indices, d.bindings[j].guest # R!None
        PROVE  d.guest_to_host[d.bindings[j].guest] = j
    <3>1. j # i /\ d.bindings[j] = t.bindings[j]
      BY <1>1, <1>2, <2>1
    <3>2. t.bindings[j].guest \in Guests
      BY <2>1, <3>1 DEF Machine, Binding
    <3>3. t.guest_to_host[t.bindings[j].guest] = j
      BY <1>3, <2>1, <3>1 DEF Links
    <3>4. t.bindings[i].guest # t.bindings[j].guest
      BY <1>3, <3>1, <3>2, <3>3, HostFacts DEF Links
    <3> QED BY <1>1, <1>2, <3>1, <3>2, <3>3, <3>4
  <2>2. \A j \in R!Indices : d.next_free <= j => d.bindings[j].guest = R!None
    BY <1>1, <1>2, <1>3 DEF Links
  <2>3. ASSUME ~ d.evicted, NEW g \in Guests, d.guest_to_host[g] # R!None
        PROVE  d.bindings[d.guest_to_host[g]].guest = g
    <3>1. t.bindings[i].guest # g /\ d.guest_to_host[g] = t.guest_to_host[g]
      BY <1>1, <1>2, <2>3
    <3>2. t.guest_to_host[g] \in R!Indices
      BY <2>3, <3>1 DEF Machine
    <3>3. t.bindings[t.guest_to_host[g]].guest = g
      BY <1>1, <1>2, <1>3, <2>3, <3>1 DEF Links
    <3>4. t.guest_to_host[g] # i
      BY <3>1, <3>3
    <3> QED BY <1>1, <1>2, <3>1, <3>2, <3>3, <3>4
  <2> QED BY <2>1, <2>2, <2>3 DEF Links
<1>4. ASSUME NEW gs \in [Guests -> Int], t.at = "run", Sound(t, gs)
      PROVE  Sound(d, gs)
  <2>1. ASSUME NEW j \in R!Indices, d.bindings[j].guest # R!None
        PROVE  d.host[R!Hosts[j]] = gs[d.bindings[j].guest]
    <3>1. j # i /\ d.bindings[j] = t.bindings[j]
      BY <1>1, <1>2, <2>1
    <3> QED BY <1>1, <1>2, <1>4, <2>1, <3>1 DEF Sound
  <2>2. ASSUME NEW g \in Guests \ {0}, d.gpr[g] # gs[g]
        PROVE  \E j \in R!Indices : d.bindings[j].guest = g /\ d.bindings[j].dirty
    <3>1. CASE t.bindings[i].guest = g /\ t.bindings[i].dirty
      BY <1>1, <1>2, <1>4, <2>2, <3>1, HostFacts DEF Sound
    <3>2. CASE ~ (t.bindings[i].guest = g /\ t.bindings[i].dirty)
      <4>1. t.gpr[g] # gs[g]
        BY <1>1, <1>2, <2>2, <3>2
      <4>2. PICK j \in R!Indices : t.bindings[j].guest = g /\ t.bindings[j].dirty
        BY <1>4, <4>1 DEF Sound
      <4> QED BY <1>1, <1>2, <3>2, <4>2
    <3> QED BY <3>1, <3>2
  <2> QED BY <2>1, <2>2 DEF Sound
<1>5. R!FlushAndDestroyBinding(t, i, restore) = d
  BY DEF R!FlushAndDestroyBinding, d, f
<1> QED BY <1>1, <1>2, <1>3, <1>4, <1>5 DEF Destroyed

-----------------------------------------------------------------------------
(* GetGpr.                                                                 *)

\* The free binding and the oldest one are bindings, not reserved.
LEMMA ChosenFacts ==
  ASSUME NEW t \in Machine
  PROVE  /\ R!Vacant(t) # {} => R!First(R!Vacant(t)) \in R!Vacant(t)
         /\ R!Candidates(t) # {} => R!Oldest(t) \in R!Candidates(t)
<1>0. /\ R!Vacant(t) \in SUBSET Nat /\ R!Candidates(t) \in SUBSET Nat
      /\ R!Candidates(t) \subseteq R!Indices
  BY HostFacts DEF R!Vacant, R!Candidates
<1>1. ASSUME R!Vacant(t) # {} PROVE R!First(R!Vacant(t)) \in R!Vacant(t)
  <2>1. \E i \in R!Vacant(t) : \A k \in R!Vacant(t) : i <= k
    BY <1>0, <1>1, HasLeast
  <2> QED BY <2>1 DEF R!First
<1>2. ASSUME R!Candidates(t) # {} PROVE R!Oldest(t) \in R!Candidates(t)
  <2> DEFINE S == R!Candidates(t)
             Times == {t.bindings[i].access : i \in S}
  <2>1. \A i \in S : t.bindings[i].access \in Nat
    BY <1>0 DEF Machine, Binding
  <2>2. PICK a \in Times : \A c \in Times : a <= c
    <3>1. Times \in SUBSET Nat /\ Times # {}
      BY <1>2, <2>1
    <3> HIDE DEF Times
    <3> QED BY <3>1, HasLeast
  <2> DEFINE Firsts == {i \in S : t.bindings[i].access = a}
  <2>3. PICK i \in Firsts : \A k \in Firsts : i <= k
    <3>1. Firsts \in SUBSET Nat /\ Firsts # {}
      BY <1>0, <2>2
    <3> HIDE DEF Firsts
    <3> QED BY <3>1, HasLeast
  <2>4. i \in S /\ t.bindings[i].access = a /\ a \in Nat
    BY <2>1, <2>3
  <2>5. ASSUME NEW k \in S
        PROVE  \/ t.bindings[i].access < t.bindings[k].access
               \/ t.bindings[i].access = t.bindings[k].access /\ i <= k
    <3>1. a <= t.bindings[k].access /\ t.bindings[k].access \in Nat
      BY <2>1, <2>2
    <3>2. CASE t.bindings[k].access = a
      BY <2>3, <2>4, <3>2
    <3>3. CASE t.bindings[k].access # a
      BY <2>4, <3>1, <3>3
    <3> QED BY <3>2, <3>3
  <2> HIDE DEF S
  <2>6. \E j \in S : \A k \in S :
          \/ t.bindings[j].access < t.bindings[k].access
          \/ t.bindings[j].access = t.bindings[k].access /\ j <= k
    BY <2>4, <2>5
  <2> QED BY <2>6 DEF R!Oldest, S
<1> QED BY <1>1, <1>2

\* d is t with the guest g bound to i and loaded.
IsBound(t, i, g, dirty, d) ==
  /\ d \in Machine
  /\ d.at = t.at /\ d.gpr = t.gpr
  /\ d.next_free = t.next_free /\ d.evicted = t.evicted
  /\ d.bindings[i].guest = g /\ d.bindings[i].dirty = dirty
  /\ d.bindings[i].reserved = t.bindings[i].reserved
  /\ \A j \in R!Indices : j # i => d.bindings[j] = t.bindings[j]
  /\ d.guest_to_host[g] = i
  /\ \A k \in Guests : k # g => d.guest_to_host[k] = t.guest_to_host[k]
  /\ \A h \in HostNames : h # R!Hosts[i] => d.host[h] = t.host[h]
  /\ t.at = "run" => d.host[R!Hosts[i]] = IF g = 0 THEN 0 ELSE t.gpr[g]

LEMMA BindFacts ==
  ASSUME NEW t \in Machine, NEW i \in R!Indices, NEW g \in Guests,
         NEW dirty \in BOOLEAN
  PROVE  /\ IsBound(t, i, g, dirty, R!BindVacant(t, i, g, dirty))
         /\ IsBound(t, i, g, dirty, R!LoadGuest(R!Bind(t, i, g, dirty), i, g))
<1> DEFINE b == R!Bind(t, i, g, dirty)
<1>1. /\ b \in Machine
      /\ b.at = t.at /\ b.gpr = t.gpr /\ b.host = t.host
      /\ b.next_free = t.next_free /\ b.evicted = t.evicted
      /\ b.bindings[i].guest = g /\ b.bindings[i].dirty = dirty
      /\ b.bindings[i].reserved = t.bindings[i].reserved
      /\ \A j \in R!Indices : j # i => b.bindings[j] = t.bindings[j]
      /\ b.guest_to_host[g] = i
      /\ \A k \in Guests : k # g => b.guest_to_host[k] = t.guest_to_host[k]
  <2> DEFINE one == [t.bindings[i] EXCEPT !.guest = g, !.access = t.access_index,
                                          !.dirty = dirty]
             bound == [t.bindings EXCEPT ![i] = one]
             found == [t.guest_to_host EXCEPT ![g] = i]
             next == t.access_index + 1
  <2>1. t.bindings[i] \in Binding /\ t.access_index \in Nat /\ next \in Nat
    BY DEF Machine
  <2>2. b = [t EXCEPT !.bindings = bound, !.access_index = next,
                      !.guest_to_host = found]
    <3> DEFINE c == [t EXCEPT !.bindings[i].guest = g,
                              !.bindings[i].access = t.access_index,
                              !.bindings[i].dirty = dirty]
    <3>1. c = [t EXCEPT !.bindings = bound]
      BY <2>1 DEF Machine, Binding
    <3>2. b = [c EXCEPT !.access_index = @ + 1, !.guest_to_host[g] = i]
      BY DEF R!Bind
    <3> HIDE DEF b, c, bound
    <3>3. c.access_index = t.access_index /\ c.guest_to_host = t.guest_to_host
          /\ DOMAIN c = DOMAIN t
      BY <3>1 DEF Machine
    <3>4. b = [c EXCEPT !.access_index = next, !.guest_to_host = found]
      BY <3>1, <3>2, <3>3 DEF Machine
    <3> HIDE DEF next, found
    <3> QED BY <3>1, <3>4 DEF Machine
  <2>3. /\ one \in Binding /\ one.guest = g /\ one.dirty = dirty
        /\ one.reserved = t.bindings[i].reserved
    BY <2>1 DEF Binding
  <2> HIDE DEF one, b, next
  <2>4. /\ bound \in [R!Indices -> Binding] /\ bound[i] = one
        /\ \A j \in R!Indices : j # i => bound[j] = t.bindings[j]
    BY <2>3 DEF Machine
  <2>5. /\ found \in [Guests -> R!Indices \cup {R!None}] /\ found[g] = i
        /\ \A k \in Guests : k # g => found[k] = t.guest_to_host[k]
    BY DEF Machine
  <2> HIDE DEF bound, found
  <2>6. b \in Machine
    BY <2>1, <2>2, <2>4, <2>5 DEF Machine
  <2>7. /\ b.bindings = bound /\ b.guest_to_host = found
        /\ b.at = t.at /\ b.gpr = t.gpr /\ b.host = t.host
        /\ b.next_free = t.next_free /\ b.evicted = t.evicted
    BY <2>2 DEF Machine
  <2> QED BY <2>3, <2>4, <2>5, <2>6, <2>7
<1> HIDE DEF b
<1>2. ASSUME NEW c \in Machine,
             c.at = b.at, c.gpr = b.gpr, c.host = b.host,
             c.next_free = b.next_free, c.evicted = b.evicted,
             c.bindings = b.bindings, c.guest_to_host = b.guest_to_host
      PROVE  IsBound(t, i, g, dirty, R!LoadGuest(c, i, g))
  <2> DEFINE d == R!LoadGuest(c, i, g)
             v == IF g = 0 THEN 0 ELSE t.gpr[g]
  <2>1. R!Hosts[i] \in HostNames /\ v \in Int
    BY HostFacts DEF Machine
  <2>2. CASE t.at = "run"
    <3>1. d = [c EXCEPT !.host[R!Hosts[i]] = v]
      BY <1>1, <1>2, <2>2 DEF R!LoadGuest, R!Running
    <3> HIDE DEF d, v
    <3>2. d \in Machine
      BY <2>1, <3>1 DEF Machine
    <3>3. /\ d.at = c.at /\ d.gpr = c.gpr /\ d.host[R!Hosts[i]] = v
          /\ d.next_free = c.next_free /\ d.evicted = c.evicted
          /\ d.bindings = c.bindings /\ d.guest_to_host = c.guest_to_host
          /\ \A h \in HostNames : h # R!Hosts[i] => d.host[h] = c.host[h]
      BY <2>1, <3>1 DEF Machine
    <3>4. IsBound(t, i, g, dirty, d)
      BY <1>1, <1>2, <3>2, <3>3 DEF IsBound, v
    <3> QED BY <3>4 DEF d
  <2>3. CASE t.at # "run"
    <3>1. d = c
      BY <1>1, <1>2, <2>3 DEF R!LoadGuest, R!Running
    <3> QED BY <1>1, <1>2, <2>3, <3>1 DEF IsBound
  <2> QED BY <2>2, <2>3
<1>3. IsBound(t, i, g, dirty, R!LoadGuest(b, i, g))
  BY <1>1, <1>2
<1>4. IsBound(t, i, g, dirty, R!BindVacant(t, i, g, dirty))
  <2>1. CASE R!IsVolatile(i)
    <3>1. R!BindVacant(t, i, g, dirty) = R!LoadGuest(b, i, g)
      BY <2>1 DEF R!BindVacant, b
    <3> QED BY <1>3, <3>1
  <2>2. CASE ~ R!IsVolatile(i)
    <3> DEFINE c == R!Saved(b, i)
    <3>1. R!BindVacant(t, i, g, dirty) = R!LoadGuest(c, i, g)
      BY <2>2 DEF R!BindVacant, b
    <3>2. R!Hosts[i] \in HostNames /\ b.host[R!Hosts[i]] \in Int
      BY <1>1, HostFacts DEF Machine
    <3>6. (~ b.aligned) \in BOOLEAN
      OBVIOUS
    <3>3. ASSUME NEW u \in Machine, NEW x \in Int
          PROVE  \E q \in Seq(Int) : R!Push(u, x) = [u EXCEPT !.stack = q]
      <4>1. <<x>> \o u.stack \in Seq(Int) /\ u.stack \in Seq(Int)
        BY DEF Machine
      <4>2. u = [u EXCEPT !.stack = u.stack]
        BY DEF Machine
      <4> QED BY <4>1, <4>2 DEF R!Push
    <3>4. \E q \in Seq(Int), w \in BOOLEAN :
             c = [b EXCEPT !.stack = q, !.stack_space = w, !.aligned = ~ b.aligned]
      <4>1. CASE b.stack_space
        <5>1. PICK q \in Seq(Int) : R!Push(b, b.host[R!Hosts[i]]) = [b EXCEPT !.stack = q]
          BY <1>1, <3>2, <3>3
        <5>2. c = [b EXCEPT !.stack = q, !.aligned = ~ b.aligned]
          BY <1>1, <4>1, <5>1 DEF R!Saved, Machine
        <5>3. c = [b EXCEPT !.stack = q, !.stack_space = b.stack_space,
                            !.aligned = ~ b.aligned]
          BY <1>1, <5>2 DEF Machine
        <5>4. b.stack_space \in BOOLEAN
          BY <1>1 DEF Machine
        <5> QED BY <5>3, <5>4
      <4>2. CASE ~ b.stack_space
        <5> DEFINE e == [b EXCEPT !.stack_space = TRUE]
        <5>1. e \in Machine /\ e.host = b.host /\ e.aligned = b.aligned
          BY <1>1 DEF Machine
        <5>2. PICK q \in Seq(Int) : R!Push(e, Junk) = [e EXCEPT !.stack = q]
          <6> HIDE DEF e
          <6> QED BY <5>1, <3>3, AllocatorAssumption
        <5>3. [e EXCEPT !.stack = q] \in Machine
          <6> HIDE DEF e
          <6> QED BY <5>1 DEF Machine
        <5>4. PICK r \in Seq(Int) : R!Push(R!Push(e, Junk), b.host[R!Hosts[i]])
                                      = [[e EXCEPT !.stack = q] EXCEPT !.stack = r]
          <6>1. \E r \in Seq(Int) : R!Push([e EXCEPT !.stack = q], b.host[R!Hosts[i]])
                                       = [[e EXCEPT !.stack = q] EXCEPT !.stack = r]
            <7> HIDE DEF e
            <7> DEFINE u == [e EXCEPT !.stack = q]
            <7>1. u \in Machine
              BY <5>3
            <7> HIDE DEF u
            <7>2. \E r \in Seq(Int) : R!Push(u, b.host[R!Hosts[i]]) = [u EXCEPT !.stack = r]
              BY <7>1, <3>2, <3>3
            <7> QED BY <7>2 DEF u
          <6> HIDE DEF e
          <6> QED BY <5>2, <6>1
        <5>5. c = [[[e EXCEPT !.stack = q] EXCEPT !.stack = r]
                     EXCEPT !.aligned = ~ @]
          <6>1. c = [R!Push(R!Push(e, Junk), b.host[R!Hosts[i]]) EXCEPT !.aligned = ~ @]
            BY <4>2 DEF R!Saved
          <6> HIDE DEF e, c
          <6> QED BY <5>4, <6>1
        <5>6. c = [b EXCEPT !.stack = r, !.stack_space = TRUE, !.aligned = ~ b.aligned]
          <6> HIDE DEF c
          <6> QED BY <1>1, <5>5 DEF Machine
        <5> HIDE DEF c
        <5> QED BY <5>6
      <4> QED BY <4>1, <4>2
    <3> HIDE DEF c
    <3>5. /\ c \in Machine
          /\ c.at = b.at /\ c.gpr = b.gpr /\ c.host = b.host
          /\ c.next_free = b.next_free /\ c.evicted = b.evicted
          /\ c.bindings = b.bindings /\ c.guest_to_host = b.guest_to_host
      BY <1>1, <3>2, <3>6, <3>4 DEF Machine
    <3> QED BY <1>2, <3>1, <3>5
  <2> QED BY <2>1, <2>2
<1> QED BY <1>3, <1>4 DEF b

\* The host register i may be given to g, which has none: it has been used before, and
\* it is free unless guests are evicted already.
Available(t, i, g) ==
  /\ Links(t)
  /\ t.guest_to_host[g] = R!None
  /\ i < t.next_free
  /\ t.evicted \/ t.bindings[i].guest = R!None

\* What i holds, if it holds anything, is in memory too.
Stored(t, i, gs) ==
  t.bindings[i].guest \notin {R!None, 0}
    => t.gpr[t.bindings[i].guest] = gs[t.bindings[i].guest]

\* Then binding g to i keeps guests found and their values.
LEMMA BindKeeps ==
  ASSUME NEW t \in Machine, NEW i \in R!Indices, NEW g \in Guests,
         NEW dirty \in BOOLEAN, NEW d, IsBound(t, i, g, dirty, d),
         Available(t, i, g)
  PROVE  /\ Links(d)
         /\ \A gs \in [Guests -> Int] :
              gs[0] = 0 /\ t.at = "run" /\ Sound(t, gs) /\ Stored(t, i, gs)
                => Sound(d, gs)
<1> USE DEF IsBound
<1>0. /\ \A j \in R!Indices : t.bindings[j] \in Binding
      /\ g # R!None /\ i \in Nat /\ t.next_free \in Nat
  BY HostFacts DEF Machine
<1>1. \A j \in R!Indices : t.bindings[j].guest # g
  BY <1>0, HostFacts DEF Available, Links
<1>2. Links(d)
  <2>1. ASSUME NEW j \in R!Indices, d.bindings[j].guest # R!None
        PROVE  d.guest_to_host[d.bindings[j].guest] = j
    <3>1. CASE j = i
      BY <3>1
    <3>2. CASE j # i
      <4>1. d.bindings[j] = t.bindings[j]
        BY <3>2
      <4>2. t.bindings[j].guest \in Guests /\ t.bindings[j].guest # g
        BY <1>0, <1>1, <2>1, <4>1 DEF Binding
      <4>3. t.guest_to_host[t.bindings[j].guest] = j
        BY <2>1, <4>1 DEF Available, Links
      <4> QED BY <4>1, <4>2, <4>3
    <3> QED BY <3>1, <3>2
  <2>2. ASSUME NEW j \in R!Indices, d.next_free <= j
        PROVE  d.bindings[j].guest = R!None
    <3>1. j # i
      BY <1>0, <2>2 DEF Available
    <3> QED BY <2>2, <3>1 DEF Available, Links
  <2>3. ASSUME ~ d.evicted, NEW k \in Guests, d.guest_to_host[k] # R!None
        PROVE  d.bindings[d.guest_to_host[k]].guest = k
    <3>1. CASE k = g
      BY <3>1
    <3>2. CASE k # g
      <4>1. d.guest_to_host[k] = t.guest_to_host[k] /\ t.guest_to_host[k] \in R!Indices
        BY <2>3, <3>2 DEF Machine
      <4>2. t.bindings[t.guest_to_host[k]].guest = k /\ t.bindings[i].guest = R!None
        BY <2>3, <4>1 DEF Available, Links
      <4>3. t.guest_to_host[k] # i
        BY <4>2, HostFacts
      <4> QED BY <4>1, <4>2, <4>3
    <3> QED BY <3>1, <3>2
  <2> QED BY <2>1, <2>2, <2>3 DEF Links
<1>3. ASSUME NEW gs \in [Guests -> Int],
             gs[0] = 0, t.at = "run", Sound(t, gs), Stored(t, i, gs)
      PROVE  Sound(d, gs)
  <2>1. ASSUME NEW j \in R!Indices, d.bindings[j].guest # R!None
        PROVE  d.host[R!Hosts[j]] = gs[d.bindings[j].guest]
    <3>1. CASE j = i
      <4>1. g # 0 => t.gpr[g] = gs[g]
        BY <1>1, <1>3 DEF Sound
      <4> QED BY <1>3, <3>1, <4>1
    <3>2. CASE j # i
      <4>1. R!Hosts[j] # R!Hosts[i] /\ R!Hosts[j] \in HostNames
        BY <3>2, AllocatorAssumption, HostFacts
      <4> QED BY <1>3, <2>1, <3>2, <4>1 DEF Sound
    <3> QED BY <3>1, <3>2
  <2>2. ASSUME NEW k \in Guests \ {0}, d.gpr[k] # gs[k]
        PROVE  \E j \in R!Indices : d.bindings[j].guest = k /\ d.bindings[j].dirty
    <3>1. PICK j \in R!Indices : t.bindings[j].guest = k /\ t.bindings[j].dirty
      BY <1>3, <2>2 DEF Sound
    <3>2. j # i
      BY <1>3, <2>2, <3>1, HostFacts DEF Stored
    <3> QED BY <3>1, <3>2
  <2> QED BY <2>1, <2>2 DEF Sound
<1> QED BY <1>2, <1>3

\* d is t with g in the host register under which it is found, the others kept.
Got(t, g, dirty, d) ==
  /\ d \in Machine
  /\ d.at = t.at
  /\ Links(d)
  /\ d.guest_to_host[g] \in R!Indices
  /\ \A k \in Guests : k # g \/ t.guest_to_host[g] # R!None
       => d.guest_to_host[k] = t.guest_to_host[k]
  /\ t.guest_to_host[g] # R!None
       => \A j \in R!Indices : d.bindings[j].guest = t.bindings[j].guest
  /\ dirty => d.bindings[d.guest_to_host[g]].dirty
  /\ \A j \in R!Indices :
       /\ d.bindings[j].reserved = t.bindings[j].reserved
       /\ d.bindings[j].guest # g => d.bindings[j].guest = t.bindings[j].guest
       /\ d.bindings[j].guest = t.bindings[j].guest /\ t.bindings[j].dirty
            => d.bindings[j].dirty
  /\ \A gs \in [Guests -> Int] :
       gs[0] = 0 /\ t.at = "run" /\ Sound(t, gs) => Sound(d, gs)

\* The guest has a host register already.
LEMMA HitFacts ==
  ASSUME NEW t \in Machine, NEW g \in Guests, NEW dirty \in BOOLEAN,
         Links(t), t.guest_to_host[g] # R!None
  PROVE  Got(t, g, dirty, R!GetGpr(t, g, dirty))
<1> DEFINE i == t.guest_to_host[g]
           one == [t.bindings[i] EXCEPT !.access = t.access_index,
                                        !.dirty = t.bindings[i].dirty \/ dirty]
           bound == [t.bindings EXCEPT ![i] = one]
           next == t.access_index + 1
           d == R!GetGpr(t, g, dirty)
<1>1. i \in R!Indices /\ t.access_index \in Nat /\ next \in Nat
      /\ t.bindings \in [R!Indices -> Binding]
  BY DEF Machine
<1>2. d = [t EXCEPT !.bindings[i].access = t.access_index, !.access_index = @ + 1,
                    !.bindings[i].dirty = @ \/ dirty]
  BY DEF R!GetGpr
<1> SUFFICES Got(t, g, dirty, d)
  OBVIOUS
<1> HIDE DEF d, i
<1>3. d = [t EXCEPT !.bindings = bound, !.access_index = next]
  <2>1. t.bindings[i] \in Binding
    BY <1>1
  <2> QED BY <1>1, <1>2, <2>1 DEF Machine, Binding
<1>4. /\ one \in Binding /\ one.guest = t.bindings[i].guest
      /\ one.reserved = t.bindings[i].reserved
  BY <1>1 DEF Binding
<1>5. (dirty \/ t.bindings[i].dirty) => one.dirty
  BY <1>1, Zenon DEF Binding
<1> HIDE DEF one, next
<1>6. /\ bound \in [R!Indices -> Binding] /\ bound[i] = one
      /\ \A j \in R!Indices : j # i => bound[j] = t.bindings[j]
  BY <1>1, <1>4
<1> HIDE DEF bound
<1>7. d \in Machine
  BY <1>1, <1>3, <1>6 DEF Machine
<1>8. /\ d.bindings = bound /\ d.at = t.at /\ d.guest_to_host = t.guest_to_host
      /\ d.evicted = t.evicted /\ d.gpr = t.gpr /\ d.host = t.host
      /\ d.next_free = t.next_free
  BY <1>3 DEF Machine
<1>9. \A j \in R!Indices :
        /\ d.bindings[j].guest = t.bindings[j].guest
        /\ d.bindings[j].reserved = t.bindings[j].reserved
        /\ t.bindings[j].dirty => d.bindings[j].dirty
  BY <1>4, <1>5, <1>6, <1>8
<1>10. Links(d)
  <2>1. \A k \in Guests : t.guest_to_host[k] # R!None => t.guest_to_host[k] \in R!Indices
    BY DEF Machine
  <2> HIDE DEF d
  <2>2. /\ \A j \in R!Indices :
             d.bindings[j].guest # R!None => d.guest_to_host[d.bindings[j].guest] = j
        /\ \A j \in R!Indices : d.next_free <= j => d.bindings[j].guest = R!None
    BY <1>8, <1>9 DEF Links
  <2>3. ASSUME ~ d.evicted, NEW k \in Guests, d.guest_to_host[k] # R!None
        PROVE  d.bindings[d.guest_to_host[k]].guest = k
    BY <2>1, <2>3, <1>8, <1>9 DEF Links
  <2> QED BY <2>2, <2>3 DEF Links
<1>11. \A gs \in [Guests -> Int] : Sound(t, gs) => Sound(d, gs)
  BY <1>8, <1>9 DEF Sound
<1> QED BY <1>1, <1>5, <1>6, <1>7, <1>8, <1>9, <1>10, <1>11 DEF Got, i

\* The guest gets a free host register.
LEMMA FreeFacts ==
  ASSUME NEW t \in Machine, NEW i \in R!Indices, NEW g \in Guests,
         NEW dirty \in BOOLEAN, Available(t, i, g), t.bindings[i].guest = R!None,
         NEW s \in Machine, NEW d,
         s = t \/ (s.bindings = t.bindings /\ s.at = t.at /\ s.gpr = t.gpr
                     /\ s.host = t.host /\ s.guest_to_host = t.guest_to_host),
         IsBound(t, i, g, dirty, d)
  PROVE  Got(s, g, dirty, d)
<1>1. /\ s.bindings = t.bindings /\ s.at = t.at /\ s.gpr = t.gpr
      /\ s.host = t.host /\ s.guest_to_host = t.guest_to_host
  OBVIOUS
<1>2. \A gs \in [Guests -> Int] : Stored(t, i, gs) /\ (Sound(s, gs) => Sound(t, gs))
  BY <1>1 DEF Stored, Sound
<1>3. Links(d) /\ \A gs \in [Guests -> Int] :
         gs[0] = 0 /\ s.at = "run" /\ Sound(s, gs) => Sound(d, gs)
  BY <1>1, <1>2, BindKeeps
<1>4. g # R!None /\ t.guest_to_host[g] = R!None
  BY HostFacts DEF Available
<1>5. \A j \in R!Indices :
        /\ d.bindings[j].reserved = s.bindings[j].reserved
        /\ d.bindings[j].guest # g => d.bindings[j].guest = s.bindings[j].guest
        /\ d.bindings[j].guest = s.bindings[j].guest /\ s.bindings[j].dirty
             => d.bindings[j].dirty
  BY <1>1, <1>4 DEF IsBound
<1> QED BY <1>1, <1>3, <1>4, <1>5 DEF Got, IsBound

\* The guest that used its host register longest ago makes room: it is stored first.
LEMMA EvictFacts ==
  ASSUME NEW t \in Machine, NEW i \in R!Indices, NEW g \in Guests,
         NEW dirty \in BOOLEAN, Links(t), t.guest_to_host[g] = R!None,
         i < t.next_free
  PROVE  Got(t, g, dirty, R!Evict(t, i, g, dirty))
<1> DEFINE f == R!Flush(t, i, FALSE)
           u == [f EXCEPT !.evicted = TRUE]
           d == R!Evict(t, i, g, dirty)
<1>1. IsFlushed(t, i, FALSE, f)
  BY FlushFacts
<1>2. d = R!LoadGuest(R!Bind(u, i, g, dirty), i, g)
  BY DEF R!Evict
<1> SUFFICES Got(t, g, dirty, d)
  OBVIOUS
<1> HIDE DEF f, d
<1>3. u \in Machine /\ u.evicted = TRUE /\ u.at = f.at /\ u.bindings = f.bindings
      /\ u.guest_to_host = f.guest_to_host /\ u.next_free = f.next_free
      /\ u.gpr = f.gpr /\ u.host = f.host
  BY <1>1 DEF IsFlushed, Machine
<1> HIDE DEF u
<1>4. IsBound(u, i, g, dirty, d)
  BY <1>2, <1>3, BindFacts
<1>5. /\ u.at = t.at /\ u.bindings = t.bindings /\ u.guest_to_host = t.guest_to_host
      /\ u.next_free = t.next_free /\ u.host = t.host
      /\ \A k \in Guests :
           u.gpr[k] = IF t.bindings[i].guest = k /\ t.bindings[i].dirty /\ t.at = "run"
                      THEN t.host[R!Hosts[i]] ELSE t.gpr[k]
  BY <1>1, <1>3 DEF IsFlushed
<1>6. Available(u, i, g)
  BY <1>3, <1>5 DEF Available, Links
<1>7. ASSUME NEW gs \in [Guests -> Int], gs[0] = 0, t.at = "run", Sound(t, gs)
      PROVE  Sound(u, gs) /\ Stored(u, i, gs)
  <2>1. ASSUME NEW k \in Guests \ {0}, u.gpr[k] # gs[k]
        PROVE  \E j \in R!Indices : u.bindings[j].guest = k /\ u.bindings[j].dirty
    <3>1. k # R!None
      BY HostFacts
    <3> QED BY <1>5, <1>7, <2>1, <3>1 DEF Sound
  <2>2. Sound(u, gs)
    BY <1>5, <1>7, <2>1 DEF Sound
  <2>3. Stored(u, i, gs)
    <3> SUFFICES ASSUME t.bindings[i].guest \notin {R!None, 0}
                 PROVE  u.gpr[t.bindings[i].guest] = gs[t.bindings[i].guest]
      BY <1>5 DEF Stored
    <3>1. t.bindings[i].guest \in Guests
      BY DEF Machine, Binding
    <3>2. CASE t.bindings[i].dirty
      BY <1>5, <1>7, <3>1, <3>2 DEF Sound
    <3>3. CASE ~ t.bindings[i].dirty
      <4>1. \A j \in R!Indices : t.bindings[j].guest = t.bindings[i].guest => j = i
        BY DEF Links
      <4>2. t.gpr[t.bindings[i].guest] = gs[t.bindings[i].guest]
        BY <1>7, <3>1, <3>3, <4>1 DEF Sound
      <4> QED BY <1>5, <3>1, <3>3, <4>2
    <3> QED BY <3>2, <3>3
  <2> QED BY <2>2, <2>3
<1>8. Links(d) /\ \A gs \in [Guests -> Int] :
         gs[0] = 0 /\ t.at = "run" /\ Sound(t, gs) => Sound(d, gs)
  BY <1>3, <1>4, <1>5, <1>6, <1>7, BindKeeps
<1>9. t.bindings[i].guest # g
  BY HostFacts DEF Links
<1>10. \A j \in R!Indices :
        /\ d.bindings[j].reserved = t.bindings[j].reserved
        /\ d.bindings[j].guest # g => d.bindings[j].guest = t.bindings[j].guest
        /\ d.bindings[j].guest = t.bindings[j].guest /\ t.bindings[j].dirty
             => d.bindings[j].dirty
  BY <1>4, <1>5, <1>9 DEF IsBound
<1> QED BY <1>4, <1>5, <1>8, <1>10 DEF Got, IsBound

\* GetGpr in its four cases.
LEMMA GetFacts ==
  ASSUME NEW t \in Machine, NEW g \in Guests, NEW dirty \in BOOLEAN,
         Links(t), R!Candidates(t) # {}
  PROVE  Got(t, g, dirty, R!GetGpr(t, g, dirty))
<1> DEFINE d == R!GetGpr(t, g, dirty)
           n == t.next_free
<1>1. n \in Nat /\ n \in 1 .. Len(R!Hosts) + 1 /\ Len(R!Hosts) \in Nat
  BY HostFacts DEF Machine
<1>2. CASE t.guest_to_host[g] # R!None
  BY <1>2, HitFacts
<1>3. CASE t.guest_to_host[g] = R!None /\ n <= Len(R!Hosts)
  <2> DEFINE u == [t EXCEPT !.next_free = @ + 1]
  <2>1. d = R!BindVacant(u, n, g, dirty)
    <3>1. ~ (n > Len(R!Hosts))
      BY <1>1, <1>3
    <3> QED BY <1>3, <3>1 DEF R!GetGpr
  <2>2. n \in R!Indices
    BY <1>1, <1>3, HostFacts
  <2>3. /\ u \in Machine /\ u.next_free = n + 1
        /\ u.bindings = t.bindings /\ u.at = t.at /\ u.gpr = t.gpr
        /\ u.host = t.host /\ u.guest_to_host = t.guest_to_host
        /\ u.evicted = t.evicted
    <3> DEFINE k == n + 1
    <3>1. k \in 1 .. Len(R!Hosts) + 1
      BY <1>1, <1>3
    <3>2. u = [t EXCEPT !.next_free = k]
      OBVIOUS
    <3> HIDE DEF u, k
    <3>3. u \in Machine /\ u.next_free = k /\ u.bindings = t.bindings
          /\ u.at = t.at /\ u.gpr = t.gpr /\ u.host = t.host
          /\ u.guest_to_host = t.guest_to_host /\ u.evicted = t.evicted
      BY <3>1, <3>2 DEF Machine
    <3> QED BY <3>3 DEF k
  <2> HIDE DEF d, u
  <2>4. u.bindings[n].guest = R!None /\ n < u.next_free
    BY <1>1, <2>2, <2>3 DEF Links
  <2>5. Links(u)
    <3>1. \A j \in R!Indices : u.next_free <= j => n <= j
      BY <1>1, <2>3, HostFacts
    <3> QED BY <2>3, <3>1 DEF Links
  <2>6. Available(u, n, g)
    BY <1>3, <2>3, <2>4, <2>5 DEF Available
  <2>7. IsBound(u, n, g, dirty, d)
    BY <2>1, <2>2, <2>3, BindFacts
  <2>8. Got(t, g, dirty, d)
    <3> HIDE DEF n
    <3> QED BY <2>2, <2>3, <2>4, <2>6, <2>7, FreeFacts
  <2> QED BY <2>8 DEF d
<1>4. CASE t.guest_to_host[g] = R!None /\ ~ (n <= Len(R!Hosts)) /\ R!Vacant(t) # {}
  <2> DEFINE i == R!First(R!Vacant(t))
  <2>1. d = R!BindVacant(t, i, g, dirty)
    <3>1. n > Len(R!Hosts)
      BY <1>1, <1>4
    <3> QED BY <1>1, <1>4, <3>1 DEF R!GetGpr
  <2>2. i \in R!Indices /\ t.bindings[i].guest = R!None
    BY <1>4, ChosenFacts DEF R!Vacant, R!Candidates, R!Occupied
  <2> HIDE DEF d, i
  <2>3. i < n
    BY <1>1, <1>4, <2>2, HostFacts
  <2>4. Available(t, i, g)
    BY <1>4, <2>2, <2>3 DEF Available
  <2>5. IsBound(t, i, g, dirty, d)
    BY <2>1, <2>2, BindFacts
  <2>6. Got(t, g, dirty, d)
    BY <2>2, <2>4, <2>5, FreeFacts
  <2> QED BY <2>6 DEF d
<1>5. CASE t.guest_to_host[g] = R!None /\ ~ (n <= Len(R!Hosts)) /\ R!Vacant(t) = {}
  <2> DEFINE i == R!Oldest(t)
  <2>1. d = R!Evict(t, i, g, dirty)
    BY <1>5 DEF R!GetGpr
  <2>2. i \in R!Indices
    BY ChosenFacts DEF R!Candidates
  <2> HIDE DEF d, i
  <2>3. i < n
    BY <1>1, <1>5, <2>2, HostFacts
  <2>4. Got(t, g, dirty, d)
    BY <1>5, <2>1, <2>2, <2>3, EvictFacts
  <2> QED BY <2>4 DEF d
<1> QED BY <1>2, <1>3, <1>4, <1>5

-----------------------------------------------------------------------------
(* The loops of the template.                                              *)

\* d is t with no guest in a volatile register, and holds the same guests.
Cleared(t, d) ==
  /\ d \in Machine
  /\ d.at = t.at
  /\ \A j \in R!Indices : d.bindings[j].reserved = t.bindings[j].reserved
  /\ \A j \in 1 .. Len(Volatile) : d.bindings[j].guest = R!None
  /\ Links(t) => Links(d)
  /\ \A gs \in [Guests -> Int] : t.at = "run" /\ Sound(t, gs) => Sound(d, gs)

LEMMA ClearFacts ==
  ASSUME NEW t \in Machine
  PROVE  Cleared(t, R!FlushAndDestroyAllVolatile(t))
<1> DEFINE n == Len(Volatile)
           a == CHOOSE f : f = [i \in 0 .. n |-> IF i = 0 THEN t
                                 ELSE R!FlushAndDestroyBinding(f[i - 1], i, FALSE)]
           step == [i \in 1 .. n |-> [x \in Machine |->
                      R!FlushAndDestroyBinding(x, i, FALSE)]]
<1>1. n \in Nat /\ \A i \in 1 .. n : i \in R!Indices /\ i \in Nat
  BY HostFacts
<1>2. R!FlushAndDestroyAllVolatile(t) = a[n]
  BY DEF R!FlushAndDestroyAllVolatile, R!ForEach
<1>3. \A i \in 1 .. n : \A x \in Machine :
        Destroyed(x, i, R!FlushAndDestroyBinding(x, i, FALSE))
  BY <1>1, DestroyFacts
<1>4. step \in [1 .. n -> [Machine -> Machine]]
  BY <1>3 DEF Destroyed
<1>5. \E f \in [0 .. n -> Machine] : IsLoop(f, n, t, step)
  <2> HIDE DEF step, n, a
  <2> QED BY <1>1, <1>4, LoopRuns
<1>6. \E f \in [0 .. n -> Machine] :
        f = [i \in 0 .. n |-> IF i = 0 THEN t
               ELSE R!FlushAndDestroyBinding(f[i - 1], i, FALSE)]
  <2>1. PICK f \in [0 .. n -> Machine] :
          f = [i \in 0 .. n |-> IF i = 0 THEN t ELSE step[i][f[i - 1]]]
    BY <1>5 DEF IsLoop
  <2> HIDE DEF n, step
  <2>2. ASSUME NEW i \in 0 .. n
        PROVE  (IF i = 0 THEN t ELSE step[i][f[i - 1]])
                 = IF i = 0 THEN t ELSE R!FlushAndDestroyBinding(f[i - 1], i, FALSE)
    <3>1. CASE i # 0
      <4>1. i \in 1 .. n /\ i - 1 \in 0 .. n
        BY <1>1, <3>1
      <4>2. f[i - 1] \in Machine
        BY <4>1
      <4> QED BY <3>1, <4>1, <4>2 DEF step
    <3> QED BY <3>1
  <2> QED BY <2>1, <2>2
<1>7. a = [i \in 0 .. n |-> IF i = 0 THEN t
             ELSE R!FlushAndDestroyBinding(a[i - 1], i, FALSE)]
  BY <1>6
<1> HIDE DEF a, step
<1> DEFINE Done(d, i) ==
             /\ d \in Machine
             /\ d.at = t.at
             /\ \A j \in R!Indices : d.bindings[j].reserved = t.bindings[j].reserved
             /\ \A j \in 1 .. i : d.bindings[j].guest = R!None
             /\ Links(t) => Links(d)
             /\ \A gs \in [Guests -> Int] : t.at = "run" /\ Sound(t, gs) => Sound(d, gs)
           T == {i \in 0 .. n : Done(a[i], i)}
<1>8. 0 \in T
  <2>1. 0 \in 0 .. n
    BY <1>1
  <2>2. a[0] = t
    BY <1>7, <2>1
  <2> QED BY <2>1, <2>2
<1>9. ASSUME NEW i \in 1 .. n, i - 1 \in T
      PROVE  i \in T
  <2>1. i \in 0 .. n /\ i # 0 /\ i - 1 \in 0 .. n
    BY <1>1
  <2>2. a[i] = R!FlushAndDestroyBinding(a[i - 1], i, FALSE)
    BY <1>7, <2>1
  <2>3. Done(a[i - 1], i - 1)
    BY <1>9
  <2>4. Destroyed(a[i - 1], i, a[i])
    BY <1>3, <2>2, <2>3
  <2>5. \A j \in 1 .. i : j = i \/ (j \in 1 .. i - 1 /\ j # i /\ j \in R!Indices)
    BY <1>1, HostFacts
  <2>6. \A j \in 1 .. i : a[i].bindings[j].guest = R!None
    BY <2>3, <2>4, <2>5 DEF Destroyed
  <2>7. \A j \in R!Indices : a[i].bindings[j].reserved = t.bindings[j].reserved
    BY <2>3, <2>4 DEF Destroyed
  <2>8. Done(a[i], i)
    BY <2>3, <2>4, <2>6, <2>7 DEF Destroyed
  <2> QED BY <2>1, <2>8
<1>10. Done(a[n], n)
  <2>1. n \in 0 .. n
    BY <1>1
  <2> HIDE DEF T
  <2>2. \A i \in 1 .. n : i - 1 \in T => i \in T
    BY <1>9
  <2>3. \A i \in 0 .. n : i \in T
    <3> HIDE DEF n
    <3> QED BY <1>1, <1>8, <2>2, LoopKeeps
  <2> QED BY <2>1, <2>3 DEF T
<1> QED BY <1>2, <1>10 DEF Cleared

\* d is t with the flushes of a way out of the block behind it.
Restored(t, d) ==
  /\ d \in Machine
  /\ d.at = t.at /\ d.bindings = t.bindings
  /\ d.guest_to_host = t.guest_to_host
  /\ d.next_free = t.next_free /\ d.evicted = t.evicted
  /\ \A gs \in [Guests -> Int] :
       t.at = "run" /\ Sound(t, gs) => InMemory(d, gs)
  /\ t.at # "run" => d = t

LEMMA RestoreFacts ==
  ASSUME NEW t \in Machine
  PROVE  Restored(t, R!FlushAndRestoreAll(t))
<1> DEFINE n == Len(R!Hosts)
           a == CHOOSE f : f = [i \in 0 .. n |-> IF i = 0 THEN t
                                 ELSE R!Flush(f[i - 1], i, TRUE)]
           step == [i \in 1 .. n |-> [x \in Machine |-> R!Flush(x, i, TRUE)]]
<1>1. n \in Nat /\ R!Indices = 1 .. n
  BY HostFacts
<1>2. R!FlushAndRestoreAll(t) = a[n]
  BY DEF R!FlushAndRestoreAll, R!ForEach
<1>3. \A i \in 1 .. n : \A x \in Machine : IsFlushed(x, i, TRUE, R!Flush(x, i, TRUE))
  BY <1>1, FlushFacts
<1>4. step \in [1 .. n -> [Machine -> Machine]]
  BY <1>3 DEF IsFlushed
<1>5. \E f \in [0 .. n -> Machine] : IsLoop(f, n, t, step)
  <2> HIDE DEF step, n, a
  <2> QED BY <1>1, <1>4, LoopRuns
<1>6. \E f \in [0 .. n -> Machine] :
        f = [i \in 0 .. n |-> IF i = 0 THEN t ELSE R!Flush(f[i - 1], i, TRUE)]
  <2>1. PICK f \in [0 .. n -> Machine] :
          f = [i \in 0 .. n |-> IF i = 0 THEN t ELSE step[i][f[i - 1]]]
    BY <1>5 DEF IsLoop
  <2> HIDE DEF n, step
  <2>2. ASSUME NEW i \in 0 .. n
        PROVE  (IF i = 0 THEN t ELSE step[i][f[i - 1]])
                 = IF i = 0 THEN t ELSE R!Flush(f[i - 1], i, TRUE)
    <3>1. CASE i # 0
      <4>1. i \in 1 .. n /\ i - 1 \in 0 .. n
        BY <1>1, <3>1
      <4>2. f[i - 1] \in Machine
        BY <4>1
      <4> QED BY <3>1, <4>1, <4>2 DEF step
    <3> QED BY <3>1
  <2> QED BY <2>1, <2>2
<1>7. a = [i \in 0 .. n |-> IF i = 0 THEN t ELSE R!Flush(a[i - 1], i, TRUE)]
  BY <1>6
<1> HIDE DEF a, step
<1> DEFINE Kept(d, i) ==
             /\ d \in Machine
             /\ d.at = t.at /\ d.bindings = t.bindings
             /\ d.guest_to_host = t.guest_to_host
             /\ d.next_free = t.next_free /\ d.evicted = t.evicted
             /\ \A j \in R!Indices : i < j => d.host[R!Hosts[j]] = t.host[R!Hosts[j]]
             /\ t.at # "run" => d = t
           Out(d, i, gs) ==
             \A g \in Guests \ {0} :
               \/ d.gpr[g] = gs[g]
               \/ \E j \in R!Indices :
                    i < j /\ t.bindings[j].guest = g /\ t.bindings[j].dirty
           Done(d, i) ==
             /\ Kept(d, i)
             /\ \A gs \in [Guests -> Int] : t.at = "run" /\ Sound(t, gs) => Out(d, i, gs)
           T == {i \in 0 .. n : Done(a[i], i)}
<1>8. 0 \in T
  <2>1. 0 \in 0 .. n
    BY <1>1
  <2>2. a[0] = t
    BY <1>7, <2>1
  <2>3. \A j \in R!Indices : 0 < j
    BY <1>1
  <2>4. \A gs \in [Guests -> Int] : t.at = "run" /\ Sound(t, gs) => Out(t, 0, gs)
    BY <2>3 DEF Sound
  <2> QED BY <2>1, <2>2, <2>4
<1>9. ASSUME NEW i \in 1 .. n, i - 1 \in T
      PROVE  i \in T
  <2>1. i \in 0 .. n /\ i # 0 /\ i - 1 \in 0 .. n /\ i \in R!Indices
    BY <1>1
  <2> DEFINE c == a[i - 1]
             d == a[i]
  <2>2. d = R!Flush(c, i, TRUE)
    BY <1>7, <2>1
  <2>3. Done(c, i - 1)
    BY <1>9
  <2> HIDE DEF c, d
  <2>4. IsFlushed(c, i, TRUE, d)
    BY <1>3, <2>2, <2>3
  <2>5. \A j \in R!Indices : i < j => i - 1 < j /\ R!Hosts[j] # R!Hosts[i]
                                      /\ R!Hosts[j] \in HostNames
    BY <1>1, <2>1, AllocatorAssumption, HostFacts
  <2>6. Kept(d, i)
    <3>1. \A j \in R!Indices : i < j => d.host[R!Hosts[j]] = t.host[R!Hosts[j]]
      BY <2>3, <2>4, <2>5 DEF IsFlushed
    <3> QED BY <2>3, <2>4, <3>1 DEF IsFlushed
  <2>7. ASSUME NEW gs \in [Guests -> Int], t.at = "run", Sound(t, gs)
        PROVE  Out(d, i, gs)
    <3>1. Out(c, i - 1, gs)
      BY <2>3, <2>7
    <3>2. c.host[R!Hosts[i]] = t.host[R!Hosts[i]]
      BY <2>1, <2>3, <1>1
    <3>3. ASSUME NEW g \in Guests \ {0}, d.gpr[g] # gs[g]
          PROVE  \E j \in R!Indices :
                   i < j /\ t.bindings[j].guest = g /\ t.bindings[j].dirty
      <4>1. ~ (t.bindings[i].guest = g /\ t.bindings[i].dirty)
        BY <2>1, <2>3, <2>4, <2>7, <3>2, <3>3, HostFacts DEF IsFlushed, Sound
      <4>2. d.gpr[g] = c.gpr[g]
        BY <2>3, <2>4, <4>1 DEF IsFlushed
      <4>3. PICK j \in R!Indices :
              i - 1 < j /\ t.bindings[j].guest = g /\ t.bindings[j].dirty
        BY <3>1, <3>3, <4>2
      <4>4. j # i /\ i < j
        BY <1>1, <4>1, <4>3
      <4> QED BY <4>3, <4>4
    <3> QED BY <3>3
  <2>8. Done(d, i)
    BY <2>6, <2>7
  <2> QED BY <2>1, <2>8 DEF d
<1>10. Done(a[n], n)
  <2>1. n \in 0 .. n
    BY <1>1
  <2> HIDE DEF T
  <2>2. \A i \in 1 .. n : i - 1 \in T => i \in T
    BY <1>9
  <2>3. \A i \in 0 .. n : i \in T
    <3> HIDE DEF n
    <3> QED BY <1>1, <1>8, <2>2, LoopKeeps
  <2> QED BY <2>1, <2>3 DEF T
<1>11. \A j \in R!Indices : ~ (n < j)
  BY <1>1
<1> QED BY <1>2, <1>10, <1>11 DEF Restored, InMemory

-----------------------------------------------------------------------------
(* The invariant.                                                          *)

\* Of two host registers one at least is not reserved.
LEMMA SomeCandidate ==
  ASSUME NEW t \in Machine, NEW i \in R!Indices,
         \A j \in R!Indices : j # i => ~ t.bindings[j].reserved
  PROVE  R!Candidates(t) # {}
<1>1. 1 \in R!Indices /\ 2 \in R!Indices
  BY HostFacts, AllocatorAssumption
<1>2. PICK j \in R!Indices : j # i
  BY <1>1
<1>3. j \in R!Candidates(t)
  BY <1>2 DEF R!Candidates
<1> QED BY <1>3

\* Between the instructions of a block.
LEMMA Between ==
  ASSUME AllocatorInv, m.at = "run"
  PROVE  /\ m \in Machine /\ NoneReserved(m) /\ Links(m) /\ R!Candidates(m) # {}
         /\ guest \in [Guests -> Int] /\ guest[0] = 0
         /\ ~ confused => Sound(m, guest)
<1>1. 1 \in R!Indices
  BY HostFacts, AllocatorAssumption
<1>2. m \in Machine /\ NoneReserved(m)
  BY DEF AllocatorInv
<1>3. R!Candidates(m) # {}
  BY <1>1, <1>2, SomeCandidate DEF NoneReserved
<1> QED BY <1>2, <1>3 DEF AllocatorInv

\* After an instruction that stays in the block.
LEMMA Stays ==
  ASSUME m' \in Machine, m'.at = "run", NoneReserved(m'), Links(m'),
         guest' \in [Guests -> Int], guest'[0] = 0, confused' \in BOOLEAN,
         ~ confused' => Sound(m', guest')
  PROVE  AllocatorInv'
BY DEF AllocatorInv, NoneReserved, Links, Sound, InMemory

LEMMA ReadKeeps ==
  ASSUME AllocatorInv, NEW g \in Guests, Read(g)
  PROVE  AllocatorInv'
<1>1. m.at = "run" /\ m' = R!GetGpr(m, g, FALSE) /\ guest' = guest
      /\ confused' = (confused \/ ~ Holds(m', g))
  BY DEF Read, Step, Handed
<1>2. /\ m \in Machine /\ NoneReserved(m) /\ Links(m) /\ R!Candidates(m) # {}
      /\ guest \in [Guests -> Int] /\ guest[0] = 0
      /\ ~ confused => Sound(m, guest)
  BY <1>1, Between
<1>3. Got(m, g, FALSE, m')
  BY <1>1, <1>2, GetFacts
<1>4. confused' \in BOOLEAN /\ (~ confused' => ~ confused)
  BY <1>1
<1>5. NoneReserved(m')
  BY <1>2, <1>3 DEF Got, NoneReserved
<1>6. ~ confused' => Sound(m', guest')
  BY <1>1, <1>2, <1>3, <1>4 DEF Got
<1>7. m' \in Machine /\ m'.at = "run" /\ Links(m')
  BY <1>1, <1>3 DEF Got
<1> QED BY <1>1, <1>2, <1>4, <1>5, <1>6, <1>7, Stays

LEMMA WriteKeeps ==
  ASSUME AllocatorInv, NEW rd \in Guests, NEW rs \in Guests, Write(rd, rs)
  PROVE  AllocatorInv'
<1> DEFINE d == R!GetGpr(m, rd, TRUE)
           t == R!GetGpr(d, rs, FALSE)
           i == t.guest_to_host[rd]
           k == t.guest_to_host[rs]
           v == (t.host[R!Hosts[k]] + 3) % 7
           w == (guest[rs] + 3) % 7
<1>1. /\ m.at = "run" /\ rd # 0
      /\ m' = [t EXCEPT !.host[R!Hosts[i]] = v]
      /\ guest' = [guest EXCEPT ![rd] = w]
      /\ confused' = (confused \/ ~ Holds(t, rd) \/ ~ Holds(t, rs))
  BY DEF Write, Step, R!HostOf
<1>2. /\ m \in Machine /\ NoneReserved(m) /\ Links(m) /\ R!Candidates(m) # {}
      /\ guest \in [Guests -> Int] /\ guest[0] = 0
      /\ ~ confused => Sound(m, guest)
  BY <1>1, Between
<1>3. Got(m, rd, TRUE, d)
  BY <1>2, GetFacts
<1> HIDE DEF d
<1>4. Got(d, rs, FALSE, t)
  <2>1. d \in Machine /\ Links(d) /\ NoneReserved(d)
    BY <1>2, <1>3 DEF Got, NoneReserved
  <2>2. R!Candidates(d) # {}
    <3>1. 1 \in R!Indices
      BY HostFacts, AllocatorAssumption
    <3> QED BY <2>1, <3>1, SomeCandidate DEF NoneReserved
  <2> QED BY <2>1, <2>2, GetFacts
<1> HIDE DEF t
<1>5. /\ t \in Machine /\ t.at = "run" /\ Links(t) /\ NoneReserved(t)
      /\ ~ confused => Sound(t, guest)
  BY <1>1, <1>2, <1>3, <1>4 DEF Got, NoneReserved
<1>6. i \in R!Indices /\ k \in R!Indices /\ i = d.guest_to_host[rd]
  <2>1. d.guest_to_host[rd] \in R!Indices /\ t.guest_to_host[rs] \in R!Indices
    BY <1>3, <1>4 DEF Got
  <2>2. t.guest_to_host[rd] = d.guest_to_host[rd]
    BY <1>4, <2>1, HostFacts DEF Got
  <2> QED BY <2>1, <2>2
<1>7. v \in Int /\ w \in Int /\ R!Hosts[i] \in HostNames
  <2>1. t.host[R!Hosts[k]] \in Int /\ guest[rs] \in Int
    BY <1>2, <1>5, <1>6, HostFacts DEF Machine
  <2>2. \A x \in Int : (x + 3) % 7 \in Int
    OBVIOUS
  <2> QED BY <1>6, <2>1, <2>2, HostFacts
<1> HIDE DEF v
<1>8. /\ m' \in Machine /\ m'.at = t.at /\ m'.bindings = t.bindings
      /\ m'.guest_to_host = t.guest_to_host /\ m'.next_free = t.next_free
      /\ m'.evicted = t.evicted /\ m'.gpr = t.gpr
      /\ m'.host[R!Hosts[i]] = v
      /\ \A h \in HostNames : h # R!Hosts[i] => m'.host[h] = t.host[h]
  BY <1>1, <1>5, <1>7 DEF Machine
<1>9. NoneReserved(m') /\ Links(m')
  BY <1>5, <1>8 DEF NoneReserved, Links
<1>10. confused' \in BOOLEAN
       /\ (~ confused' => ~ confused /\ Holds(t, rd) /\ Holds(t, rs))
  BY <1>1
<1>11. guest' \in [Guests -> Int] /\ guest'[0] = 0 /\ guest'[rd] = w
       /\ \A g \in Guests : g # rd => guest'[g] = guest[g]
  BY <1>1, <1>2, <1>7, AllocatorAssumption
<1>12. ASSUME ~ confused'
       PROVE  Sound(m', guest')
  <2>1. t.bindings[i].guest = rd /\ t.bindings[k].guest = rs /\ Sound(t, guest)
    BY <1>5, <1>10, <1>12 DEF Holds
  <2>2. v = w
    BY <1>6, <2>1, HostFacts DEF Sound, v
  <2>3. ASSUME NEW j \in R!Indices, m'.bindings[j].guest # R!None
        PROVE  m'.host[R!Hosts[j]] = guest'[m'.bindings[j].guest]
    <3>1. CASE j = i
      BY <1>8, <1>11, <2>1, <2>2, <3>1
    <3>2. CASE j # i
      <4>1. R!Hosts[j] # R!Hosts[i] /\ R!Hosts[j] \in HostNames
        BY <1>6, <3>2, AllocatorAssumption, HostFacts
      <4>2. t.bindings[j].guest # rd /\ t.bindings[j].guest \in Guests
        BY <1>5, <1>6, <1>8, <2>3, <3>2 DEF Links, Machine, Binding
      <4>3. t.host[R!Hosts[j]] = guest[t.bindings[j].guest]
        BY <1>8, <2>1, <2>3 DEF Sound
      <4> QED BY <1>8, <1>11, <4>1, <4>2, <4>3
    <3> QED BY <3>1, <3>2
  <2>4. t.bindings[i].dirty
    <3>1. d.bindings[i].dirty
      BY <1>3, <1>6 DEF Got
    <3>2. CASE rd = rs
      <4>1. d.guest_to_host[rs] # R!None
        BY <1>6, <3>2, HostFacts
      <4>2. d.bindings[i].guest = t.bindings[i].guest
        BY <1>4, <1>6, <4>1 DEF Got
      <4> QED BY <1>4, <1>6, <3>1, <4>2 DEF Got
    <3>3. CASE rd # rs
      BY <1>4, <1>6, <2>1, <3>1, <3>3 DEF Got
    <3> QED BY <3>2, <3>3
  <2>5. ASSUME NEW g \in Guests \ {0}, m'.gpr[g] # guest'[g]
        PROVE  \E j \in R!Indices : m'.bindings[j].guest = g /\ m'.bindings[j].dirty
    <3>1. CASE g = rd
      BY <1>6, <1>8, <2>1, <2>4, <3>1
    <3>2. CASE g # rd
      BY <1>8, <1>11, <2>1, <2>5, <3>2 DEF Sound
    <3> QED BY <3>1, <3>2
  <2> QED BY <2>3, <2>5 DEF Sound
<1> QED BY <1>5, <1>8, <1>9, <1>10, <1>11, <1>12, Stays

\* d is t with the reservation of i set or taken back.
IsMarked(t, i, r, d) ==
  /\ d \in Machine
  /\ d.at = t.at /\ d.gpr = t.gpr /\ d.host = t.host
  /\ d.guest_to_host = t.guest_to_host
  /\ d.next_free = t.next_free /\ d.evicted = t.evicted
  /\ \A j \in R!Indices :
       /\ d.bindings[j].guest = t.bindings[j].guest
       /\ d.bindings[j].dirty = t.bindings[j].dirty
       /\ d.bindings[j].reserved = IF j = i THEN r ELSE t.bindings[j].reserved
  /\ Links(t) => Links(d)
  /\ \A gs \in [Guests -> Int] : Sound(t, gs) => Sound(d, gs)

LEMMA MarkFacts ==
  ASSUME NEW t \in Machine, NEW i \in R!Indices, NEW r \in BOOLEAN
  PROVE  IsMarked(t, i, r, [t EXCEPT !.bindings[i].reserved = r])
<1> DEFINE one == [t.bindings[i] EXCEPT !.reserved = r]
           bound == [t.bindings EXCEPT ![i] = one]
           d == [t EXCEPT !.bindings[i].reserved = r]
<1>1. t.bindings \in [R!Indices -> Binding] /\ t.bindings[i] \in Binding
  BY DEF Machine
<1>2. d = [t EXCEPT !.bindings = bound]
  BY <1>1 DEF Machine, Binding
<1>3. /\ one \in Binding /\ one.guest = t.bindings[i].guest
      /\ one.dirty = t.bindings[i].dirty /\ one.reserved = r
  BY <1>1 DEF Binding
<1> SUFFICES IsMarked(t, i, r, d)
  OBVIOUS
<1> HIDE DEF d, one
<1>4. /\ bound \in [R!Indices -> Binding] /\ bound[i] = one
      /\ \A j \in R!Indices : j # i => bound[j] = t.bindings[j]
  BY <1>1, <1>3
<1> HIDE DEF bound
<1>5. d \in Machine
  BY <1>2, <1>4 DEF Machine
<1>6. /\ d.bindings = bound /\ d.at = t.at /\ d.gpr = t.gpr /\ d.host = t.host
      /\ d.guest_to_host = t.guest_to_host
      /\ d.next_free = t.next_free /\ d.evicted = t.evicted
  BY <1>2 DEF Machine
<1>7. \A j \in R!Indices :
        /\ d.bindings[j].guest = t.bindings[j].guest
        /\ d.bindings[j].dirty = t.bindings[j].dirty
        /\ d.bindings[j].reserved = IF j = i THEN r ELSE t.bindings[j].reserved
  BY <1>3, <1>4, <1>6
<1>8. ASSUME Links(t) PROVE Links(d)
  <2>1. \A k \in Guests : t.guest_to_host[k] # R!None => t.guest_to_host[k] \in R!Indices
    BY DEF Machine
  <2>2. ASSUME ~ d.evicted, NEW k \in Guests, d.guest_to_host[k] # R!None
        PROVE  d.bindings[d.guest_to_host[k]].guest = k
    BY <1>6, <1>7, <1>8, <2>1, <2>2 DEF Links
  <2>3. /\ \A j \in R!Indices :
             d.bindings[j].guest # R!None => d.guest_to_host[d.bindings[j].guest] = j
        /\ \A j \in R!Indices : d.next_free <= j => d.bindings[j].guest = R!None
    BY <1>6, <1>7, <1>8 DEF Links
  <2> QED BY <2>2, <2>3 DEF Links
<1>9. \A gs \in [Guests -> Int] : Sound(t, gs) => Sound(d, gs)
  BY <1>6, <1>7 DEF Sound
<1> QED BY <1>5, <1>6, <1>7, <1>8, <1>9 DEF IsMarked

LEMMA BorrowKeeps ==
  ASSUME AllocatorInv, NEW h \in HostNames, NEW g \in Guests, Borrow(h, g)
  PROVE  AllocatorInv'
<1> DEFINE i == R!IndexOf(h)
           x == R!FlushAndDestroyBinding(m, i, TRUE)
           u == [x EXCEPT !.bindings[i].reserved = TRUE]
           t == R!GetGpr(u, g, FALSE)
           y == [t EXCEPT !.host[h] = Junk]
<1>1. h \in {Volatile[j] : j \in 1 .. Len(Volatile)}
  BY DEF Borrow
<1>2. /\ R!IsBindable(h) /\ i \in R!Indices /\ R!Hosts[i] = h
      /\ i <= Len(Volatile)
  BY <1>1, VolatileIndex
<1>3. /\ m.at = "run" /\ guest' = guest /\ confused' = (confused \/ ~ Holds(t, g))
      /\ m' = [y EXCEPT !.bindings[i].reserved = FALSE]
  BY <1>2 DEF Borrow, Step, Handed, R!Reserve, R!Free
<1>4. /\ m \in Machine /\ NoneReserved(m) /\ Links(m) /\ R!Candidates(m) # {}
      /\ guest \in [Guests -> Int] /\ guest[0] = 0
      /\ ~ confused => Sound(m, guest)
  BY <1>3, Between
<1> HIDE DEF i
<1>5. Destroyed(m, i, x)
  BY <1>2, <1>4, DestroyFacts
<1> HIDE DEF x
<1>6. IsMarked(x, i, TRUE, u)
  BY <1>2, <1>5, MarkFacts DEF Destroyed
<1> HIDE DEF u
<1>7. /\ u \in Machine /\ u.at = "run" /\ Links(u)
      /\ u.bindings[i].guest = R!None
      /\ \A j \in R!Indices : j # i => ~ u.bindings[j].reserved
      /\ u.bindings[i].reserved
      /\ ~ confused => Sound(u, guest)
  BY <1>2, <1>3, <1>4, <1>5, <1>6 DEF Destroyed, IsMarked, NoneReserved
<1>8. R!Candidates(u) # {}
  BY <1>2, <1>7, SomeCandidate
<1>9. Got(u, g, FALSE, t)
  BY <1>7, <1>8, GetFacts
<1> HIDE DEF t
<1>10. /\ t \in Machine /\ t.at = "run" /\ Links(t)
       /\ \A j \in R!Indices : j # i => ~ t.bindings[j].reserved
       /\ t.bindings[i].reserved
       /\ t.guest_to_host[g] \in R!Indices
       /\ t.bindings[i].guest # g => t.bindings[i].guest = R!None
       /\ ~ confused => Sound(t, guest)
  BY <1>2, <1>4, <1>7, <1>9 DEF Got
<1>11. /\ y \in Machine /\ y.at = t.at /\ y.bindings = t.bindings
       /\ y.guest_to_host = t.guest_to_host /\ y.next_free = t.next_free
       /\ y.evicted = t.evicted /\ y.gpr = t.gpr
       /\ \A k \in HostNames : k # h => y.host[k] = t.host[k]
  BY <1>10, AllocatorAssumption DEF Machine
<1> HIDE DEF y
<1>12. Links(y)
  BY <1>10, <1>11 DEF Links
<1>13. IsMarked(y, i, FALSE, m')
  BY <1>2, <1>3, <1>11, MarkFacts
<1>14. confused' \in BOOLEAN /\ (~ confused' => ~ confused /\ Holds(t, g))
  BY <1>3
<1>15. ASSUME ~ confused' PROVE Sound(y, guest)
  <2>1. t.bindings[t.guest_to_host[g]].guest = g
        /\ ~ t.bindings[t.guest_to_host[g]].reserved
        /\ Sound(t, guest)
    BY <1>10, <1>14, <1>15 DEF Holds
  <2>2. t.guest_to_host[g] # i
    BY <1>10, <2>1
  <2>3. t.bindings[i].guest = R!None
    <3>1. t.bindings[i].guest # g
      BY <1>2, <1>10, <2>2, HostFacts DEF Links
    <3> QED BY <1>10, <3>1
  <2>4. ASSUME NEW j \in R!Indices, y.bindings[j].guest # R!None
        PROVE  y.host[R!Hosts[j]] = guest[y.bindings[j].guest]
    <3>1. j # i
      BY <1>11, <2>3, <2>4
    <3>2. R!Hosts[j] # h /\ R!Hosts[j] \in HostNames
      BY <1>2, <3>1, AllocatorAssumption, HostFacts
    <3> QED BY <1>11, <2>1, <2>4, <3>2 DEF Sound
  <2> QED BY <1>11, <2>1, <2>4 DEF Sound
<1>16. ~ confused' => Sound(m', guest')
  BY <1>3, <1>4, <1>13, <1>15 DEF IsMarked
<1>17. NoneReserved(m')
  BY <1>10, <1>11, <1>13 DEF IsMarked, NoneReserved
<1>18. m' \in Machine /\ m'.at = "run" /\ Links(m')
  BY <1>10, <1>11, <1>12, <1>13 DEF IsMarked
<1> QED BY <1>3, <1>4, <1>14, <1>16, <1>17, <1>18, Stays

LEMMA CallKeeps ==
  ASSUME AllocatorInv, CallOut
  PROVE  AllocatorInv'
<1> DEFINE t == R!FlushAndDestroyAllVolatile(m)
<1>1. m.at = "run" /\ guest' = guest /\ confused' = confused
      /\ m' = IF t.aligned /\ R!Running(t) THEN R!Clobber(t) ELSE t
  BY DEF CallOut, Step, R!Call
<1>2. /\ m \in Machine /\ NoneReserved(m) /\ Links(m)
      /\ guest \in [Guests -> Int] /\ guest[0] = 0
      /\ ~ confused => Sound(m, guest)
  BY <1>1, Between
<1>3. Cleared(m, t)
  BY <1>2, ClearFacts
<1> HIDE DEF t
<1>4. confused' \in BOOLEAN
  BY <1>1 DEF AllocatorInv
<1>5. /\ t \in Machine /\ t.at = "run" /\ Links(t) /\ NoneReserved(t)
      /\ ~ confused => Sound(t, guest)
  BY <1>1, <1>2, <1>3 DEF Cleared, NoneReserved
<1>6. CASE m' = t
  <2>1. ~ confused' => Sound(m', guest')
    BY <1>1, <1>5, <1>6
  <2>2. m' \in Machine /\ m'.at = "run" /\ Links(m') /\ NoneReserved(m')
    BY <1>5, <1>6
  <2> QED BY <1>1, <1>2, <1>4, <2>1, <2>2, Stays
<1>7. CASE m' = R!Clobber(t)
  <2> DEFINE clobbered == [n \in HostNames |->
               IF n = "rax" \/ \E j \in 1 .. Len(Volatile) : Volatile[j] = n
               THEN Junk ELSE t.host[n]]
  <2>1. m' = [t EXCEPT !.host = clobbered]
    BY <1>5, <1>7 DEF R!Clobber, Machine
  <2>2. clobbered \in [HostNames -> Int]
    BY <1>5, AllocatorAssumption DEF Machine
  <2>3. ASSUME NEW j \in R!Indices, ~ (j \in 1 .. Len(Volatile))
        PROVE  clobbered[R!Hosts[j]] = t.host[R!Hosts[j]]
    <3>1. R!Hosts[j] \in HostNames /\ R!Hosts[j] # "rax"
      BY HostFacts, AllocatorAssumption
    <3>2. ASSUME NEW k \in 1 .. Len(Volatile), Volatile[k] = R!Hosts[j]
          PROVE  FALSE
      <4>1. k \in R!Indices /\ R!Hosts[k] = R!Hosts[j]
        BY <3>2, HostFacts
      <4> QED BY <2>3, <4>1, AllocatorAssumption
    <3> QED BY <3>1, <3>2
  <2> HIDE DEF clobbered
  <2>4. /\ m' \in Machine /\ m'.at = t.at /\ m'.bindings = t.bindings
        /\ m'.guest_to_host = t.guest_to_host /\ m'.next_free = t.next_free
        /\ m'.evicted = t.evicted /\ m'.gpr = t.gpr /\ m'.host = clobbered
    BY <1>5, <2>1, <2>2 DEF Machine
  <2>5. Links(m') /\ NoneReserved(m')
    BY <1>5, <2>4 DEF Links, NoneReserved
  <2>6. ASSUME ~ confused' PROVE Sound(m', guest')
    <3>1. Sound(t, guest)
      BY <1>1, <1>5, <2>6
    <3>2. ASSUME NEW j \in R!Indices, m'.bindings[j].guest # R!None
          PROVE  m'.host[R!Hosts[j]] = guest'[m'.bindings[j].guest]
      <4>1. ~ (j \in 1 .. Len(Volatile))
        BY <1>3, <2>4, <3>2 DEF Cleared
      <4> QED BY <1>1, <2>3, <2>4, <3>1, <3>2, <4>1 DEF Sound
    <3> QED BY <1>1, <2>4, <3>1, <3>2 DEF Sound
  <2> QED BY <1>1, <1>2, <1>4, <1>5, <2>4, <2>5, <2>6, Stays
<1> QED BY <1>1, <1>6, <1>7

LEMMA LeaveKeeps ==
  ASSUME AllocatorInv, LeaveOnBranch
  PROVE  AllocatorInv'
<1> DEFINE t == R!FlushAndRestoreAll(m)
           d == R!Pop(t, "rbp")
<1>1. m.at = "run" /\ guest' = guest /\ confused' = confused
      /\ m' = [d EXCEPT !.at = "left"]
  BY DEF LeaveOnBranch, Step, R!BlockEpilog, R!Running
<1>2. /\ m \in Machine /\ NoneReserved(m) /\ Links(m)
      /\ guest \in [Guests -> Int] /\ guest[0] = 0
      /\ ~ confused => Sound(m, guest)
  BY <1>1, Between
<1>3. Restored(m, t)
  BY <1>2, RestoreFacts
<1> HIDE DEF t
<1>4. IsPopped(t, "rbp", d)
  BY <1>3, PopFacts DEF Restored, HostNames
<1> HIDE DEF d
<1>5. /\ m' \in Machine /\ m'.at = "left" /\ m'.bindings = d.bindings
      /\ m'.guest_to_host = d.guest_to_host /\ m'.next_free = d.next_free
      /\ m'.evicted = d.evicted /\ m'.gpr = d.gpr
  BY <1>1, <1>4 DEF IsPopped, Machine
<1>6. /\ m'.bindings = m.bindings /\ m'.guest_to_host = m.guest_to_host
      /\ m'.next_free = m.next_free /\ m'.evicted = m.evicted /\ m'.gpr = t.gpr
  BY <1>3, <1>4, <1>5 DEF IsPopped, Restored
<1>7. Links(m')
  BY <1>2, <1>6 DEF Links
<1>8. ~ confused' => InMemory(m', guest')
  <2>1. ~ confused' => InMemory(t, guest)
    BY <1>1, <1>2, <1>3 DEF Restored
  <2> QED BY <1>1, <1>6, <2>1 DEF InMemory
<1>9. confused' \in BOOLEAN
  BY <1>1 DEF AllocatorInv
<1> QED BY <1>1, <1>2, <1>5, <1>7, <1>8, <1>9 DEF AllocatorInv, Links, InMemory

\* The path that stays emits the code of the way out and jumps over it: the bindings
\* and what they hold are as before.
LEMMA StayKeeps ==
  ASSUME AllocatorInv, StayOnBranch
  PROVE  m' = m /\ guest' = guest /\ confused' = confused
<1> DEFINE u == [m EXCEPT !.at = "skip"]
           t == R!FlushAndRestoreAll(u)
           d == R!Pop(t, "rbp")
<1>1. m.at = "run" /\ m \in Machine
  BY DEF StayOnBranch, Step, AllocatorInv
<1>2. u \in Machine /\ u.at = "skip" /\ m = [u EXCEPT !.at = "run"]
  BY <1>1 DEF Machine
<1>3. R!BlockEpilog(u) = IF R!Running(u) THEN [d EXCEPT !.at = "left"] ELSE d
  BY DEF R!BlockEpilog
<1>4. m' = [R!BlockEpilog(u) EXCEPT !.at = "run"]
      /\ guest' = guest /\ confused' = confused
  BY DEF StayOnBranch
<1> HIDE DEF u
<1>5. t = u
  BY <1>2, RestoreFacts DEF Restored
<1>6. d = u
  BY <1>2, <1>5, PopFacts DEF IsPopped, HostNames
<1> HIDE DEF d
<1>7. R!BlockEpilog(u) = u
  BY <1>2, <1>3, <1>6 DEF R!Running
<1> QED BY <1>2, <1>4, <1>7

LEMMA InitHolds == Init => AllocatorInv
<1> SUFFICES ASSUME Init PROVE AllocatorInv
  OBVIOUS
<1> DEFINE free == [i \in R!Indices |-> R!Unbound]
           nowhere == [g \in Guests |-> R!None]
           hosts == [Caller EXCEPT !["rbp"] = 0]
           pushed == <<90>> \o <<70>>
<1>1. "rbp" \in HostNames /\ Caller["rbp"] = 90 /\ Caller \in [HostNames -> Int]
  BY DEF HostNames, Caller
<1>2. /\ free \in [R!Indices -> Binding]
      /\ \A i \in R!Indices : free[i].guest = R!None /\ ~ free[i].reserved
  BY DEF R!Unbound, Binding
<1>3. nowhere \in [Guests -> R!Indices \cup {R!None}]
      /\ \A g \in Guests : nowhere[g] = R!None
  OBVIOUS
<1>4. hosts \in [HostNames -> Int] /\ pushed \in Seq(Int)
  BY <1>1
<1>5. InitialGuest \in [Guests -> Int] /\ InitialGuest[0] = 0
      /\ guest = InitialGuest /\ confused = FALSE
  BY AllocatorAssumption DEF Init, InitialGuest
<1>6. 1 \in 1 .. Len(R!Hosts) + 1
  BY HostFacts, AllocatorAssumption
<1> DEFINE e == Entry
           r == R!Reset(e)
<1>7. /\ e \in Machine /\ e.at = "run" /\ e.stack = <<70>>
      /\ e.gpr = InitialGuest /\ e.host = Caller
  <2>1. e = [at |-> "run", stack |-> <<70>>, underflow |-> FALSE, evicted |-> FALSE,
             gpr |-> InitialGuest, host |-> Caller, bindings |-> free,
             guest_to_host |-> nowhere, next_free |-> 1, access_index |-> 0,
             aligned |-> TRUE, stack_space |-> FALSE]
    BY DEF Entry
  <2>2. <<70>> \in Seq(Int)
    OBVIOUS
  <2> HIDE DEF free, nowhere, e
  <2> QED BY <1>1, <1>2, <1>3, <1>5, <1>6, <2>1, <2>2 DEF Machine
<1>8. m = [R!Push(r, 90) EXCEPT !.host["rbp"] = 0]
  <2>1. R!Running(e) /\ e.host["rbp"] = 90
    <3> HIDE DEF e
    <3> QED BY <1>1, <1>7 DEF R!Running
  <2> QED BY <2>1 DEF Init, R!BlockProlog
<1>9. r = [e EXCEPT !.bindings = free, !.guest_to_host = nowhere, !.next_free = 1,
                    !.access_index = 0, !.aligned = TRUE, !.stack_space = FALSE]
  BY DEF R!Reset
<1> HIDE DEF free, nowhere, hosts, pushed, e, r
<1>10. /\ r \in Machine /\ r.at = "run" /\ r.stack = <<70>> /\ r.host = Caller
       /\ r.gpr = InitialGuest /\ r.bindings = free /\ r.guest_to_host = nowhere
  BY <1>7, <1>9, <1>2, <1>3, <1>6 DEF Machine
<1>11. R!Push(r, 90) = [r EXCEPT !.stack = pushed]
  BY <1>10 DEF R!Push, R!Running, pushed
<1>12. m = [r EXCEPT !.stack = pushed, !.host = hosts]
  BY <1>8, <1>10, <1>11 DEF hosts, Machine
<1>13. m \in Machine
  BY <1>4, <1>10, <1>12 DEF Machine
<1>14. /\ m.at = "run" /\ m.bindings = free /\ m.guest_to_host = nowhere
       /\ m.gpr = InitialGuest
  BY <1>10, <1>12 DEF Machine
<1>15. NoneReserved(m) /\ Links(m) /\ Sound(m, guest)
  BY <1>2, <1>3, <1>5, <1>14 DEF NoneReserved, Links, Sound
<1> QED BY <1>5, <1>13, <1>14, <1>15 DEF AllocatorInv

LEMMA NextKeeps ==
  AllocatorInv /\ [Next]_vars => AllocatorInv'
<1> SUFFICES ASSUME AllocatorInv, [Next]_vars PROVE AllocatorInv'
  OBVIOUS
<1>1. ASSUME NEW g \in Guests, Read(g) PROVE AllocatorInv'
  BY <1>1, ReadKeeps
<1>2. ASSUME NEW rd \in Guests, NEW rs \in Guests, Write(rd, rs) PROVE AllocatorInv'
  BY <1>2, WriteKeeps
<1>3. ASSUME NEW h \in HostNames, NEW g \in Guests, Borrow(h, g) PROVE AllocatorInv'
  BY <1>3, BorrowKeeps
<1>4. CASE CallOut
  BY <1>4, CallKeeps
<1>5. CASE LeaveOnBranch
  BY <1>5, LeaveKeeps
<1>6. CASE StayOnBranch
  <2>1. m' = m /\ guest' = guest /\ confused' = confused
    BY <1>6, StayKeeps
  <2> QED BY <2>1 DEF AllocatorInv, NoneReserved, Links, Sound, InMemory
<1>7. CASE UNCHANGED vars
  BY <1>7 DEF vars, AllocatorInv, NoneReserved, Links, Sound, InMemory
<1> QED BY <1>1, <1>2, <1>3, <1>4, <1>5, <1>6, <1>7 DEF Next

-----------------------------------------------------------------------------
(* The theorems.                                                           *)

\* The state of the allocator and of the emitted code keeps its type, and no
\* reservation outlives the instruction that made it.
THEOREM AllocatorTypeCorrect ==
  Spec => [](m \in Machine /\ (m.at = "run" => NoneReserved(m)))
<1>1. Spec => []AllocatorInv
  BY InitHolds, NextKeeps, PTL DEF Spec
<1>2. AllocatorInv => m \in Machine /\ (m.at = "run" => NoneReserved(m))
  BY DEF AllocatorInv
<1> QED BY <1>1, <1>2, PTL

\* No write is lost, however guests are bound, evicted and flushed and however the
\* block calls out and is left: until the allocator hands out a register that is
\* another guest's, every guest register is in its host register or in memory.
THEOREM GuestsAreRecoverable == Spec => []GuestsRecoverable
<1>1. Spec => []AllocatorInv
  BY InitHolds, NextKeeps, PTL DEF Spec
<1>2. AllocatorInv => GuestsRecoverable
  <2> SUFFICES ASSUME AllocatorInv, ~ confused, NEW g \in Guests \ {0}
               PROVE  IF m.at = "run" /\ Owners(g) # {}
                      THEN \A i \in Owners(g) : m.host[R!Hosts[i]] = guest[g]
                      ELSE m.gpr[g] = guest[g]
    BY DEF GuestsRecoverable
  <2>1. g # R!None
    BY HostFacts
  <2>2. m.at = "run" \/ m.at = "left"
    BY DEF AllocatorInv, Machine
  <2> QED BY <2>1, <2>2 DEF AllocatorInv, Sound, InMemory, Owners
<1> QED BY <1>1, <1>2, PTL

\* The two maps of the allocator are inverse to each other until the first eviction.
THEOREM BindingsAreInverse == Spec => []BindingsInverse
<1>1. Spec => []AllocatorInv
  BY InitHolds, NextKeeps, PTL DEF Spec
<1>2. AllocatorInv => BindingsInverse
  <2> SUFFICES ASSUME AllocatorInv, ~ m.evicted, NEW g \in Guests
               PROVE  Owners(g) = IF m.guest_to_host[g] = R!None THEN {}
                                  ELSE {m.guest_to_host[g]}
    BY DEF BindingsInverse
  <2>1. g # R!None /\ m.guest_to_host[g] \in R!Indices \cup {R!None}
    BY HostFacts DEF AllocatorInv, Machine
  <2>2. Links(m)
    BY DEF AllocatorInv
  <2>3. \A i \in R!Indices : m.bindings[i].guest = g => m.guest_to_host[g] = i
    BY <2>1, <2>2 DEF Links
  <2>4. m.guest_to_host[g] # R!None => m.bindings[m.guest_to_host[g]].guest = g
    BY <2>2 DEF Links
  <2> QED BY <2>1, <2>3, <2>4, HostFacts DEF Owners
<1> QED BY <1>1, <1>2, PTL
=============================================================================
