------------------------- MODULE N64SchedulerProofs -------------------------
(***************************************************************************)
(* Proofs about the main loop: first what the operations on the event list *)
(* keep, then the invariants of the loop and its devices.                  *)
(***************************************************************************)
EXTENDS N64Scheduler, SequenceTheorems, FiniteSetTheorems,
        WellFoundedInduction, TLAPS

\* The order of the list, and that it holds at most one event of a type.
Sorted(queue) ==
    \A i, j \in 1 .. Len(queue) : i < j => queue[i].left <= queue[j].left
Single(queue, type) ==
    \A i, j \in 1 .. Len(queue) :
        queue[i].type = type /\ queue[j].type = type => i = j
Holds(queue, type) == \E i \in 1 .. Len(queue) : queue[i].type = type

-----------------------------------------------------------------------------
(* Facts about sequences.                                                  *)

\* The least of a set of numbers is one of them.
LEMMA HasMinimum ==
    ASSUME NEW S \in SUBSET Nat, S # {}
    PROVE  Min(S) \in S /\ \A i \in S : Min(S) <= i
<1> DEFINE R == OpToRel(<, Nat)
<1>1. IsWellFoundedOn(R, Nat)
  BY NatLessThanWellFounded
<1>2. \A i, m \in Nat : i < m => <<i, m>> \in R
  BY DEF OpToRel
<1> HIDE DEF R
<1>3. PICK m \in S : \A i \in S : ~ (<<i, m>> \in R)
  BY <1>1, WFMin
<1>4. \A i \in S : ~ (i < m)
  BY <1>2, <1>3
<1>5. \A i \in S : m <= i
  BY <1>4
<1> QED BY <1>5 DEF Min

\* What InsertAt does to each element.
LEMMA InsertAtFacts ==
  ASSUME NEW S, NEW s \in Seq(S), NEW i \in 1 .. Len(s)+1, NEW e \in S
  PROVE  /\ InsertAt(s, i, e) \in Seq(S)
         /\ Len(InsertAt(s, i, e)) = Len(s) + 1
         /\ InsertAt(s, i, e)[i] = e
         /\ \A j \in 1 .. i - 1 : InsertAt(s, i, e)[j] = s[j]
         /\ \A j \in i .. Len(s) : InsertAt(s, i, e)[j + 1] = s[j]
<1> DEFINE A == SubSeq(s, 1, i - 1)
           B == SubSeq(s, i, Len(s))
<1>0. Len(s) \in Nat
  BY LenProperties
<1>1. A \in Seq(S) /\ Len(A) = i - 1 /\ \A j \in 1 .. i - 1 : A[j] = s[j]
  BY SubSeqProperties
<1>2. B \in Seq(S) /\ Len(B) = Len(s) - i + 1 /\ \A j \in 1 .. Len(s) - i + 1 : B[j] = s[i + j - 1]
  BY SubSeqProperties
<1> HIDE DEF A, B
<1>3. InsertAt(s, i, e) = A \o <<e>> \o B
  BY DEF InsertAt, A, B
<1>4. A \o <<e>> \in Seq(S) /\ Len(A \o <<e>>) = i /\ (A \o <<e>>)[i] = e
      /\ \A j \in 1 .. i - 1 : (A \o <<e>>)[j] = s[j]
  BY <1>1
<1>5. A \o <<e>> \o B \in Seq(S) /\ Len(A \o <<e>> \o B) = Len(s) + 1
  BY <1>0, <1>2, <1>4
<1>6. \A j \in 1 .. i : (A \o <<e>> \o B)[j] = (A \o <<e>>)[j]
  BY <1>0, <1>2, <1>4
<1>7. ASSUME NEW j \in i .. Len(s)
      PROVE  (A \o <<e>> \o B)[j + 1] = s[j]
  <2>1. (A \o <<e>> \o B)[j + 1] = B[j + 1 - i]
    BY <1>0, <1>2, <1>4
  <2>2. j + 1 - i \in 1 .. Len(s) - i + 1 /\ i + (j + 1 - i) - 1 = j
    BY <1>0
  <2> QED BY <1>2, <2>1, <2>2
<1> QED BY <1>3, <1>4, <1>5, <1>6, <1>7

\* What RemoveAt does to each element.
LEMMA RemoveAtFacts ==
   ASSUME NEW S, NEW s \in Seq(S), NEW i \in 1 .. Len(s)
   PROVE  /\ RemoveAt(s, i) \in Seq(S)
          /\ Len(RemoveAt(s, i)) = Len(s) - 1
          /\ \A j \in 1 .. i - 1 : RemoveAt(s, i)[j] = s[j]
          /\ \A j \in i .. Len(s) - 1 : RemoveAt(s, i)[j] = s[j + 1]
<1> DEFINE A == SubSeq(s, 1, i - 1)
           B == SubSeq(s, i + 1, Len(s))
<1>0. Len(s) \in Nat
  BY LenProperties
<1>1. A \in Seq(S) /\ Len(A) = i - 1 /\ \A j \in 1 .. i - 1 : A[j] = s[j]
  BY SubSeqProperties
<1>2. B \in Seq(S) /\ Len(B) = Len(s) - i /\ \A j \in 1 .. Len(s) - i : B[j] = s[i + j]
  BY SubSeqProperties
<1> HIDE DEF A, B
<1>3. RemoveAt(s, i) = A \o B
  BY DEF RemoveAt, A, B
<1>4. A \o B \in Seq(S) /\ Len(A \o B) = Len(s) - 1
  <2>1. A \in Seq(S) /\ B \in Seq(S)
    BY <1>1, <1>2
  <2>2. A \o B \in Seq(S) /\ Len(A \o B) = Len(A) + Len(B)
    BY <2>1
  <2> QED BY <1>0, <1>1, <1>2, <2>2
<1>5. \A j \in 1 .. i - 1 : (A \o B)[j] = s[j]
  BY <1>0, <1>1, <1>2
<1>6. ASSUME NEW j \in i .. Len(s) - 1
      PROVE  (A \o B)[j] = s[j + 1]
  <2>1. (A \o B)[j] = B[j - (i - 1)]
    BY <1>0, <1>1, <1>2
  <2>2. j - (i - 1) \in 1 .. Len(s) - i /\ i + (j - (i - 1)) = j + 1
    BY <1>0
  <2> QED BY <1>2, <2>1, <2>2
<1> QED BY <1>3, <1>4, <1>5, <1>6

-----------------------------------------------------------------------------
(* Facts about the event list.                                             *)

\* An event has its fields, and changing them gives an event.
LEMMA EventFields ==
    ASSUME NEW e \in Event
    PROVE  /\ e.type \in EventType /\ e.left \in Int /\ e.owed \in Int
           /\ e.late \in BOOLEAN
BY DEF Event

\* What is left of a list when some of its events go keeps its order.
LEMMA SubsequenceFacts ==
    ASSUME NEW q \in Seq(Event), NEW s \in Seq(Event),
           NEW f \in [1 .. Len(s) -> 1 .. Len(q)],
           \A i, j \in 1 .. Len(s) : i < j => f[i] < f[j],
           \A k \in 1 .. Len(s) : s[k] = q[f[k]]
    PROVE  /\ \A k \in 1 .. Len(s) : \E i \in 1 .. Len(q) : s[k] = q[i]
           /\ \A t : Single(q, t) => Single(s, t)
           /\ Sorted(q) => Sorted(s)
<1>0. Len(q) \in Nat /\ Len(s) \in Nat /\ \A i \in 1 .. Len(s) : f[i] \in 1 .. Len(q)
  OBVIOUS
<1>1. ASSUME NEW t, Single(q, t)
      PROVE  Single(s, t)
  <2> SUFFICES ASSUME NEW i \in 1 .. Len(s), NEW j \in 1 .. Len(s),
                      s[i].type = t, s[j].type = t
               PROVE  i = j
    BY DEF Single
  <2>1. f[i] = f[j]
    BY <1>0, <1>1 DEF Single
  <2> QED BY <1>0, <2>1
<1>2. ASSUME Sorted(q)
      PROVE  Sorted(s)
  <2> SUFFICES ASSUME NEW i \in 1 .. Len(s), NEW j \in 1 .. Len(s), i < j
               PROVE  s[i].left <= s[j].left
    BY DEF Sorted
  <2>1. f[i] < f[j]
    OBVIOUS
  <2> QED BY <1>0, <1>2, <2>1 DEF Sorted
<1> QED BY <1>0, <1>1, <1>2

\* Where AddEvent puts an event: behind all those that are not later.
LEMMA AddEventPlace ==
    ASSUME NEW q \in Seq(Event), NEW e \in Event
    PROVE  \E p \in 1 .. Len(q) + 1 :
                /\ AddEvent(q, e) = InsertAt(q, p, e)
                /\ \A i \in 1 .. p - 1 : q[i].left <= e.left
                /\ p <= Len(q) => e.left < q[p].left
<1>0. Len(q) \in Nat /\ \A i \in 1 .. Len(q) : q[i] \in Event /\ q[i].left \in Int
  BY EventFields
<1>1. e.left \in Int
  BY EventFields
<1> DEFINE I == {i \in 1 .. Len(q) : e.left < q[i].left}
<1>2. SelectInSeq(q, LAMBDA f : e.left < f.left) = IF I # {} THEN Min(I) ELSE 0
  BY DEF SelectInSeq
<1>3. I \in SUBSET Nat
  BY <1>0
<1>4. CASE I = {}
  <2>1. AddEvent(q, e) = Append(q, e)
    BY <1>2, <1>4 DEF AddEvent
  <2>2. InsertAt(q, Len(q) + 1, e) = Append(q, e)
    <3>1. SubSeq(q, 1, Len(q) + 1 - 1) = q
      BY <1>0, SubSeqFull
    <3>2. SubSeq(q, Len(q) + 1, Len(q)) = <<>>
      BY <1>0, SubSeqEmpty
    <3>3. q \o <<e>> \o <<>> = Append(q, e)
      BY ConcatEmptySeq, AppendIsConcat
    <3>4. InsertAt(q, Len(q) + 1, e)
            = SubSeq(q, 1, Len(q) + 1 - 1) \o <<e>> \o SubSeq(q, Len(q) + 1, Len(q))
      BY DEF InsertAt
    <3> QED BY <3>1, <3>2, <3>3, <3>4
  <2>3. \A i \in 1 .. Len(q) : q[i].left <= e.left
    BY <1>0, <1>1, <1>4
  <2> QED BY <1>0, <2>1, <2>2, <2>3
<1>5. CASE I # {}
  <2> DEFINE p == Min(I)
  <2>1. p \in I /\ \A i \in I : p <= i
    BY <1>3, <1>5, HasMinimum
  <2>2. AddEvent(q, e) = InsertAt(q, p, e)
    BY <1>0, <1>2, <1>5, <2>1 DEF AddEvent
  <2> HIDE DEF p
  <2>3. \A i \in 1 .. p - 1 : q[i].left <= e.left
    BY <1>0, <1>1, <2>1
  <2> QED BY <1>0, <2>1, <2>2, <2>3
<1> QED BY <1>4, <1>5

\* AddEvent keeps all events and their order; the list has the new one besides.
LEMMA AddEventFacts ==
    ASSUME NEW q \in Seq(Event), NEW e \in Event
    PROVE  /\ AddEvent(q, e) \in Seq(Event)
           /\ \A k \in 1 .. Len(AddEvent(q, e)) :
                AddEvent(q, e)[k] = e
                \/ \E i \in 1 .. Len(q) : AddEvent(q, e)[k] = q[i]
           /\ \A t : Holds(AddEvent(q, e), t) <=> Holds(q, t) \/ t = e.type
           /\ \A t : Single(q, t) /\ (t = e.type => ~ Holds(q, t))
                        => Single(AddEvent(q, e), t)
           /\ Sorted(q) => Sorted(AddEvent(q, e))
<1>0. Len(q) \in Nat /\ \A i \in 1 .. Len(q) : q[i].left \in Int
  BY EventFields
<1>1. e.left \in Int
  BY EventFields
<1>2. PICK p \in 1 .. Len(q) + 1 :
        /\ AddEvent(q, e) = InsertAt(q, p, e)
        /\ \A i \in 1 .. p - 1 : q[i].left <= e.left
        /\ p <= Len(q) => e.left < q[p].left
  BY AddEventPlace
<1> DEFINE A == AddEvent(q, e)
<1>3. /\ A \in Seq(Event)
      /\ Len(A) = Len(q) + 1
      /\ A[p] = e
      /\ \A j \in 1 .. p - 1 : A[j] = q[j]
      /\ \A j \in p .. Len(q) : A[j + 1] = q[j]
  BY <1>2, InsertAtFacts
<1> HIDE DEF A
<1> DEFINE f == [k \in 1 .. Len(A) |-> IF k < p THEN k ELSE k - 1]
<1>4. \A k \in 1 .. Len(A) :
        k # p => /\ f[k] \in 1 .. Len(q) /\ A[k] = q[f[k]]
                 /\ k < p => f[k] < p
                 /\ k > p => f[k] >= p
  <2> SUFFICES ASSUME NEW k \in 1 .. Len(A), k # p
               PROVE  /\ f[k] \in 1 .. Len(q) /\ A[k] = q[f[k]]
                      /\ k < p => f[k] < p
                      /\ k > p => f[k] >= p
    OBVIOUS
  <2>1. CASE k < p BY <1>0, <1>3, <2>1
  <2>2. CASE k > p
    <3>1. k - 1 \in p .. Len(q) /\ (k - 1) + 1 = k
      BY <1>0, <1>3, <2>2
    <3>2. A[k] = q[k - 1]
      BY <1>3, <3>1
    <3> QED BY <1>0, <2>2, <3>1, <3>2
  <2> QED BY <1>0, <1>3, <2>1, <2>2
<1>5. \A i, j \in 1 .. Len(A) : i # p /\ j # p /\ i < j => f[i] < f[j]
  BY <1>0, <1>3
<1>6. \A i \in 1 .. Len(q) : \E k \in 1 .. Len(A) : A[k] = q[i]
  <2> SUFFICES ASSUME NEW i \in 1 .. Len(q)
               PROVE  \E k \in 1 .. Len(A) : A[k] = q[i]
    OBVIOUS
  <2>1. CASE i < p BY <1>0, <1>3, <2>1
  <2>2. CASE i >= p BY <1>0, <1>3, <2>2
  <2> QED BY <1>0, <2>1, <2>2
<1>7. p \in 1 .. Len(A)
  BY <1>0, <1>3
<1> HIDE DEF f
<1>8. ASSUME NEW t
      PROVE  Holds(A, t) <=> Holds(q, t) \/ t = e.type
  <2>1. ASSUME NEW k \in 1 .. Len(A), A[k].type = t
        PROVE  Holds(q, t) \/ t = e.type
    <3>1. CASE k = p BY <1>3, <2>1, <3>1
    <3>2. CASE k # p BY <1>4, <2>1, <3>2 DEF Holds
    <3> QED BY <3>1, <3>2
  <2>2. ASSUME NEW i \in 1 .. Len(q), q[i].type = t
        PROVE  Holds(A, t)
    BY <1>6, <2>2 DEF Holds
  <2>3. t = e.type => Holds(A, t)
    BY <1>3, <1>7 DEF Holds
  <2> QED BY <2>1, <2>2, <2>3 DEF Holds
<1>9. ASSUME NEW t, Single(q, t), t = e.type => ~ Holds(q, t)
      PROVE  Single(A, t)
  <2> SUFFICES ASSUME NEW i \in 1 .. Len(A), NEW j \in 1 .. Len(A),
                      A[i].type = t, A[j].type = t, i < j
               PROVE  FALSE
    BY <1>0, <1>3 DEF Single
  <2>1. i # p /\ j # p
    BY <1>3, <1>4, <1>9 DEF Holds
  <2>2. f[i] = f[j]
    BY <1>4, <1>9, <2>1 DEF Single
  <2> QED BY <1>0, <1>4, <1>5, <2>1, <2>2
<1>10. ASSUME Sorted(q)
       PROVE  Sorted(A)
  <2> SUFFICES ASSUME NEW i \in 1 .. Len(A), NEW j \in 1 .. Len(A), i < j
               PROVE  A[i].left <= A[j].left
    BY DEF Sorted
  <2>1. CASE i # p /\ j # p
    <3>1. f[i] < f[j] /\ f[i] \in 1 .. Len(q) /\ f[j] \in 1 .. Len(q)
      BY <1>4, <1>5, <2>1
    <3> QED BY <1>4, <1>10, <2>1, <3>1 DEF Sorted
  <2>2. CASE j = p
    <3>1. f[i] \in 1 .. p - 1 /\ A[i] = q[f[i]]
      BY <1>0, <1>4, <2>2
    <3> QED BY <1>2, <1>3, <2>2, <3>1
  <2>3. CASE i = p
    <3>1. f[j] \in p .. Len(q) /\ A[j] = q[f[j]] /\ p <= Len(q)
      BY <1>0, <1>4, <2>3
    <3>2. q[p].left <= q[f[j]].left
      BY <1>0, <1>10, <3>1 DEF Sorted
    <3>3. q[p].left \in Int /\ q[f[j]].left \in Int
      BY <1>0, <3>1
    <3> QED BY <1>1, <1>2, <1>3, <2>3, <3>1, <3>2, <3>3
  <2> QED BY <2>1, <2>2, <2>3
<1>11. \A k \in 1 .. Len(A) : A[k] = e \/ \E i \in 1 .. Len(q) : A[k] = q[i]
  BY <1>3, <1>4
<1> QED BY <1>3, <1>8, <1>9, <1>10, <1>11 DEF A

\* RemoveEvent takes out the first event of the type, if there is one.
LEMMA RemoveEventFacts ==
    ASSUME NEW q \in Seq(Event), NEW type
    PROVE  /\ RemoveEvent(q, type) \in Seq(Event)
           /\ \A k \in 1 .. Len(RemoveEvent(q, type)) :
                \E i \in 1 .. Len(q) : RemoveEvent(q, type)[k] = q[i]
           /\ \A t : t # type => (Holds(RemoveEvent(q, type), t) <=> Holds(q, t))
           /\ \A t : Single(q, t) => Single(RemoveEvent(q, type), t)
           /\ Single(q, type) => ~ Holds(RemoveEvent(q, type), type)
           /\ Sorted(q) => Sorted(RemoveEvent(q, type))
<1> DEFINE A == RemoveEvent(q, type)
           I == {i \in 1 .. Len(q) : q[i].type = type}
<1>0. Len(q) \in Nat /\ \A i \in 1 .. Len(q) : q[i].left \in Int
  BY EventFields
<1>1. CASE I = {}
  <2>1. A = q
    BY <1>1 DEF RemoveEvent, RemoveFirstMatch
  <2>2. ~ Holds(q, type)
    BY <1>1 DEF Holds
  <2> QED BY <2>1, <2>2
<1>2. CASE I # {}
  <2> DEFINE p == Min(I)
  <2>0. I \in SUBSET Nat
    BY <1>0
  <2>1. p \in I
    BY <1>2, <2>0, HasMinimum
  <2>2. SelectInSeq(q, LAMBDA f : f.type = type) = p
    BY <1>2 DEF SelectInSeq
  <2>3. A = RemoveAt(q, p)
    BY <1>2, <2>2 DEF RemoveEvent, RemoveFirstMatch
  <2> HIDE DEF p
  <2>4. /\ A \in Seq(Event)
        /\ Len(A) = Len(q) - 1
        /\ \A j \in 1 .. p - 1 : A[j] = q[j]
        /\ \A j \in p .. Len(q) - 1 : A[j] = q[j + 1]
    BY <2>1, <2>3, RemoveAtFacts
  <2> HIDE DEF A
  <2> DEFINE f == [k \in 1 .. Len(A) |-> IF k < p THEN k ELSE k + 1]
  <2>5. /\ f \in [1 .. Len(A) -> 1 .. Len(q)]
        /\ \A i, j \in 1 .. Len(A) : i < j => f[i] < f[j]
        /\ \A k \in 1 .. Len(A) : f[k] # p /\ A[k] = q[f[k]]
    BY <1>0, <2>1, <2>4
  <2> HIDE DEF f
  <2>6. ASSUME NEW i \in 1 .. Len(q), i # p
        PROVE  \E k \in 1 .. Len(A) : A[k] = q[i]
    <3>1. CASE i < p BY <1>0, <2>1, <2>4, <3>1
    <3>2. CASE i > p
      <4>1. i - 1 \in p .. Len(q) - 1 /\ (i - 1) + 1 = i
        BY <1>0, <2>1, <3>2
      <4>2. A[i - 1] = q[i] /\ i - 1 \in 1 .. Len(A)
        BY <1>0, <2>1, <2>4, <4>1
      <4> QED BY <4>2
    <3> QED BY <1>0, <2>1, <2>6, <3>1, <3>2
  <2>7. /\ \A k \in 1 .. Len(A) : \E i \in 1 .. Len(q) : A[k] = q[i]
        /\ \A t : Single(q, t) => Single(A, t)
        /\ Sorted(q) => Sorted(A)
    <3>1. A \in Seq(Event) /\ f \in [1 .. Len(A) -> 1 .. Len(q)]
      BY <2>4, <2>5
    <3>2. \A i, j \in 1 .. Len(A) : i < j => f[i] < f[j]
      BY <2>5
    <3>3. \A k \in 1 .. Len(A) : A[k] = q[f[k]]
      BY <2>5
    <3> HIDE DEF I
    <3> QED BY <3>1, <3>2, <3>3, SubsequenceFacts
  <2>8. \A t : t # type => (Holds(A, t) <=> Holds(q, t))
    BY <2>1, <2>6, <2>7 DEF Holds
  <2>9. ASSUME Single(q, type)
        PROVE  ~ Holds(A, type)
    <3> SUFFICES ASSUME NEW k \in 1 .. Len(A), A[k].type = type
                 PROVE  FALSE
      BY DEF Holds
    <3>1. f[k] \in 1 .. Len(q) /\ f[k] # p /\ A[k] = q[f[k]]
      BY <2>5
    <3> QED BY <2>1, <2>9, <3>1 DEF Single
  <2> QED BY <2>4, <2>7, <2>8, <2>9 DEF A
<1> QED BY <1>1, <1>2

\* ChangeEventTime puts the new event in the place of the one of its type.
LEMMA ChangeEventTimeFacts ==
    ASSUME NEW q \in Seq(Event), NEW e \in Event, Single(q, e.type)
    PROVE  /\ ChangeEventTime(q, e) \in Seq(Event)
           /\ \A k \in 1 .. Len(ChangeEventTime(q, e)) :
                \/ ChangeEventTime(q, e)[k] = e
                \/ /\ ChangeEventTime(q, e)[k].type # e.type
                   /\ \E i \in 1 .. Len(q) : ChangeEventTime(q, e)[k] = q[i]
           /\ \A t : Holds(ChangeEventTime(q, e), t) <=> Holds(q, t)
           /\ \A t : Single(q, t) => Single(ChangeEventTime(q, e), t)
           /\ Sorted(q) => Sorted(ChangeEventTime(q, e))
<1>0. IsPending(q, e.type) <=> Holds(q, e.type)
  BY DEF IsPending, Holds
<1>1. CASE ~ Holds(q, e.type)
  <2>1. ChangeEventTime(q, e) = q
    BY <1>0, <1>1 DEF ChangeEventTime
  <2> QED BY <1>1, <2>1 DEF Holds
<1>2. CASE Holds(q, e.type)
  <2> DEFINE r == RemoveEvent(q, e.type)
  <2>1. /\ r \in Seq(Event)
        /\ \A k \in 1 .. Len(r) : \E i \in 1 .. Len(q) : r[k] = q[i]
        /\ \A t : t # e.type => (Holds(r, t) <=> Holds(q, t))
        /\ \A t : Single(q, t) => Single(r, t)
        /\ ~ Holds(r, e.type)
        /\ Sorted(q) => Sorted(r)
    BY RemoveEventFacts
  <2>2. ChangeEventTime(q, e) = AddEvent(r, e)
    BY <1>0, <1>2 DEF ChangeEventTime
  <2> HIDE DEF r
  <2> DEFINE c == AddEvent(r, e)
  <2>3. /\ c \in Seq(Event)
        /\ \A k \in 1 .. Len(c) : c[k] = e \/ \E i \in 1 .. Len(r) : c[k] = r[i]
        /\ \A t : Holds(c, t) <=> Holds(r, t) \/ t = e.type
        /\ \A t : Single(r, t) /\ (t = e.type => ~ Holds(r, t)) => Single(c, t)
        /\ Sorted(r) => Sorted(c)
    BY <2>1, AddEventFacts
  <2> HIDE DEF c
  <2>4. ASSUME NEW k \in 1 .. Len(c)
        PROVE  \/ c[k] = e
               \/ c[k].type # e.type /\ \E i \in 1 .. Len(q) : c[k] = q[i]
    BY <2>1, <2>3 DEF Holds
  <2>5. \A t : Holds(c, t) <=> Holds(q, t)
    BY <1>2, <2>1, <2>3
  <2>6. \A t : Single(q, t) => Single(c, t)
    BY <2>1, <2>3
  <2>7. Sorted(q) => Sorted(c)
    BY <2>1, <2>3
  <2> QED BY <2>2, <2>3, <2>4, <2>5, <2>6, <2>7 DEF c
<1> QED BY <1>1, <1>2

\* As cycles pass nothing changes in the list but the time left.
LEMMA ElapsedFacts ==
    ASSUME NEW q \in Seq(Event), NEW step \in Int
    PROVE  /\ Elapsed(q, step) \in Seq(Event)
           /\ Len(Elapsed(q, step)) = Len(q)
           /\ \A i \in 1 .. Len(q) :
                /\ Elapsed(q, step)[i] = [q[i] EXCEPT !.left = @ - step]
                /\ Elapsed(q, step)[i].left = q[i].left - step
                /\ Elapsed(q, step)[i].type = q[i].type
<1> DEFINE s == Elapsed(q, step)
<1>1. s = [i \in 1 .. Len(q) |-> [q[i] EXCEPT !.left = @ - step]]
  BY DEF Elapsed
<1> HIDE DEF s
<1>2. ASSUME NEW i \in 1 .. Len(q)
      PROVE  /\ s[i] \in Event
             /\ s[i] = [q[i] EXCEPT !.left = @ - step]
             /\ s[i].left = q[i].left - step
             /\ s[i].type = q[i].type
  <2>1. q[i] \in Event
    OBVIOUS
  <2>2. s[i] = [q[i] EXCEPT !.left = @ - step]
    BY <1>1
  <2> QED BY <2>1, <2>2 DEF Event
<1>3. s \in Seq(Event) /\ Len(s) = Len(q)
  <2>1. s \in [1 .. Len(q) -> Event]
    BY <1>1, <1>2
  <2> QED BY <2>1
<1> QED BY <1>2, <1>3 DEF s

\* CheckEvents divides a sorted list into what is due and the rest, which has time
\* left; no event is in both parts or in none.
LEMMA CheckEventsFacts ==
    ASSUME NEW q \in Seq(Event), NEW step \in Int, Sorted(q)
    PROVE  /\ Remaining(q, step) \in Seq(Event)
           /\ Fired(q, step) \in Seq(Event)
           /\ \A k \in 1 .. Len(Remaining(q, step)) :
                /\ Remaining(q, step)[k].left > 0
                /\ \E i \in 1 .. Len(q) :
                    Remaining(q, step)[k] = [q[i] EXCEPT !.left = @ - step]
           /\ \A t : Holds(q, t)
                        <=> Holds(Remaining(q, step), t) \/ Holds(Fired(q, step), t)
           /\ \A t : Single(q, t) =>
                /\ Single(Remaining(q, step), t)
                /\ Single(Fired(q, step), t)
                /\ ~ (Holds(Remaining(q, step), t) /\ Holds(Fired(q, step), t))
           /\ Sorted(Remaining(q, step))
<1> DEFINE s == Elapsed(q, step)
           n == Due(q, step)
           r == Remaining(q, step)
           f == Fired(q, step)
<1>0. Len(q) \in Nat /\ \A i \in 1 .. Len(q) : q[i].left \in Int
  BY EventFields
<1>1. /\ s \in Seq(Event) /\ Len(s) = Len(q)
      /\ \A i \in 1 .. Len(q) : s[i].left = q[i].left - step /\ s[i].type = q[i].type
  BY ElapsedFacts
<1>e. \A i \in 1 .. Len(q) : s[i] = [q[i] EXCEPT !.left = @ - step]
  BY ElapsedFacts
<1>2. n \in 0 .. Len(q) /\ \A i \in n + 1 .. Len(q) : step < q[i].left
  <2> DEFINE I == {i \in 1 .. Len(q) : step < q[i].left}
  <2>1. SelectInSeq(q, LAMBDA g : step < g.left) = IF I # {} THEN Min(I) ELSE 0
    BY DEF SelectInSeq
  <2>2. I \in SUBSET Nat
    BY <1>0
  <2>3. CASE I = {}
    <3>1. n = Len(q)
      BY <2>1, <2>3 DEF Due
    <3> QED BY <1>0, <3>1
  <2>4. CASE I # {}
    <3>1. Min(I) \in I
      BY <2>2, <2>4, HasMinimum
    <3>2. n = Min(I) - 1
      BY <2>1, <2>4, <3>1 DEF Due
    <3>3. \A i \in Min(I) + 1 .. Len(q) : q[Min(I)].left <= q[i].left
      BY <1>0, <3>1 DEF Sorted
    <3>4. step < q[Min(I)].left /\ q[Min(I)].left \in Int /\ Min(I) \in 1 .. Len(q)
      BY <1>0, <3>1
    <3> HIDE DEF I, n
    <3>5. \A i \in Min(I) .. Len(q) : step < q[i].left
      BY <1>0, <3>3, <3>4
    <3> QED BY <1>0, <3>2, <3>4, <3>5
  <2> QED BY <2>3, <2>4
<1> HIDE DEF s, n
<1>3. /\ r \in Seq(Event) /\ Len(r) = Len(q) - n
      /\ \A k \in 1 .. Len(q) - n : r[k] = s[n + k]
  <2>1. r = SubSeq(s, n + 1, Len(q))
    BY DEF Remaining, s, n
  <2>2. \A i \in n + 1 .. Len(q) : s[i] \in Event
    BY <1>0, <1>1, <1>2
  <2> QED BY <1>0, <1>2, <2>1, <2>2, SubSeqProperties
<1>4. /\ f \in Seq(Event) /\ Len(f) = n
      /\ \A k \in 1 .. n : f[k] = s[k]
  <2>1. f = SubSeq(s, 1, n)
    BY DEF Fired, s, n
  <2>2. \A i \in 1 .. n : s[i] \in Event
    BY <1>0, <1>1, <1>2
  <2> QED BY <1>0, <1>2, <2>1, <2>2, SubSeqProperties
<1> HIDE DEF r, f
<1>5. Sorted(s)
  <2> SUFFICES ASSUME NEW i \in 1 .. Len(q), NEW j \in 1 .. Len(q), i < j
               PROVE  s[i].left <= s[j].left
    BY <1>1 DEF Sorted
  <2>1. q[i].left <= q[j].left /\ q[i].left \in Int /\ q[j].left \in Int
    BY <1>0 DEF Sorted
  <2> QED BY <1>1, <2>1
<1>6. \A t : (Holds(s, t) <=> Holds(q, t)) /\ (Single(q, t) => Single(s, t))
  BY <1>1 DEF Holds, Single
<1> DEFINE pos == [k \in 1 .. Len(r) |-> n + k]
<1>7. /\ pos \in [1 .. Len(r) -> 1 .. Len(s)]
      /\ \A i, j \in 1 .. Len(r) : i < j => pos[i] < pos[j]
      /\ \A k \in 1 .. Len(r) : pos[k] > n /\ r[k] = s[pos[k]]
  BY <1>0, <1>1, <1>2, <1>3
<1>8. ASSUME NEW i \in n + 1 .. Len(q)
      PROVE  \E k \in 1 .. Len(r) : r[k] = s[i]
  <2>1. i - n \in 1 .. Len(r) /\ n + (i - n) = i
    BY <1>0, <1>2, <1>3
  <2> QED BY <1>3, <2>1
<1> HIDE DEF pos
<1>9. /\ \A k \in 1 .. Len(r) : \E i \in 1 .. Len(s) : r[k] = s[i]
      /\ \A t : Single(s, t) => Single(r, t)
      /\ Sorted(s) => Sorted(r)
  <2>1. r \in Seq(Event) /\ pos \in [1 .. Len(r) -> 1 .. Len(s)]
    BY <1>3, <1>7
  <2>2. \A i, j \in 1 .. Len(r) : i < j => pos[i] < pos[j]
    BY <1>7
  <2>3. \A k \in 1 .. Len(r) : r[k] = s[pos[k]]
    BY <1>7
  <2> QED BY <1>1, <2>1, <2>2, <2>3, SubsequenceFacts
<1>10. /\ \A k \in 1 .. Len(f) : k \in 1 .. Len(s) /\ k <= n /\ f[k] = s[k]
       /\ \A t : Single(s, t) => Single(f, t)
  <2>1. \A k \in 1 .. Len(f) : k \in 1 .. Len(s) /\ k <= n /\ f[k] = s[k]
    BY <1>0, <1>1, <1>2, <1>4
  <2> QED BY <2>1 DEF Single
<1>11. ASSUME NEW k \in 1 .. Len(r)
       PROVE  /\ r[k].left > 0
              /\ \E i \in 1 .. Len(q) : r[k] = [q[i] EXCEPT !.left = @ - step]
  <2>0. pos[k] \in 1 .. Len(q) /\ pos[k] > n /\ r[k] = s[pos[k]]
    BY <1>1, <1>7
  <2>1. PICK i \in 1 .. Len(q) : i \in n + 1 .. Len(q) /\ r[k] = s[i]
    BY <1>0, <1>2, <2>0
  <2>2. step < q[i].left /\ q[i].left \in Int
    BY <1>0, <1>2, <2>1
  <2>3. r[k].left > 0
    BY <1>1, <2>1, <2>2
  <2> QED BY <1>e, <2>1, <2>3
<1>12. ASSUME NEW t
       PROVE  Holds(s, t) <=> Holds(r, t) \/ Holds(f, t)
  <2>1. ASSUME NEW i \in 1 .. Len(s), s[i].type = t
        PROVE  Holds(r, t) \/ Holds(f, t)
    <3>1. CASE i <= n
      <4>1. i \in 1 .. Len(f)
        BY <1>0, <1>2, <1>4, <3>1
      <4> QED BY <1>10, <2>1, <4>1 DEF Holds
    <3>2. CASE i > n
      <4>1. i \in n + 1 .. Len(q)
        BY <1>0, <1>1, <1>2, <3>2
      <4> QED BY <1>8, <2>1, <4>1 DEF Holds
    <3> QED BY <1>2, <3>1, <3>2
  <2>2. Holds(r, t) => Holds(s, t)
    BY <1>9 DEF Holds
  <2>3. Holds(f, t) => Holds(s, t)
    BY <1>10 DEF Holds
  <2> QED BY <2>1, <2>2, <2>3 DEF Holds
<1>13. ASSUME NEW t, Single(s, t)
       PROVE  ~ (Holds(r, t) /\ Holds(f, t))
  <2> SUFFICES ASSUME NEW i \in 1 .. Len(r), NEW j \in 1 .. Len(f),
                      r[i].type = t, f[j].type = t
               PROVE  FALSE
    BY DEF Holds
  <2>1. pos[i] \in 1 .. Len(s) /\ pos[i] > n /\ s[pos[i]].type = t
    BY <1>7
  <2>2. j \in 1 .. Len(s) /\ j <= n /\ s[j].type = t
    BY <1>10
  <2>3. pos[i] = j
    BY <1>13, <2>1, <2>2 DEF Single
  <2> QED BY <1>2, <2>1, <2>2, <2>3
<1> QED BY <1>3, <1>4, <1>5, <1>6, <1>9, <1>10, <1>11, <1>12, <1>13 DEF r, f

-----------------------------------------------------------------------------
(* Facts about Count, which wraps at Modulus.                              *)

Multiple(x) == \E k \in Int : x = k * Modulus

LEMMA MultipleIsZeroModulo ==
    ASSUME NEW x \in Int PROVE Multiple(x) <=> x % Modulus = 0
<1>1. Modulus \in Nat \ {0}
  BY SchedulerAssumption
<1>2. ASSUME x % Modulus = 0 PROVE \E k \in Int : x = k * Modulus
  <2>1. x = Modulus * (x \div Modulus) + (x % Modulus) /\ x \div Modulus \in Int
    BY <1>1
  <2>2. x = (x \div Modulus) * Modulus
    BY <1>1, <1>2, <2>1
  <2> QED BY <2>1, <2>2
<1>3. ASSUME NEW k \in Int, x = k * Modulus PROVE x % Modulus = 0
  BY <1>1, <1>3
<1> QED BY <1>2, <1>3 DEF Multiple

\* Sums and differences of multiples are multiples.
LEMMA MultipleSum ==
    ASSUME NEW x \in Int, NEW y \in Int, Multiple(x), Multiple(y)
    PROVE  Multiple(x + y) /\ Multiple(x - y)
<1>1. PICK k \in Int : x = k * Modulus
  BY DEF Multiple
<1>2. PICK l \in Int : y = l * Modulus
  BY DEF Multiple
<1>3. Modulus \in Int
  BY SchedulerAssumption
<1>4. x + y = (k + l) * Modulus /\ x - y = (k - l) * Modulus
  BY <1>1, <1>2, <1>3
<1>5. k + l \in Int /\ k - l \in Int
  OBVIOUS
<1> QED BY <1>4, <1>5 DEF Multiple

LEMMA MultipleModulus == Multiple(Modulus) /\ Multiple(0)
<1>1. Modulus \in Int /\ Modulus = 1 * Modulus /\ 0 = 0 * Modulus
  BY SchedulerAssumption
<1> QED BY <1>1 DEF Multiple

\* The rest of a division by Modulus differs by a multiple.
LEMMA RestFacts ==
    ASSUME NEW x \in Int
    PROVE  x % Modulus \in 0 .. Modulus - 1 /\ Multiple(x - (x % Modulus))
<1>1. Modulus \in Nat \ {0}
  BY SchedulerAssumption
<1>2. x % Modulus \in 0 .. Modulus - 1
  BY <1>1
<1>3. x = Modulus * (x \div Modulus) + (x % Modulus) /\ x \div Modulus \in Int
  BY <1>1
<1>4. x - (x % Modulus) = (x \div Modulus) * Modulus
  BY <1>1, <1>2, <1>3
<1> QED BY <1>2, <1>3, <1>4 DEF Multiple

\* Count goes on by the cycles that pass, up to what wraps.
LEMMA AdvanceCountFacts ==
    ASSUME NEW c \in Nat, NEW k \in Nat
    PROVE  AdvanceCount(c, k) \in Nat /\ Multiple(c + k - AdvanceCount(c, k))
<1>1. Modulus \in Nat \ {0}
  BY SchedulerAssumption
<1>2. CASE c + k < Modulus
  BY <1>2, MultipleModulus DEF AdvanceCount
<1>3. CASE ~ (c + k < Modulus)
  <2>1. (c + k) % Modulus \in 0 .. Modulus - 1 /\ Multiple((c + k) - ((c + k) % Modulus))
    BY RestFacts
  <2>2. AdvanceCount(c, k) = Modulus + ((c + k) % Modulus)
    BY <1>3 DEF AdvanceCount
  <2> DEFINE r == (c + k) % Modulus
  <2>3. r \in 0 .. Modulus - 1 /\ Multiple((c + k) - r) /\ AdvanceCount(c, k) = Modulus + r
    BY <2>1, <2>2
  <2> HIDE DEF r
  <2>4. Multiple(((c + k) - r) - Modulus)
    BY <1>1, <2>3, MultipleModulus, MultipleSum
  <2>5. ((c + k) - r) - Modulus = c + k - AdvanceCount(c, k)
    BY <1>1, <2>3
  <2> QED BY <1>1, <2>3, <2>4, <2>5
<1> QED BY <1>2, <1>3

\* The event is as far away as Compare is from Count, up to what wraps.
LEMMA CyclesUntilMatchFacts ==
    ASSUME NEW cmp \in Nat, NEW cnt \in Nat
    PROVE  /\ CyclesUntilMatch(cmp, cnt) \in Nat
           /\ Multiple(cmp - cnt - CyclesUntilMatch(cmp, cnt))
<1>1. Modulus \in Nat \ {0}
  BY SchedulerAssumption
<1>2. CASE cmp = cnt
  <2>1. cmp - cnt - CyclesUntilMatch(cmp, cnt) = 0 - Modulus
    BY <1>1, <1>2 DEF CyclesUntilMatch
  <2>2. Multiple(0 - Modulus)
    BY <1>1, MultipleModulus, MultipleSum
  <2> QED BY <1>1, <1>2, <2>1, <2>2 DEF CyclesUntilMatch
<1>3. CASE cmp # cnt
  <2> DEFINE r == (cmp - cnt) % Modulus
  <2>1. r \in 0 .. Modulus - 1 /\ Multiple((cmp - cnt) - r)
    BY RestFacts
  <2>2. CyclesUntilMatch(cmp, cnt) = r
    BY <1>3 DEF CyclesUntilMatch
  <2> HIDE DEF r
  <2> QED BY <1>1, <2>1, <2>2
<1> QED BY <1>2, <1>3

-----------------------------------------------------------------------------
(* The invariant.                                                          *)

\* When base cycles of the CPU's run have passed, the time of an event is honest
\* (see EventTimesHonest), and the timer's event is due when Count, now cnt, comes
\* to Compare, cmp.
EventOk(e, base, cmp, cnt) ==
    /\ IF e.late THEN e.left - base - e.owed \in 1 .. Update + MaxCost
                 ELSE e.left - base = e.owed
    /\ e.type = "CountCompareMatch" => Multiple(cmp - cnt - (e.left - base))

QueueOk(queue, base, cmp, cnt) ==
    /\ queue \in Seq(Event)
    /\ Sorted(queue)
    /\ \A i \in 1 .. Len(queue) : EventOk(queue[i], base, cmp, cnt)

\* The cycles of the CPU's run that the list does not know of yet.
Elapsing == IF phase = "cpu" THEN cycle_counter ELSE 0

Ahead(queue) == \A i \in 1 .. Len(queue) : queue[i].left > 0

\* No event of these types is doubled, and that of the video interface is not lost.
FiredSingle(due, type) ==
    \A i, j \in 1 .. Len(due) : due[i] = type /\ due[j] = type => i = j
FiredHolds(due, type) == \E i \in 1 .. Len(due) : due[i] = type

SingleType == {"CountCompareMatch", "SpDmaFinish", "VINewHalfline"}

AtMostOnce(queue, due) ==
    \A t \in SingleType :
        /\ Single(queue, t) /\ FiredSingle(due, t)
        /\ ~ (Holds(queue, t) /\ FiredHolds(due, t))

Keeps(queue, due, type) == Holds(queue, type) \/ FiredHolds(due, type)

TypeOK ==
    /\ events \in Seq(Event)
    /\ fired \in Seq(EventType)
    /\ phase \in {"update", "cpu", "callbacks", "rsp"}
    /\ cycle_counter \in Nat /\ cpu_cycle_overrun \in Nat
    /\ count \in Nat /\ compare \in Nat
    /\ timer_ip \in BOOLEAN /\ matched \in BOOLEAN
    /\ halfline \in Halflines

\* The CPU runs for less than an update and an instruction; what it left behind of
\* its run is the lateness of the events that others add.
LoopBounds ==
    /\ phase = "cpu" => cpu_cycle_overrun < Update /\ cycle_counter < Update + MaxCost
    /\ phase # "cpu" => \/ cycle_counter \in 1 .. Update + MaxCost
                        \/ phase = "update" /\ cpu_cycle_overrun = 0
    /\ phase # "callbacks" => fired = <<>>

EventsOk ==
    /\ QueueOk(events, Elapsing, compare, count)
    /\ AtMostOnce(events, fired)
    /\ Keeps(events, fired, "VINewHalfline")
    /\ phase # "cpu" => Ahead(events)

SchedulerInv == TypeOK /\ LoopBounds /\ EventsOk

-----------------------------------------------------------------------------
(* What the operations on the list keep of the invariant.                  *)

LEMMA AddOk ==
    ASSUME NEW q, NEW e \in Event, NEW base, NEW cmp, NEW cnt,
           QueueOk(q, base, cmp, cnt), EventOk(e, base, cmp, cnt)
    PROVE  /\ QueueOk(AddEvent(q, e), base, cmp, cnt)
           /\ Ahead(q) /\ e.left > 0 => Ahead(AddEvent(q, e))
<1> DEFINE a == AddEvent(q, e)
<1>1. q \in Seq(Event) /\ Sorted(q)
  BY DEF QueueOk
<1>2. /\ a \in Seq(Event) /\ Sorted(a)
      /\ \A k \in 1 .. Len(a) : a[k] = e \/ \E i \in 1 .. Len(q) : a[k] = q[i]
  BY <1>1, AddEventFacts
<1> HIDE DEF a
<1>3. \A k \in 1 .. Len(a) : EventOk(a[k], base, cmp, cnt)
  BY <1>2 DEF QueueOk
<1>4. Ahead(q) /\ e.left > 0 => Ahead(a)
  BY <1>2 DEF Ahead
<1> QED BY <1>2, <1>3, <1>4 DEF QueueOk, a

LEMMA RemoveOk ==
    ASSUME NEW q, NEW type, NEW base, NEW cmp, NEW cnt, QueueOk(q, base, cmp, cnt)
    PROVE  QueueOk(RemoveEvent(q, type), base, cmp, cnt)
<1> DEFINE a == RemoveEvent(q, type)
<1>1. q \in Seq(Event) /\ Sorted(q)
  BY DEF QueueOk
<1>2. /\ a \in Seq(Event) /\ Sorted(a)
      /\ \A k \in 1 .. Len(a) : \E i \in 1 .. Len(q) : a[k] = q[i]
  BY <1>1, RemoveEventFacts
<1> HIDE DEF a
<1>3. \A k \in 1 .. Len(a) : EventOk(a[k], base, cmp, cnt)
  BY <1>2 DEF QueueOk
<1> QED BY <1>2, <1>3 DEF QueueOk, a

\* The event whose time is changed need not have been right before.
LEMMA ChangeOk ==
    ASSUME NEW q \in Seq(Event), NEW e \in Event, NEW base, NEW cmp, NEW cnt,
           Sorted(q), Single(q, e.type), EventOk(e, base, cmp, cnt),
           \A i \in 1 .. Len(q) :
                q[i].type # e.type => EventOk(q[i], base, cmp, cnt)
    PROVE  QueueOk(ChangeEventTime(q, e), base, cmp, cnt)
<1> DEFINE a == ChangeEventTime(q, e)
<1>1. /\ a \in Seq(Event) /\ Sorted(a)
      /\ \A k \in 1 .. Len(a) :
            \/ a[k] = e
            \/ a[k].type # e.type /\ \E i \in 1 .. Len(q) : a[k] = q[i]
  BY ChangeEventTimeFacts
<1> HIDE DEF a
<1>2. \A k \in 1 .. Len(a) : EventOk(a[k], base, cmp, cnt)
  BY <1>1
<1> QED BY <1>1, <1>2 DEF QueueOk, a

\* A list with the same events, but for those that may be doubled.
LEMMA OnceKept ==
    ASSUME NEW q, NEW r, NEW due,
           AtMostOnce(q, due),
           \A t \in SingleType : Single(q, t) => Single(r, t),
           \A t \in SingleType : Holds(r, t) => Holds(q, t)
    PROVE  AtMostOnce(r, due)
BY DEF AtMostOnce

LEMMA OnceAdded ==
    ASSUME NEW q \in Seq(Event), NEW e \in Event, NEW due,
           AtMostOnce(q, due),
           e.type \in SingleType => ~ Keeps(q, due, e.type)
    PROVE  AtMostOnce(AddEvent(q, e), due)
<1>1. \A t : Holds(AddEvent(q, e), t) <=> Holds(q, t) \/ t = e.type
  BY AddEventFacts
<1>2. \A t : Single(q, t) /\ (t = e.type => ~ Holds(q, t)) => Single(AddEvent(q, e), t)
  BY AddEventFacts
<1> SUFFICES ASSUME NEW t \in SingleType
             PROVE  /\ Single(AddEvent(q, e), t) /\ FiredSingle(due, t)
                    /\ ~ (Holds(AddEvent(q, e), t) /\ FiredHolds(due, t))
  BY DEF AtMostOnce
<1> QED BY <1>1, <1>2 DEF AtMostOnce, Keeps

\* What a callback takes from the list of those to be called.
LEMMA CalledFacts ==
    ASSUME NEW due \in Seq(EventType), due # <<>>
    PROVE  /\ Tail(due) \in Seq(EventType)
           /\ \A t : FiredSingle(due, t) => FiredSingle(Tail(due), t)
           /\ FiredHolds(due, Head(due))
           /\ \A t : t # Head(due) =>
                (FiredHolds(Tail(due), t) <=> FiredHolds(due, t))
           /\ FiredSingle(due, Head(due)) => ~ FiredHolds(Tail(due), Head(due))
<1> DEFINE b == Tail(due)
           next == [i \in 1 .. Len(b) |-> i + 1]
<1>1. /\ b \in Seq(EventType) /\ Len(b) = Len(due) - 1 /\ Len(due) \in Nat \ {0}
      /\ \A i \in 1 .. Len(b) : b[i] = due[i + 1]
      /\ Head(due) = due[1]
  BY EmptySeq, LenProperties, HeadTailProperties
<1> HIDE DEF b
<1>2. \A i \in 1 .. Len(b) : next[i] \in 2 .. Len(due) /\ b[i] = due[next[i]]
  BY <1>1
<1>3. \A i, j \in 1 .. Len(b) : next[i] = next[j] => i = j
  BY <1>1
<1>4. \A i \in 2 .. Len(due) : \E j \in 1 .. Len(b) : b[j] = due[i]
  <2> SUFFICES ASSUME NEW i \in 2 .. Len(due)
               PROVE  \E j \in 1 .. Len(b) : b[j] = due[i]
    OBVIOUS
  <2>1. i - 1 \in 1 .. Len(b) /\ (i - 1) + 1 = i
    BY <1>1
  <2> QED BY <1>1, <2>1
<1> HIDE DEF next
<1>5. \A i : i \in 1 .. Len(due) <=> i = 1 \/ i \in 2 .. Len(due)
  BY <1>1
<1>6. ~ (1 \in 2 .. Len(due))
  OBVIOUS
<1>7. ASSUME NEW t, FiredSingle(due, t)
      PROVE  FiredSingle(b, t)
  BY <1>2, <1>3, <1>5, <1>7 DEF FiredSingle
<1>8. FiredHolds(due, Head(due))
  BY <1>1, <1>5 DEF FiredHolds
<1>9. ASSUME NEW t, t # Head(due)
      PROVE  FiredHolds(b, t) <=> FiredHolds(due, t)
  <2>1. ASSUME NEW i \in 1 .. Len(b), b[i] = t
        PROVE  FiredHolds(due, t)
    BY <1>2, <1>5, <2>1 DEF FiredHolds
  <2>2. ASSUME NEW i \in 1 .. Len(due), due[i] = t
        PROVE  FiredHolds(b, t)
    <3>1. i \in 2 .. Len(due)
      BY <1>1, <1>5, <1>9, <2>2
    <3> QED BY <1>4, <2>2, <3>1 DEF FiredHolds
  <2> QED BY <2>1, <2>2 DEF FiredHolds
<1>10. ASSUME FiredSingle(due, Head(due)), FiredHolds(b, Head(due))
       PROVE  FALSE
  <2>1. PICK i \in 1 .. Len(b) : b[i] = Head(due)
    BY <1>10 DEF FiredHolds
  <2>2. next[i] = 1
    BY <1>1, <1>2, <1>5, <1>10, <2>1 DEF FiredSingle
  <2> QED BY <1>2, <1>6, <2>2
<1> QED BY <1>1, <1>7, <1>8, <1>9, <1>10 DEF b

\* After gives an event; see After.
LEMMA AfterFacts ==
    ASSUME NEW type \in EventType, NEW d \in Nat, cycle_counter' \in Nat
    PROVE  /\ After(type, d) \in Event
           /\ After(type, d).type = type
           /\ After(type, d).left = d + cycle_counter'
           /\ After(type, d).owed = d
           /\ After(type, d).late = (phase # "cpu")
<1>1. (phase # "cpu") \in BOOLEAN /\ d + cycle_counter' \in Int /\ d \in Int
  OBVIOUS
<1> DEFINE l == (phase # "cpu")
<1>2. l \in BOOLEAN /\ After(type, d)
        = [type |-> type, left |-> d + cycle_counter', owed |-> d, late |-> l]
  BY DEF After
<1> HIDE DEF l
<1>3. /\ After(type, d) \in Event
      /\ After(type, d).type = type
      /\ After(type, d).left = d + cycle_counter'
      /\ After(type, d).owed = d
      /\ After(type, d).late = l
  BY <1>1, <1>2 DEF Event
<1> QED BY <1>3 DEF l

-----------------------------------------------------------------------------
(* An instruction of the CPU.                                              *)

LEMMA TickedFacts ==
    ASSUME events \in Seq(Event), NEW k \in Int
    PROVE  /\ Ticked(k) \in Seq(Event)
           /\ Len(Ticked(k)) = Len(events)
           /\ \A i \in 1 .. Len(events) :
                /\ Ticked(k)[i].type = events[i].type
                /\ Ticked(k)[i].left = events[i].left
                /\ Ticked(k)[i].owed = events[i].owed - k
                /\ Ticked(k)[i].late = events[i].late
<1> DEFINE s == Ticked(k)
<1>1. s = [i \in 1 .. Len(events) |-> [events[i] EXCEPT !.owed = @ - k]]
  BY DEF Ticked
<1> HIDE DEF s
<1>2. ASSUME NEW i \in 1 .. Len(events)
      PROVE  /\ s[i] \in Event
             /\ s[i].type = events[i].type
             /\ s[i].left = events[i].left
             /\ s[i].owed = events[i].owed - k
             /\ s[i].late = events[i].late
  <2>1. events[i] \in Event
    OBVIOUS
  <2>2. s[i] = [events[i] EXCEPT !.owed = @ - k]
    BY <1>1
  <2>3. /\ s[i].type = events[i].type
        /\ s[i].left = events[i].left
        /\ s[i].owed = events[i].owed - k
    BY <2>1, <2>2 DEF Event
  <2>4. s[i].late = events[i].late
    BY <2>1, <2>2, Zenon DEF Event
  <2>5. s[i] = [type |-> events[i].type, left |-> events[i].left,
                owed |-> events[i].owed - k, late |-> events[i].late]
    BY <2>1, <2>2 DEF Event
  <2>6. /\ events[i].type \in EventType /\ events[i].left \in Int
        /\ events[i].owed - k \in Int /\ events[i].late \in BOOLEAN
    BY <2>1, EventFields
  <2>7. s[i] \in Event
    BY <2>5, <2>6 DEF Event
  <2> QED BY <2>3, <2>4, <2>7
<1>3. s \in Seq(Event) /\ Len(s) = Len(events)
  <2>1. s \in [1 .. Len(events) -> Event]
    BY <1>1, <1>2
  <2> QED BY <2>1
<1> QED BY <1>2, <1>3 DEF s

\* As the cycles of an instruction pass the list stays right.
LEMMA TickedOk ==
    ASSUME SchedulerInv, phase = "cpu", NEW k \in Costs
    PROVE  /\ AdvanceCount(count, k) \in Nat
           /\ QueueOk(Ticked(k), cycle_counter + k, compare, AdvanceCount(count, k))
           /\ AtMostOnce(Ticked(k), fired)
           /\ \A t : Holds(Ticked(k), t) <=> Holds(events, t)
<1> DEFINE s == Ticked(k)
           cnt == AdvanceCount(count, k)
           base == cycle_counter + k
<1>1. k \in Nat /\ Update \in Nat /\ MaxCost \in Nat
  BY SchedulerAssumption
<1>2. /\ events \in Seq(Event) /\ cycle_counter \in Nat
      /\ count \in Nat /\ compare \in Nat
  BY DEF SchedulerInv, TypeOK
<1>3. /\ Sorted(events) /\ AtMostOnce(events, fired)
      /\ \A i \in 1 .. Len(events) : EventOk(events[i], cycle_counter, compare, count)
  BY DEF SchedulerInv, EventsOk, QueueOk, Elapsing
<1>4. /\ s \in Seq(Event) /\ Len(s) = Len(events)
      /\ \A i \in 1 .. Len(events) :
            /\ s[i].type = events[i].type /\ s[i].left = events[i].left
            /\ s[i].owed = events[i].owed - k /\ s[i].late = events[i].late
  BY <1>1, <1>2, TickedFacts
<1>5. cnt \in Nat /\ Multiple(count + k - cnt)
  BY <1>1, <1>2, AdvanceCountFacts
<1> HIDE DEF s, cnt
<1>6. Sorted(s)
  BY <1>3, <1>4 DEF Sorted
<1>7. ASSUME NEW t
      PROVE  (Holds(s, t) <=> Holds(events, t)) /\ (Single(events, t) => Single(s, t))
  BY <1>4 DEF Holds, Single
<1>8. AtMostOnce(s, fired)
  BY <1>3, <1>7, OnceKept
<1>9. ASSUME NEW i \in 1 .. Len(s)
      PROVE  EventOk(s[i], base, compare, cnt)
  <2>1. i \in 1 .. Len(events) /\ EventOk(events[i], cycle_counter, compare, count)
    BY <1>3, <1>4, <1>9
  <2>2. events[i].left \in Int /\ events[i].owed \in Int
    BY <1>2, <2>1, EventFields
  <2> DEFINE l == events[i].left
             o == events[i].owed
  <2>3. s[i].left = l /\ s[i].owed = o - k /\ l \in Int /\ o \in Int
    BY <1>4, <2>1, <2>2
  <2> HIDE DEF l, o
  <2>4. /\ s[i].left - base = l - cycle_counter - k
        /\ s[i].left - base - s[i].owed = l - cycle_counter - o
        /\ s[i].left - base = s[i].owed <=> l - cycle_counter = o
    BY <1>1, <1>2, <2>3
  <2>5. ASSUME s[i].type = "CountCompareMatch"
        PROVE  Multiple(compare - cnt - (s[i].left - base))
    <3>1. Multiple(compare - count - (l - cycle_counter))
      BY <1>4, <2>1, <2>5 DEF EventOk, l
    <3> DEFINE x == compare - count - (l - cycle_counter)
               y == count + k - cnt
    <3>2. Multiple(x) /\ Multiple(y)
      BY <1>5, <3>1
    <3>3. x \in Int /\ y \in Int /\ compare - cnt - (s[i].left - base) = x + y
      BY <1>1, <1>2, <1>5, <2>3
    <3> HIDE DEF x, y
    <3> QED BY <3>2, <3>3, MultipleSum
  <2>6. IF s[i].late THEN s[i].left - base - s[i].owed \in 1 .. Update + MaxCost
                     ELSE s[i].left - base = s[i].owed
    <3>1. s[i].late = events[i].late
      BY <1>4, <2>1
    <3> QED BY <2>1, <2>4, <3>1 DEF EventOk, l, o
  <2> QED BY <2>5, <2>6 DEF EventOk
<1> QED BY <1>4, <1>5, <1>6, <1>7, <1>8, <1>9 DEF QueueOk, s, cnt

\* What every instruction has to show of the list it leaves.
LEMMA InstructionOk ==
    ASSUME SchedulerInv, NEW k \in Costs, Tick(k),
           QueueOk(events', cycle_counter + k, compare', count'),
           AtMostOnce(events', fired), Holds(events', "VINewHalfline"),
           count' \in Nat, compare' \in Nat, timer_ip' \in BOOLEAN,
           matched' \in BOOLEAN, halfline' \in Halflines
    PROVE  SchedulerInv'
<1>1. k \in 1 .. MaxCost /\ Update \in Nat /\ MaxCost \in Nat
  BY SchedulerAssumption
<1>2. TypeOK /\ LoopBounds
  BY DEF SchedulerInv
<1>3. /\ phase = "cpu" /\ phase' = "cpu" /\ cycle_counter < CpuStep
      /\ cycle_counter' = cycle_counter + k
      /\ fired' = fired /\ cpu_cycle_overrun' = cpu_cycle_overrun
  BY DEF Tick
<1>4. cycle_counter' \in Nat /\ cycle_counter' < Update + MaxCost
  BY <1>1, <1>2, <1>3 DEF TypeOK, CpuStep
<1>5. TypeOK'
  BY <1>2, <1>3, <1>4 DEF TypeOK, QueueOk
<1>6. LoopBounds'
  BY <1>2, <1>3, <1>4 DEF LoopBounds
<1>7. EventsOk'
  BY <1>3 DEF EventsOk, Elapsing, Keeps
<1> QED BY <1>5, <1>6, <1>7 DEF SchedulerInv

\* The event an instruction starts is right.
LEMMA AfterInCpu ==
    ASSUME SchedulerInv, phase = "cpu", NEW k \in Costs,
           cycle_counter' = cycle_counter + k,
           NEW type \in EventType, NEW d \in Nat, NEW cmp, NEW cnt,
           type = "CountCompareMatch" => Multiple(cmp - cnt - d)
    PROVE  /\ After(type, d) \in Event
           /\ After(type, d).type = type
           /\ EventOk(After(type, d), cycle_counter + k, cmp, cnt)
<1>1. k \in Nat /\ cycle_counter \in Nat
  BY SchedulerAssumption DEF SchedulerInv, TypeOK
<1>2. cycle_counter' \in Nat
  BY <1>1
<1>3. /\ After(type, d) \in Event
      /\ After(type, d).type = type
      /\ After(type, d).left = d + cycle_counter'
      /\ After(type, d).owed = d
  BY <1>2, AfterFacts
<1>4. After(type, d).late = FALSE
  BY <1>2, AfterFacts
<1>5. After(type, d).left - (cycle_counter + k) = d
  BY <1>1, <1>3
<1> QED BY <1>3, <1>4, <1>5 DEF EventOk

LEMMA EventTypes ==
    /\ "CountCompareMatch" \in EventType /\ "PiDmaFinish" \in EventType
    /\ "SpDmaFinish" \in EventType /\ "VINewHalfline" \in EventType
BY DEF EventType

\* What the loop's other state gives an instruction.
LEMMA InstructionFrame ==
    ASSUME SchedulerInv, NEW k \in Costs, Tick(k)
    PROVE  /\ phase = "cpu" /\ cycle_counter' = cycle_counter + k /\ fired' = fired
           /\ count \in Nat /\ compare \in Nat
           /\ timer_ip \in BOOLEAN /\ matched \in BOOLEAN /\ halfline \in Halflines
           /\ (matched \/ Reaches(k)) \in BOOLEAN
           /\ CountValues \subseteq Nat /\ CompareValues \subseteq Nat
           /\ fired = <<>>
           /\ Holds(events, "VINewHalfline")
<1>1. phase = "cpu" /\ cycle_counter' = cycle_counter + k /\ fired' = fired
  BY DEF Tick
<1>2. fired = <<>>
  BY <1>1 DEF SchedulerInv, LoopBounds
<1>3. Holds(events, "VINewHalfline")
  BY <1>2 DEF SchedulerInv, EventsOk, Keeps, FiredHolds
<1>4. CountValues \subseteq Nat /\ CompareValues \subseteq Nat
  BY SchedulerAssumption
<1> QED BY <1>1, <1>2, <1>3, <1>4 DEF SchedulerInv, TypeOK

LEMMA InstructionStep ==
    ASSUME SchedulerInv, NEW k \in Costs, Instruction(k)
    PROVE  SchedulerInv'
<1>1. Tick(k) /\ events' = Ticked(k) /\ count' = AdvanceCount(count, k)
      /\ matched' = (matched \/ Reaches(k))
      /\ compare' = compare /\ timer_ip' = timer_ip /\ halfline' = halfline
  BY DEF Instruction
<1>2. phase = "cpu" /\ cycle_counter' = cycle_counter + k /\ fired' = fired
  BY <1>1, InstructionFrame
<1>3. /\ QueueOk(events', cycle_counter + k, compare', count')
      /\ AtMostOnce(events', fired) /\ Holds(events', "VINewHalfline")
      /\ count' \in Nat
  BY <1>1, <1>2, TickedOk, InstructionFrame
<1>4. /\ compare' \in Nat /\ timer_ip' \in BOOLEAN
      /\ matched' \in BOOLEAN /\ halfline' \in Halflines
  BY <1>1, InstructionFrame
<1> QED BY <1>1, <1>2, <1>3, <1>4, InstructionOk

\* The time of the timer's event is set anew from Compare and Count.
LEMMA ReloadStep ==
    ASSUME SchedulerInv, NEW k \in Costs, Tick(k),
           NEW cmp \in Nat, NEW cnt \in Nat
    PROVE  LET q == ReloadCountCompareEvent(Ticked(k), cmp, cnt)
           IN  /\ QueueOk(q, cycle_counter + k, cmp, cnt)
               /\ AtMostOnce(q, fired)
               /\ Holds(q, "VINewHalfline")
<1> DEFINE d == CyclesUntilMatch(cmp, cnt)
           e == After("CountCompareMatch", d)
           s == Ticked(k)
           q == ChangeEventTime(s, e)
<1>1. phase = "cpu" /\ cycle_counter' = cycle_counter + k
      /\ Holds(events, "VINewHalfline")
  BY InstructionFrame
<1>2. d \in Nat /\ Multiple(cmp - cnt - d)
  BY CyclesUntilMatchFacts
<1> HIDE DEF d
<1>3. e \in Event /\ e.type = "CountCompareMatch"
      /\ EventOk(e, cycle_counter + k, cmp, cnt)
  BY <1>1, <1>2, EventTypes, AfterInCpu
<1>4. /\ QueueOk(s, cycle_counter + k, compare, AdvanceCount(count, k))
      /\ AtMostOnce(s, fired)
      /\ Holds(s, "VINewHalfline")
  BY <1>1, TickedOk
<1> HIDE DEF e, s
<1>5. s \in Seq(Event) /\ Sorted(s) /\ Single(s, e.type)
  BY <1>3, <1>4 DEF QueueOk, AtMostOnce, SingleType
<1>6. \A i \in 1 .. Len(s) :
        s[i].type # e.type => EventOk(s[i], cycle_counter + k, cmp, cnt)
  BY <1>3, <1>4 DEF QueueOk, EventOk
<1>7. QueueOk(q, cycle_counter + k, cmp, cnt)
  BY <1>3, <1>5, <1>6, ChangeOk
<1>8. /\ \A t : Holds(q, t) <=> Holds(s, t)
      /\ \A t : Single(s, t) => Single(q, t)
  BY <1>3, <1>5, ChangeEventTimeFacts
<1> HIDE DEF q
<1>9. AtMostOnce(q, fired)
  BY <1>4, <1>8, OnceKept
<1> QED BY <1>4, <1>7, <1>8, <1>9 DEF ReloadCountCompareEvent, q, s, e, d

LEMMA Mtc0CountStep ==
    ASSUME SchedulerInv, NEW k \in Costs, Mtc0Count(k)
    PROVE  SchedulerInv'
<1>1. Tick(k) /\ events' = ReloadCountCompareEvent(Ticked(k), compare, count')
      /\ count' \in CountValues /\ matched' = (matched \/ Reaches(k))
      /\ compare' = compare /\ timer_ip' = timer_ip /\ halfline' = halfline
  BY DEF Mtc0Count
<1>2. /\ compare' \in Nat /\ timer_ip' \in BOOLEAN /\ count' \in Nat
      /\ matched' \in BOOLEAN /\ halfline' \in Halflines
  BY <1>1, InstructionFrame
<1>3. /\ QueueOk(events', cycle_counter + k, compare', count')
      /\ AtMostOnce(events', fired) /\ Holds(events', "VINewHalfline")
  BY <1>1, <1>2, ReloadStep
<1>4. fired' = fired
  BY <1>1, InstructionFrame
<1> QED BY <1>1, <1>2, <1>3, <1>4, InstructionOk

LEMMA Mtc0CompareStep ==
    ASSUME SchedulerInv, NEW k \in Costs, Mtc0Compare(k)
    PROVE  SchedulerInv'
<1>1. Tick(k) /\ events' = ReloadCountCompareEvent(Ticked(k), compare', count')
      /\ compare' \in CompareValues /\ count' = AdvanceCount(count, k)
      /\ timer_ip' = FALSE /\ matched' = FALSE /\ halfline' = halfline
  BY DEF Mtc0Compare
<1>2. fired' = fired /\ phase = "cpu"
  BY <1>1, InstructionFrame
<1>3. count' \in Nat
  BY <1>1, <1>2, TickedOk
<1>4. /\ compare' \in Nat /\ timer_ip' \in BOOLEAN
      /\ matched' \in BOOLEAN /\ halfline' \in Halflines
  BY <1>1, InstructionFrame
<1>5. /\ QueueOk(events', cycle_counter + k, compare', count')
      /\ AtMostOnce(events', fired) /\ Holds(events', "VINewHalfline")
  BY <1>1, <1>3, <1>4, ReloadStep
<1> QED BY <1>1, <1>2, <1>3, <1>4, <1>5, InstructionOk

\* What a store to a register of a device has to show.
LEMMA StoreOk ==
    ASSUME SchedulerInv, NEW k \in Costs, NEW q, Store(k, q),
           QueueOk(q, cycle_counter + k, compare, AdvanceCount(count, k)),
           AtMostOnce(q, fired), Holds(q, "VINewHalfline"), halfline' \in Halflines
    PROVE  SchedulerInv'
<1>1. Tick(k) /\ events' = q /\ count' = AdvanceCount(count, k)
      /\ matched' = (matched \/ Reaches(k))
      /\ compare' = compare /\ timer_ip' = timer_ip
  BY DEF Store
<1>2. fired' = fired /\ phase = "cpu"
  BY <1>1, InstructionFrame
<1>3. /\ compare' \in Nat /\ timer_ip' \in BOOLEAN /\ matched' \in BOOLEAN
  BY <1>1, InstructionFrame
<1>4. count' \in Nat
  BY <1>1, <1>2, TickedOk
<1> QED BY <1>1, <1>2, <1>3, <1>4, InstructionOk

\* An instruction that starts a transfer.
LEMMA StartStep ==
    ASSUME SchedulerInv, NEW k \in Costs, NEW type \in EventType, NEW d \in Delays,
           Store(k, Start(Ticked(k), type, d)), UNCHANGED halfline,
           type \in {"PiDmaFinish", "SpDmaFinish"},
           type = "SpDmaFinish" => ~ IsPending(events, type)
    PROVE  SchedulerInv'
<1> DEFINE s == Ticked(k)
           e == After(type, d)
           q == AddEvent(s, e)
           cnt == AdvanceCount(count, k)
<1>1. Tick(k)
  BY DEF Store
<1>2. phase = "cpu" /\ cycle_counter' = cycle_counter + k /\ fired = <<>>
      /\ halfline' \in Halflines /\ Holds(events, "VINewHalfline")
  BY <1>1, InstructionFrame
<1>3. /\ QueueOk(s, cycle_counter + k, compare, cnt)
      /\ AtMostOnce(s, fired)
      /\ \A t : Holds(s, t) <=> Holds(events, t)
  BY <1>2, TickedOk
<1>4. d \in Nat
  BY SchedulerAssumption
<1>5. e \in Event /\ e.type = type /\ EventOk(e, cycle_counter + k, compare, cnt)
  BY <1>2, <1>4, AfterInCpu
<1> HIDE DEF s, e, cnt
<1>6. s \in Seq(Event)
  BY <1>3 DEF QueueOk
<1>7. e.type \in SingleType => ~ Keeps(s, fired, e.type)
  BY <1>2, <1>3, <1>5 DEF SingleType, Keeps, Holds, FiredHolds, IsPending
<1>8. QueueOk(q, cycle_counter + k, compare, cnt)
  BY <1>3, <1>5, AddOk
<1>9. AtMostOnce(q, fired)
  BY <1>3, <1>5, <1>6, <1>7, OnceAdded
<1>10. Holds(q, "VINewHalfline")
  BY <1>2, <1>3, <1>5, <1>6, AddEventFacts
<1>11. Store(k, q)
  BY DEF Start, q, e, s
<1> HIDE DEF q
<1> QED BY <1>2, <1>8, <1>9, <1>10, <1>11, StoreOk DEF cnt

LEMMA StartPiDmaStep ==
    ASSUME SchedulerInv, NEW k \in Costs, StartPiDma(k)
    PROVE  SchedulerInv'
<1>1. PICK d \in Delays : Store(k, Start(Ticked(k), "PiDmaFinish", d))
  BY DEF StartPiDma
<1>2. UNCHANGED halfline
  BY DEF StartPiDma
<1> QED BY <1>1, <1>2, EventTypes, StartStep

LEMMA StartSpDmaStep ==
    ASSUME SchedulerInv, NEW k \in Costs, StartSpDma(k)
    PROVE  SchedulerInv'
<1>1. PICK d \in Delays : Store(k, Start(Ticked(k), "SpDmaFinish", d))
  BY DEF StartSpDma
<1>2. UNCHANGED halfline /\ ~ IsPending(events, "SpDmaFinish")
  BY DEF StartSpDma
<1> QED BY <1>1, <1>2, EventTypes, StartStep

LEMMA ResetPiStep ==
    ASSUME SchedulerInv, NEW k \in Costs, ResetPi(k)
    PROVE  SchedulerInv'
<1> DEFINE s == Ticked(k)
           q == RemoveEvent(s, "PiDmaFinish")
           cnt == AdvanceCount(count, k)
<1>1. Tick(k) /\ Store(k, q) /\ halfline' = halfline
  BY DEF ResetPi, Store
<1>2. phase = "cpu" /\ halfline' \in Halflines /\ Holds(events, "VINewHalfline")
  BY <1>1, InstructionFrame
<1>3. /\ QueueOk(s, cycle_counter + k, compare, cnt)
      /\ AtMostOnce(s, fired)
      /\ Holds(s, "VINewHalfline")
  BY <1>2, TickedOk
<1> HIDE DEF s, cnt
<1>4. s \in Seq(Event)
  BY <1>3 DEF QueueOk
<1>5. /\ \A t : t # "PiDmaFinish" => (Holds(q, t) <=> Holds(s, t))
      /\ \A t : Single(s, t) => Single(q, t)
  BY <1>4, RemoveEventFacts
<1>6. QueueOk(q, cycle_counter + k, compare, cnt)
  BY <1>3, RemoveOk
<1> HIDE DEF q
<1>7. \A t \in SingleType : Holds(q, t) => Holds(s, t)
  BY <1>5 DEF SingleType
<1>8. AtMostOnce(q, fired)
  BY <1>3, <1>5, <1>7, OnceKept
<1>9. Holds(q, "VINewHalfline")
  BY <1>3, <1>5
<1> QED BY <1>1, <1>2, <1>6, <1>8, <1>9, StoreOk DEF cnt

LEMMA WriteVSyncStep ==
    ASSUME SchedulerInv, NEW k \in Costs, WriteVSync(k)
    PROVE  SchedulerInv'
<1> DEFINE s == Ticked(k)
           e == After("VINewHalfline", halfline')
           q == ChangeEventTime(s, e)
           cnt == AdvanceCount(count, k)
<1>1. Tick(k) /\ Store(k, q) /\ halfline' \in Halflines
  BY DEF WriteVSync, Store
<1>2. phase = "cpu" /\ cycle_counter' = cycle_counter + k
  BY <1>1, InstructionFrame
<1>3. /\ QueueOk(s, cycle_counter + k, compare, cnt)
      /\ AtMostOnce(s, fired)
      /\ Holds(s, "VINewHalfline")
  BY <1>1, <1>2, TickedOk, InstructionFrame
<1>4. halfline' \in Nat
  BY <1>1, SchedulerAssumption
<1>5. /\ e \in Event /\ e.type = "VINewHalfline"
      /\ EventOk(e, cycle_counter + k, compare, cnt)
  BY <1>2, <1>4, EventTypes, AfterInCpu
<1> HIDE DEF s, e, cnt
<1>6. /\ s \in Seq(Event) /\ Sorted(s) /\ Single(s, e.type)
      /\ \A i \in 1 .. Len(s) : EventOk(s[i], cycle_counter + k, compare, cnt)
  BY <1>3, <1>5 DEF QueueOk, AtMostOnce, SingleType
<1>7. QueueOk(q, cycle_counter + k, compare, cnt)
  BY <1>5, <1>6, ChangeOk
<1>8. /\ \A t : Holds(q, t) <=> Holds(s, t)
      /\ \A t : Single(s, t) => Single(q, t)
  BY <1>5, <1>6, ChangeEventTimeFacts
<1> HIDE DEF q
<1>9. AtMostOnce(q, fired)
  BY <1>3, <1>8, OnceKept
<1> QED BY <1>1, <1>3, <1>7, <1>8, <1>9, StoreOk DEF cnt

-----------------------------------------------------------------------------
(* The rest of the loop.                                                   *)

LEMMA BeginUpdateStep ==
    ASSUME SchedulerInv, BeginUpdate
    PROVE  SchedulerInv'
<1>1. /\ Update \in Nat \ {0} /\ MaxCost \in Nat \ {0}
  BY SchedulerAssumption
<1>2. TypeOK /\ LoopBounds /\ EventsOk
  BY DEF SchedulerInv
<1>3. /\ phase = "update" /\ events' = events /\ fired' = fired /\ timer' = timer
      /\ halfline' = halfline
  BY DEF BeginUpdate
<1>4. /\ count' = count /\ compare' = compare /\ timer_ip' = timer_ip
      /\ matched' = matched
  BY <1>3 DEF timer
<1>5. QueueOk(events, 0, compare, count) /\ Ahead(events)
  BY <1>2, <1>3 DEF EventsOk, Elapsing
<1>6. CASE cpu_cycle_overrun < Update
  <2>1. phase' = "cpu" /\ cycle_counter' = 0 /\ cpu_cycle_overrun' = cpu_cycle_overrun
    BY <1>1, <1>2, <1>6 DEF BeginUpdate, TypeOK
  <2>2. TypeOK'
    BY <1>2, <1>3, <1>4, <2>1 DEF TypeOK
  <2>3. LoopBounds'
    BY <1>1, <1>2, <1>3, <1>6, <2>1 DEF LoopBounds
  <2>4. EventsOk'
    BY <1>2, <1>3, <1>4, <1>5, <2>1 DEF EventsOk, Elapsing, Keeps
  <2> QED BY <2>2, <2>3, <2>4 DEF SchedulerInv
<1>7. CASE ~ (cpu_cycle_overrun < Update)
  <2>1. phase' = "rsp" /\ cycle_counter' = cycle_counter
        /\ cpu_cycle_overrun >= Update
        /\ cpu_cycle_overrun' = cpu_cycle_overrun - Update
    BY <1>1, <1>2, <1>7 DEF BeginUpdate, TypeOK
  <2>2. cpu_cycle_overrun' \in Nat
    BY <1>1, <1>2, <2>1 DEF TypeOK
  <2>3. TypeOK'
    BY <1>2, <1>3, <1>4, <2>1, <2>2 DEF TypeOK
  <2>4. LoopBounds'
    BY <1>1, <1>2, <1>3, <2>1 DEF LoopBounds
  <2>5. EventsOk'
    BY <1>2, <1>3, <1>4, <1>5, <2>1 DEF EventsOk, Elapsing, Keeps
  <2> QED BY <2>3, <2>4, <2>5 DEF SchedulerInv
<1> QED BY <1>6, <1>7

\* The cycles of the CPU's run go from the list at once; with them the list is as
\* right between CPU runs as it was in the run.
LEMMA ElapsedEventOk ==
    ASSUME NEW e \in Event, NEW base \in Int, NEW cmp \in Nat, NEW cnt \in Nat,
           EventOk(e, base, cmp, cnt)
    PROVE  EventOk([e EXCEPT !.left = @ - base], 0, cmp, cnt)
<1> DEFINE l == e.left
           g == [e EXCEPT !.left = @ - base]
<1>1. l \in Int /\ e.owed \in Int
  BY EventFields
<1>2. g.left = l - base /\ g.owed = e.owed /\ g.type = e.type
  BY DEF Event
<1>3. g.late = e.late
  BY Zenon DEF Event
<1> HIDE DEF g
<1>4. g.left - 0 = l - base /\ g.left - 0 - g.owed = l - base - e.owed
  BY <1>1, <1>2
<1> QED BY <1>1, <1>2, <1>3, <1>4 DEF EventOk, g

LEMMA CheckEventsStep ==
    ASSUME SchedulerInv, CheckEvents
    PROVE  SchedulerInv'
<1> DEFINE r == Remaining(events, cycle_counter)
           due == Fired(events, cycle_counter)
<1>1. /\ Update \in Nat \ {0} /\ MaxCost \in Nat \ {0}
  BY SchedulerAssumption
<1>2. TypeOK /\ LoopBounds /\ EventsOk
  BY DEF SchedulerInv
<1>3. /\ phase = "cpu" /\ phase' = "callbacks"
      /\ cycle_counter >= CpuStep /\ cpu_cycle_overrun' = cycle_counter - CpuStep
      /\ events' = r /\ fired' = [i \in DOMAIN due |-> due[i].type]
      /\ cycle_counter' = cycle_counter /\ halfline' = halfline /\ timer' = timer
  BY DEF CheckEvents
<1>4. /\ count' = count /\ compare' = compare /\ timer_ip' = timer_ip
      /\ matched' = matched
  BY <1>3 DEF timer
<1>5. /\ events \in Seq(Event) /\ Sorted(events) /\ cycle_counter \in Int
      /\ \A i \in 1 .. Len(events) : EventOk(events[i], cycle_counter, compare, count)
      /\ AtMostOnce(events, fired) /\ Keeps(events, fired, "VINewHalfline")
      /\ fired = <<>>
  BY <1>2, <1>3 DEF TypeOK, EventsOk, LoopBounds, QueueOk, Elapsing
<1>6. /\ r \in Seq(Event) /\ due \in Seq(Event) /\ Sorted(r)
      /\ \A k \in 1 .. Len(r) :
            /\ r[k].left > 0
            /\ \E i \in 1 .. Len(events) :
                r[k] = [events[i] EXCEPT !.left = @ - cycle_counter]
      /\ \A t : Holds(events, t) <=> Holds(r, t) \/ Holds(due, t)
      /\ \A t : Single(events, t) =>
            Single(r, t) /\ Single(due, t) /\ ~ (Holds(r, t) /\ Holds(due, t))
  BY <1>5, CheckEventsFacts
<1> HIDE DEF r, due
<1>7. \A k \in 1 .. Len(r) : EventOk(r[k], 0, compare, count)
  <2> SUFFICES ASSUME NEW k \in 1 .. Len(r)
               PROVE  EventOk(r[k], 0, compare, count)
    OBVIOUS
  <2>1. PICK i \in 1 .. Len(events) :
            r[k] = [events[i] EXCEPT !.left = @ - cycle_counter]
    BY <1>6
  <2>2. events[i] \in Event /\ EventOk(events[i], cycle_counter, compare, count)
    BY <1>5
  <2>3. compare \in Nat /\ count \in Nat
    BY <1>2 DEF TypeOK
  <2> QED BY <1>5, <2>1, <2>2, <2>3, ElapsedEventOk
<1>8. /\ fired' \in Seq(EventType)
      /\ \A t : FiredHolds(fired', t) <=> Holds(due, t)
      /\ \A t : Single(due, t) => FiredSingle(fired', t)
  <2>1. fired' = [i \in 1 .. Len(due) |-> due[i].type] /\ Len(due) \in Nat
    BY <1>3, <1>6
  <2>2. \A i \in 1 .. Len(due) : due[i].type \in EventType
    BY <1>6, EventFields
  <2>3. fired' \in Seq(EventType) /\ Len(fired') = Len(due)
    BY <2>1, <2>2
  <2>4. \A i \in 1 .. Len(due) : fired'[i] = due[i].type
    BY <2>1
  <2> QED BY <2>3, <2>4 DEF FiredHolds, Holds, Single, FiredSingle
<1>9. AtMostOnce(events', fired')
  BY <1>3, <1>5, <1>6, <1>8 DEF AtMostOnce
<1>10. Keeps(events', fired', "VINewHalfline")
  <2>1. Holds(events, "VINewHalfline")
    BY <1>5 DEF Keeps, FiredHolds
  <2> QED BY <1>3, <1>6, <1>8, <2>1 DEF Keeps
<1>11. CpuStep \in 1 .. Update /\ cycle_counter \in 1 .. Update + MaxCost
       /\ cpu_cycle_overrun' \in Nat
  BY <1>1, <1>2, <1>3 DEF TypeOK, LoopBounds, CpuStep
<1>12. TypeOK'
  BY <1>2, <1>3, <1>4, <1>6, <1>8, <1>11 DEF TypeOK
<1>13. LoopBounds'
  BY <1>3, <1>11 DEF LoopBounds
<1>14. EventsOk'
  <2>1. QueueOk(events', Elapsing', compare', count')
    BY <1>3, <1>4, <1>6, <1>7 DEF QueueOk, Elapsing
  <2>2. Ahead(events')
    BY <1>3, <1>6 DEF Ahead
  <2> QED BY <1>9, <1>10, <2>1, <2>2 DEF EventsOk
<1> QED BY <1>12, <1>13, <1>14 DEF SchedulerInv

\* An event that is added between CPU runs is late by what the CPU left behind.
LEMMA AfterBetweenRuns ==
    ASSUME SchedulerInv, phase \in {"callbacks", "rsp"},
           cycle_counter' = cycle_counter,
           NEW type \in EventType, type # "CountCompareMatch", NEW d \in Nat \ {0},
           NEW cmp, NEW cnt
    PROVE  /\ After(type, d) \in Event
           /\ After(type, d).type = type
           /\ After(type, d).left > 0
           /\ EventOk(After(type, d), 0, cmp, cnt)
<1>1. cycle_counter \in 1 .. Update + MaxCost /\ Update \in Nat /\ MaxCost \in Nat
  BY SchedulerAssumption DEF SchedulerInv, LoopBounds
<1>2. cycle_counter' \in Nat
  BY <1>1
<1>3. /\ After(type, d) \in Event
      /\ After(type, d).type = type
      /\ After(type, d).left = d + cycle_counter'
      /\ After(type, d).owed = d
  BY <1>2, AfterFacts
<1>4. After(type, d).late = TRUE
  BY <1>2, AfterFacts
<1>5. /\ After(type, d).left > 0
      /\ After(type, d).left - 0 - After(type, d).owed = cycle_counter
  BY <1>1, <1>3
<1> QED BY <1>1, <1>3, <1>4, <1>5 DEF EventOk

\* What a callback has to show of the list it leaves.
LEMMA CallbackOk ==
    ASSUME SchedulerInv, NEW type, Callback(type),
           QueueOk(events', 0, compare, count), Ahead(events'),
           AtMostOnce(events', fired'), Keeps(events', fired', "VINewHalfline"),
           timer_ip' \in BOOLEAN
    PROVE  SchedulerInv'
<1>1. TypeOK /\ LoopBounds
  BY DEF SchedulerInv
<1>2. /\ phase = "callbacks" /\ phase' = phase /\ fired # <<>>
      /\ fired' = Tail(fired)
      /\ cycle_counter' = cycle_counter /\ cpu_cycle_overrun' = cpu_cycle_overrun
      /\ count' = count /\ compare' = compare /\ matched' = matched
      /\ halfline' = halfline
  BY DEF Callback
<1>3. fired' \in Seq(EventType)
  BY <1>1, <1>2, CalledFacts DEF TypeOK
<1>4. TypeOK'
  BY <1>1, <1>2, <1>3 DEF TypeOK, QueueOk
<1>5. LoopBounds'
  BY <1>1, <1>2 DEF LoopBounds
<1>6. EventsOk'
  BY <1>2 DEF EventsOk, Elapsing
<1> QED BY <1>4, <1>5, <1>6 DEF SchedulerInv

\* What is known when the callback of an event is called.
LEMMA CallbackFrame ==
    ASSUME SchedulerInv, NEW type, Callback(type)
    PROVE  /\ phase = "callbacks" /\ cycle_counter' = cycle_counter
           /\ timer_ip \in BOOLEAN /\ halfline \in Nat \ {0}
           /\ QueueOk(events, 0, compare, count) /\ Ahead(events)
           /\ events \in Seq(Event)
           /\ AtMostOnce(events, fired')
           /\ \A t : t # type => (Keeps(events, fired', t) <=> Keeps(events, fired, t))
           /\ type \in SingleType => ~ Keeps(events, fired', type)
           /\ Keeps(events, fired, "VINewHalfline")
<1>1. /\ phase = "callbacks" /\ fired # <<>> /\ Head(fired) = type
      /\ fired' = Tail(fired) /\ cycle_counter' = cycle_counter
  BY DEF Callback
<1>2. /\ QueueOk(events, 0, compare, count) /\ Ahead(events)
      /\ AtMostOnce(events, fired) /\ Keeps(events, fired, "VINewHalfline")
  BY <1>1 DEF SchedulerInv, EventsOk, Elapsing
<1>3. fired \in Seq(EventType) /\ timer_ip \in BOOLEAN /\ halfline \in Nat \ {0}
      /\ events \in Seq(Event)
  BY SchedulerAssumption DEF SchedulerInv, TypeOK
<1>4. /\ \A t : FiredSingle(fired, t) => FiredSingle(fired', t)
      /\ FiredHolds(fired, type)
      /\ \A t : t # type => (FiredHolds(fired', t) <=> FiredHolds(fired, t))
      /\ FiredSingle(fired, type) => ~ FiredHolds(fired', type)
  BY <1>1, <1>3, CalledFacts
<1>5. AtMostOnce(events, fired')
  BY <1>2, <1>4 DEF AtMostOnce
<1>6. type \in SingleType => ~ Keeps(events, fired', type)
  BY <1>2, <1>4 DEF AtMostOnce, Keeps
<1> QED BY <1>1, <1>2, <1>3, <1>4, <1>5, <1>6 DEF Keeps

\* A callback that adds no event, of an event that need not be there.
LEMMA PlainCallbackStep ==
    ASSUME SchedulerInv, NEW type, type # "VINewHalfline", Callback(type),
           events' = events, timer_ip' \in BOOLEAN
    PROVE  SchedulerInv'
<1>1. /\ QueueOk(events, 0, compare, count) /\ Ahead(events)
      /\ AtMostOnce(events, fired') /\ Keeps(events, fired', "VINewHalfline")
  BY CallbackFrame
<1>2. /\ QueueOk(events', 0, compare, count) /\ Ahead(events')
      /\ AtMostOnce(events', fired') /\ Keeps(events', fired', "VINewHalfline")
  BY <1>1
<1> QED BY <1>2, CallbackOk

\* A callback that adds an event of the type that has just gone.
LEMMA RestartStep ==
    ASSUME SchedulerInv, NEW type \in {"VINewHalfline", "SpDmaFinish"}, Callback(type),
           NEW d \in Nat \ {0}, events' = Start(events, type, d), timer_ip' = timer_ip
    PROVE  SchedulerInv'
<1> DEFINE e == After(type, d)
<1>1. /\ phase = "callbacks" /\ cycle_counter' = cycle_counter /\ timer_ip \in BOOLEAN
      /\ QueueOk(events, 0, compare, count) /\ Ahead(events)
      /\ events \in Seq(Event) /\ AtMostOnce(events, fired')
      /\ \A t : t # type => (Keeps(events, fired', t) <=> Keeps(events, fired, t))
      /\ type \in SingleType => ~ Keeps(events, fired', type)
      /\ Keeps(events, fired, "VINewHalfline")
  BY CallbackFrame
<1>2. type \in EventType /\ type \in SingleType /\ type # "CountCompareMatch"
  BY DEF EventType, SingleType
<1>3. e \in Event /\ e.type = type /\ e.left > 0 /\ EventOk(e, 0, compare, count)
  BY <1>1, <1>2, AfterBetweenRuns
<1>4. events' = AddEvent(events, e)
  BY DEF Start
<1> HIDE DEF e
<1>5. QueueOk(events', 0, compare, count) /\ Ahead(events')
  BY <1>1, <1>3, <1>4, AddOk
<1>6. AtMostOnce(events', fired')
  BY <1>1, <1>2, <1>3, <1>4, OnceAdded
<1>7. \A t : Holds(events', t) <=> Holds(events, t) \/ t = type
  BY <1>1, <1>3, <1>4, AddEventFacts
<1>8. Keeps(events', fired', "VINewHalfline")
  BY <1>1, <1>7 DEF Keeps
<1> QED BY <1>1, <1>5, <1>6, <1>8, CallbackOk

\* The timer's event is not in the list when it fires: no time is changed.
LEMMA OnCountCompareMatchStep ==
    ASSUME SchedulerInv, OnCountCompareMatchEvent
    PROVE  SchedulerInv'
<1> DEFINE e == After("CountCompareMatch", CyclesUntilMatch(compare, count))
<1>1. Callback("CountCompareMatch") /\ timer_ip' = TRUE
      /\ events' = ChangeEventTime(events, e)
  BY DEF OnCountCompareMatchEvent, ReloadCountCompareEvent
<1>2. "CountCompareMatch" \in SingleType
  BY DEF SingleType
<1>3. ~ Holds(events, "CountCompareMatch")
  BY <1>1, <1>2, CallbackFrame DEF Keeps
<1>4. e.type = "CountCompareMatch"
  BY DEF After
<1> HIDE DEF e
<1>5. ~ IsPending(events, e.type)
  BY <1>3, <1>4 DEF IsPending, Holds
<1>6. events' = events
  BY <1>1, <1>5 DEF ChangeEventTime
<1> QED BY <1>1, <1>6, PlainCallbackStep

LEMMA OnNewHalflineStep ==
    ASSUME SchedulerInv, OnNewHalflineEvent
    PROVE  SchedulerInv'
<1>1. /\ Callback("VINewHalfline") /\ events' = Start(events, "VINewHalfline", halfline)
      /\ timer_ip' = timer_ip
  BY DEF OnNewHalflineEvent
<1>2. halfline \in Nat \ {0}
  BY <1>1, CallbackFrame
<1> QED BY <1>1, <1>2, RestartStep

LEMMA OnPiDmaFinishStep ==
    ASSUME SchedulerInv, OnPiDmaFinish
    PROVE  SchedulerInv'
<1>1. Callback("PiDmaFinish") /\ events' = events /\ timer_ip' = timer_ip
  BY DEF OnPiDmaFinish
<1>2. timer_ip' \in BOOLEAN
  BY <1>1, CallbackFrame
<1> QED BY <1>1, <1>2, PlainCallbackStep

LEMMA OnSpDmaFinishStep ==
    ASSUME SchedulerInv, OnSpDmaFinish
    PROVE  SchedulerInv'
<1>1. Callback("SpDmaFinish") /\ timer_ip' = timer_ip
  BY DEF OnSpDmaFinish
<1>2. timer_ip' \in BOOLEAN
  BY <1>1, CallbackFrame
<1>3. CASE events' = events
  BY <1>1, <1>2, <1>3, PlainCallbackStep
<1>4. ASSUME NEW d \in Delays, events' = Start(events, "SpDmaFinish", d)
      PROVE  SchedulerInv'
  <2>1. d \in Nat \ {0}
    BY SchedulerAssumption
  <2> QED BY <1>1, <1>4, <2>1, RestartStep
<1> QED BY <1>3, <1>4 DEF OnSpDmaFinish

LEMMA EndCallbacksStep ==
    ASSUME SchedulerInv, EndCallbacks
    PROVE  SchedulerInv'
<1>1. TypeOK /\ LoopBounds /\ EventsOk
  BY DEF SchedulerInv
<1>2. /\ phase = "callbacks" /\ fired = <<>> /\ phase' = "rsp"
      /\ events' = events /\ fired' = fired /\ cycle_counter' = cycle_counter
      /\ cpu_cycle_overrun' = cpu_cycle_overrun /\ halfline' = halfline
      /\ count' = count /\ compare' = compare /\ timer_ip' = timer_ip
      /\ matched' = matched
  BY DEF EndCallbacks, timer
<1>3. TypeOK'
  BY <1>1, <1>2 DEF TypeOK
<1>4. LoopBounds'
  BY <1>1, <1>2 DEF LoopBounds
<1>5. EventsOk'
  BY <1>1, <1>2 DEF EventsOk, Elapsing, Keeps
<1> QED BY <1>3, <1>4, <1>5 DEF SchedulerInv

LEMMA RunRspStep ==
    ASSUME SchedulerInv, RunRsp
    PROVE  SchedulerInv'
<1>1. TypeOK /\ LoopBounds /\ EventsOk
  BY DEF SchedulerInv
<1>2. /\ phase = "rsp" /\ phase' = "update"
      /\ fired' = fired /\ cycle_counter' = cycle_counter
      /\ cpu_cycle_overrun' = cpu_cycle_overrun /\ halfline' = halfline
      /\ count' = count /\ compare' = compare /\ timer_ip' = timer_ip
      /\ matched' = matched
  BY DEF RunRsp, timer
<1>3. /\ events \in Seq(Event) /\ QueueOk(events, 0, compare, count)
      /\ Ahead(events) /\ AtMostOnce(events, fired)
      /\ Keeps(events, fired, "VINewHalfline") /\ fired = <<>>
  BY <1>1, <1>2 DEF TypeOK, EventsOk, Elapsing, LoopBounds
<1>4. /\ QueueOk(events', 0, compare, count) /\ Ahead(events')
      /\ AtMostOnce(events', fired) /\ Keeps(events', fired, "VINewHalfline")
  <2>1. CASE events' = events
    BY <1>3, <2>1
  <2>2. ASSUME NEW d \in Delays, ~ IsPending(events, "SpDmaFinish"),
               events' = Start(events, "SpDmaFinish", d)
        PROVE  /\ QueueOk(events', 0, compare, count) /\ Ahead(events')
               /\ AtMostOnce(events', fired)
               /\ Keeps(events', fired, "VINewHalfline")
    <3> DEFINE e == After("SpDmaFinish", d)
    <3>1. d \in Nat \ {0}
      BY SchedulerAssumption
    <3>2. e \in Event /\ e.type = "SpDmaFinish" /\ e.left > 0
          /\ EventOk(e, 0, compare, count)
      BY <1>2, <3>1, EventTypes, AfterBetweenRuns
    <3>3. events' = AddEvent(events, e)
      BY <2>2 DEF Start
    <3> HIDE DEF e
    <3>4. ~ Keeps(events, fired, e.type)
      BY <1>3, <2>2, <3>2 DEF Keeps, Holds, FiredHolds, IsPending
    <3>5. QueueOk(events', 0, compare, count) /\ Ahead(events')
      BY <1>3, <3>2, <3>3, AddOk
    <3>6. AtMostOnce(events', fired)
      BY <1>3, <3>2, <3>3, <3>4, OnceAdded
    <3>7. Keeps(events', fired, "VINewHalfline")
      BY <1>3, <3>2, <3>3, AddEventFacts DEF Keeps
    <3> QED BY <3>5, <3>6, <3>7
  <2> QED BY <2>1, <2>2 DEF RunRsp
<1>5. TypeOK'
  BY <1>1, <1>2, <1>4 DEF TypeOK, QueueOk
<1>6. LoopBounds'
  BY <1>1, <1>2 DEF LoopBounds
<1>7. EventsOk'
  BY <1>2, <1>4 DEF EventsOk, Elapsing, Keeps
<1> QED BY <1>5, <1>6, <1>7 DEF SchedulerInv

LEMMA StutterStep ==
    ASSUME SchedulerInv, UNCHANGED vars
    PROVE  SchedulerInv'
<1>1. /\ events' = events /\ fired' = fired /\ phase' = phase
      /\ cycle_counter' = cycle_counter /\ cpu_cycle_overrun' = cpu_cycle_overrun
      /\ count' = count /\ compare' = compare /\ timer_ip' = timer_ip
      /\ matched' = matched /\ halfline' = halfline
  BY DEF vars, timer
<1> QED BY <1>1 DEF SchedulerInv, TypeOK, LoopBounds, EventsOk, Elapsing, Keeps

-----------------------------------------------------------------------------
(* The theorems.                                                           *)

LEMMA SchedulerInit == Init => SchedulerInv
<1> SUFFICES ASSUME Init PROVE SchedulerInv
  OBVIOUS
<1> DEFINE d == CyclesUntilMatch(0, 0)
           t == Initial("CountCompareMatch", d)
           v == Initial("VINewHalfline", halfline)
<1>1. /\ halfline \in Halflines /\ halfline \in Nat \ {0}
      /\ count = 0 /\ compare = 0 /\ timer_ip = FALSE /\ matched = FALSE
      /\ fired = <<>> /\ phase = "update"
      /\ cycle_counter = 0 /\ cpu_cycle_overrun = 0
      /\ events = AddEvent(<<t>>, v)
  BY SchedulerAssumption DEF Init
<1>2. d \in Nat \ {0} /\ Multiple(0 - 0 - d)
  BY CyclesUntilMatchFacts, SchedulerAssumption DEF CyclesUntilMatch
<1> HIDE DEF d
<1>3. /\ t \in Event /\ t.type = "CountCompareMatch" /\ t.left = d /\ t.owed = d
      /\ v \in Event /\ v.type = "VINewHalfline" /\ v.left = halfline
      /\ v.owed = halfline
  BY <1>1, <1>2 DEF Initial, Event, EventType
<1>4. t.late = FALSE /\ v.late = FALSE
  BY DEF Initial
<1>5. EventOk(t, 0, 0, 0) /\ EventOk(v, 0, 0, 0)
  BY <1>1, <1>2, <1>3, <1>4 DEF EventOk
<1> HIDE DEF t, v
<1> DEFINE q == <<t>>
<1>6. q \in Seq(Event) /\ Len(q) = 1 /\ q[1] = t
  BY <1>3
<1> HIDE DEF q
<1>7. QueueOk(q, 0, 0, 0) /\ Ahead(q)
  BY <1>2, <1>3, <1>5, <1>6 DEF QueueOk, Sorted, Ahead
<1>8. AtMostOnce(q, fired) /\ ~ Keeps(q, fired, "VINewHalfline")
  BY <1>1, <1>3, <1>6 DEF AtMostOnce, Keeps, Single, FiredSingle, Holds, FiredHolds
<1>9. events = AddEvent(q, v)
  BY <1>1 DEF q
<1>10. QueueOk(events, 0, 0, 0) /\ Ahead(events)
  BY <1>1, <1>3, <1>5, <1>7, <1>9, AddOk
<1>11. AtMostOnce(events, fired)
  BY <1>3, <1>6, <1>8, <1>9, OnceAdded
<1>12. Keeps(events, fired, "VINewHalfline")
  BY <1>3, <1>6, <1>9, AddEventFacts DEF Keeps
<1>13. TypeOK
  <2>1. <<>> \in Seq(EventType)
    OBVIOUS
  <2>2. events \in Seq(Event)
    BY <1>10 DEF QueueOk
  <2> QED BY <1>1, <2>1, <2>2 DEF TypeOK
<1>14. LoopBounds
  BY <1>1 DEF LoopBounds
<1>15. EventsOk
  BY <1>1, <1>10, <1>11, <1>12 DEF EventsOk, Elapsing
<1> QED BY <1>13, <1>14, <1>15 DEF SchedulerInv

\* Every step keeps the invariant; the CPU's are those of one instruction.
LEMMA SchedulerStep == SchedulerInv /\ [Next]_vars => SchedulerInv'
<1> SUFFICES ASSUME SchedulerInv, [Next]_vars PROVE SchedulerInv'
  OBVIOUS
<1>1. CASE BeginUpdate BY <1>1, BeginUpdateStep
<1>2. ASSUME NEW k \in Costs,
             \/ Instruction(k) \/ Mtc0Count(k) \/ Mtc0Compare(k)
             \/ StartPiDma(k) \/ ResetPi(k) \/ StartSpDma(k) \/ WriteVSync(k)
      PROVE  SchedulerInv'
  <2>1. CASE Instruction(k) BY <2>1, InstructionStep
  <2>2. CASE Mtc0Count(k) BY <2>2, Mtc0CountStep
  <2>3. CASE Mtc0Compare(k) BY <2>3, Mtc0CompareStep
  <2>4. CASE StartPiDma(k) BY <2>4, StartPiDmaStep
  <2>5. CASE ResetPi(k) BY <2>5, ResetPiStep
  <2>6. CASE StartSpDma(k) BY <2>6, StartSpDmaStep
  <2>7. CASE WriteVSync(k) BY <2>7, WriteVSyncStep
  <2> QED BY <1>2, <2>1, <2>2, <2>3, <2>4, <2>5, <2>6, <2>7
<1>3. CASE CheckEvents BY <1>3, CheckEventsStep
<1>4. CASE OnCountCompareMatchEvent BY <1>4, OnCountCompareMatchStep
<1>5. CASE OnNewHalflineEvent BY <1>5, OnNewHalflineStep
<1>6. CASE OnPiDmaFinish BY <1>6, OnPiDmaFinishStep
<1>7. CASE OnSpDmaFinish BY <1>7, OnSpDmaFinishStep
<1>8. CASE EndCallbacks BY <1>8, EndCallbacksStep
<1>9. CASE RunRsp BY <1>9, RunRspStep
<1>10. CASE UNCHANGED vars BY <1>10, StutterStep
<1> QED BY <1>1, <1>2, <1>3, <1>4, <1>5, <1>6, <1>7, <1>8, <1>9, <1>10
        DEF Next, RunCpu

LEMMA SchedulerInvariant == Spec => []SchedulerInv
BY SchedulerInit, SchedulerStep, PTL DEF Spec

\* All variables keep their types: the counters never become negative, the list
\* has only events and the half line only lengths that VI_V_SYNC can select.
THEOREM SchedulerTypeCorrect == Spec => []TypeOK
<1>1. SchedulerInv => TypeOK
  BY DEF SchedulerInv
<1> QED BY <1>1, SchedulerInvariant, PTL

\* The list is sorted at all times, on which AddEvent and CheckEvents rely.
THEOREM EventsSorted == Spec => []Sorted(events)
<1>1. SchedulerInv => Sorted(events)
  BY DEF SchedulerInv, EventsOk, QueueOk
<1> QED BY <1>1, SchedulerInvariant, PTL

\* No event of the video interface is lost or doubled, none of the timer or of the
\* SP engine doubled: across CheckEvents, the callbacks that add the next event and
\* the register writes that change the time of a pending one.
THEOREM EventsNotLostOrDoubled == Spec => []NoLostOrDoubledEvent
<1>1. SchedulerInv => NoLostOrDoubledEvent
  <2> SUFFICES ASSUME SchedulerInv PROVE NoLostOrDoubledEvent
    OBVIOUS
  <2>1. events \in Seq(Event) /\ fired \in Seq(EventType)
        /\ AtMostOnce(events, fired) /\ Keeps(events, fired, "VINewHalfline")
    BY DEF SchedulerInv, TypeOK, EventsOk
  <2>2. ASSUME NEW t \in SingleType
        PROVE  Copies(t) = IF Keeps(events, fired, t) THEN 1 ELSE 0
    <3> DEFINE A == {i \in DOMAIN events : events[i].type = t}
               B == {i \in DOMAIN fired : fired[i] = t}
    <3>1. /\ \A i, j \in A : i = j
          /\ \A i, j \in B : i = j
          /\ ~ (Holds(events, t) /\ FiredHolds(fired, t))
      BY <2>1 DEF AtMostOnce, Single, FiredSingle
    <3>2. (Holds(events, t) <=> A # {}) /\ (FiredHolds(fired, t) <=> B # {})
      BY <2>1 DEF Holds, FiredHolds
    <3>3. Copies(t) = Cardinality(A) + Cardinality(B)
      BY DEF Copies
    <3> HIDE DEF A, B
    <3>4. \A S : S = {} => Cardinality(S) = 0
      BY FS_EmptySet
    <3>5. ASSUME NEW S, S # {}, \A i, j \in S : i = j
          PROVE  Cardinality(S) = 1
      <4>1. PICK i : i \in S
        BY <3>5
      <4>2. S = {i}
        BY <3>5, <4>1
      <4> QED BY <4>2, FS_Singleton
    <3>6. Cardinality(A) = IF A # {} THEN 1 ELSE 0
      BY <3>1, <3>4, <3>5
    <3>7. Cardinality(B) = IF B # {} THEN 1 ELSE 0
      BY <3>1, <3>4, <3>5
    <3> QED BY <3>1, <3>2, <3>3, <3>6, <3>7 DEF Keeps
  <2> QED BY <2>1, <2>2 DEF NoLostOrDoubledEvent, SingleType
<1> QED BY <1>1, SchedulerInvariant, PTL

\* Every event that the CPU adds fires when it is due, to the cycle, and no event
\* that a callback or the RSP adds fires early, or later than one update and one
\* instruction: whatever else is added, removed or changed in between.
THEOREM EventsOnTime == Spec => []EventTimesHonest
<1>1. SchedulerInv => EventTimesHonest
  <2> SUFFICES ASSUME SchedulerInv, NEW i \in DOMAIN events
               PROVE  IF events[i].late
                      THEN Now(events[i]) - events[i].owed \in 1 .. Update + MaxCost
                      ELSE Now(events[i]) = events[i].owed
    BY DEF EventTimesHonest
  <2>1. events \in Seq(Event) /\ EventOk(events[i], Elapsing, compare, count)
    BY DEF SchedulerInv, TypeOK, EventsOk, QueueOk
  <2>2. Now(events[i]) = events[i].left - Elapsing
    BY DEF Now, Elapsing
  <2> QED BY <2>1, <2>2 DEF EventOk
<1> QED BY <1>1, SchedulerInvariant, PTL

\* CheckEvents leaves nothing in the list that is due.
THEOREM NoEventOverdue == Spec => []NothingOverdue
<1>1. SchedulerInv => NothingOverdue
  BY DEF SchedulerInv, TypeOK, EventsOk, Ahead, NothingOverdue
<1> QED BY <1>1, SchedulerInvariant, PTL

\* A timer event in the list is due exactly when Count comes to Compare, through all
\* writes of the two and all wraps of Count.
THEOREM TimerTracksCount == Spec => []TimerEventTracksCount
<1>1. SchedulerInv => TimerEventTracksCount
  <2> SUFFICES ASSUME SchedulerInv, NEW i \in DOMAIN events,
                      events[i].type = "CountCompareMatch"
               PROVE  (compare - count - Now(events[i])) % Modulus = 0
    BY DEF TimerEventTracksCount
  <2>1. /\ events \in Seq(Event) /\ EventOk(events[i], Elapsing, compare, count)
        /\ compare \in Nat /\ count \in Nat /\ cycle_counter \in Nat
    BY DEF SchedulerInv, TypeOK, EventsOk, QueueOk
  <2>2. Now(events[i]) = events[i].left - Elapsing
    BY DEF Now, Elapsing
  <2>3. Multiple(compare - count - Now(events[i]))
    BY <2>1, <2>2 DEF EventOk
  <2>4. events[i].left \in Int /\ Elapsing \in Int
    BY <2>1, EventFields DEF Elapsing
  <2>5. compare - count - Now(events[i]) \in Int
    BY <2>1, <2>2, <2>4
  <2> QED BY <2>3, <2>5, MultipleIsZeroModulo
<1> QED BY <1>1, SchedulerInvariant, PTL
=============================================================================
