----------------------------- MODULE GbaProofs -----------------------------
(***************************************************************************)
(* What holds of the main loop of the GBA core for every value of the      *)
(* constants: theorems about GbaSystem and GbaTimers.                      *)
(***************************************************************************)
EXTENDS MCGbaCore, SequenceTheorems, WellFoundedInduction, TLAPS

-----------------------------------------------------------------------------
(* The states of the core.                                                 *)

EventTypes == {"HBlank", "HBlankSetFlag", "NewScanline", "IrqChange", "ImeChange"}
EventSet == [type : EventTypes, left : Int]
Drivers == Channels \cup {Cpu}
AnySource == {"HBlank", "VBlank", "VCounter", "Dma0", "Dma1", "Dma2", "Dma3"}
Addresses == 0 .. AddressSpace - 1
UnitSet == [src : Addresses, dst : Addresses]
Transfer == [enable : BOOLEAN, use : DmaUses, count : Nat, current : Nat,
             src : Addresses, dst : Addresses, src_incr : -1 .. 1, dst_incr : -1 .. 1,
             next_copy_is_repeat : BOOLEAN, from : UnitSet, log : Seq(UnitSet),
             told : BOOLEAN]

State == [events : Seq(EventSet), eventRoom : Nat, drivers : Seq(Drivers),
          driverRoom : Nat, suspended : SUBSET Drivers, cycle : Nat,
          ime : BOOLEAN, irq : BOOLEAN, ie : SUBSET Sources, if_ : SUBSET AnySource,
          line : BOOLEAN, dma : [Channels -> Transfer], ran : Nat, v_counter : Nat,
          v_match : BOOLEAN]

Ordered(drivers) ==
  \A i, j \in 1 .. Len(drivers) : i < j => drivers[i] <= drivers[j]
HasCpu(drivers) == \E i \in 1 .. Len(drivers) : drivers[i] = Cpu

\* The increments are those of the control register.
Aimed(d) == d.src_incr = AddrIncr(d.use.src_ctrl) /\ d.dst_incr = AddrIncr(d.use.dst_ctrl)

\* The units are logged in their order.
InOrder(d) ==
  \A k \in 1 .. Len(d.log) :
    d.log[k] = IF k = 1 THEN d.from ELSE NextUnit(d, d.log[k - 1])

\* A channel whose flag has told what is the case has logged what its count lacks, in
\* order, and stands at the next unit, with the right increments when it has begun.
Exact(d) ==
  IF d.told
  THEN /\ Len(d.log) + d.current = d.count
       /\ InOrder(d)
       /\ Unit(d.src, d.dst) = Due(d)
       /\ d.log # <<>> => Aimed(d)
  ELSE d.log = <<>>

\* The drivers are ordered by priority, the CPU is always one of them, and each channel
\* is exact.
Sound(s) ==
  /\ s \in State
  /\ Ordered(s.drivers) /\ HasCpu(s.drivers)
  /\ \A ch \in Channels : Exact(s.dma[ch])

Has(s, types) == \E i \in 1 .. Len(s.events) : s.events[i].type \in types
IrqTypes == {"IrqChange", "ImeChange"}
PpuTypes == {"HBlank", "HBlankSetFlag", "NewScanline"}

\* The CPU knows of the interrupt, or will be told.
Settled(s) == s.ime => s.line = s.irq \/ Has(s, IrqTypes)

\* The PPU goes on.
Drawing(s) == Has(s, PpuTypes)

Good(s) == Sound(s) /\ Settled(s) /\ Drawing(s)

LEMMA StateFields ==
  ASSUME NEW s \in State
  PROVE  /\ s.events \in Seq(EventSet) /\ s.eventRoom \in Nat
         /\ s.drivers \in Seq(Drivers) /\ s.driverRoom \in Nat
         /\ s.suspended \in SUBSET Drivers /\ s.cycle \in Nat
         /\ s.ime \in BOOLEAN /\ s.irq \in BOOLEAN /\ s.line \in BOOLEAN
         /\ s.ie \in SUBSET Sources /\ s.if_ \in SUBSET AnySource
         /\ s.dma \in [Channels -> Transfer] /\ s.ran \in Nat /\ s.v_counter \in Nat
         /\ s.v_match \in BOOLEAN
BY DEF State

-----------------------------------------------------------------------------
(* Facts about sequences.                                                  *)

\* The least of a set of numbers is one of them.
LEMMA HasMinimum ==
  ASSUME NEW S \in SUBSET Nat, S # {}
  PROVE  Min(S) \in S /\ \A i \in S : Min(S) <= i
<1> DEFINE R == OpToRel(<, Nat)
<1>1. IsWellFoundedOn(R, Nat)
  BY NatLessThanWellFounded
<1>2. \A i, m \in Nat : i < m => <<i, m>> \in R
  BY DEF OpToRel
<1> HIDE DEF R
<1>3. PICK m \in S : \A i \in S : ~ (<<i, m>> \in R)
  BY <1>1, WFMin
<1>4. \A i \in S : ~ (i < m)
  BY <1>2, <1>3
<1>5. \A i \in S : m <= i
  BY <1>4
<1> QED BY <1>5 DEF Min

IsInserted(new, S, list, at, x) ==
  /\ new \in Seq(S) /\ Len(new) = Len(list) + 1 /\ new[at] = x
  /\ \A j \in 1 .. at - 1 : new[j] = list[j]
  /\ \A j \in at + 1 .. Len(list) + 1 : new[j] = list[j - 1]

LEMMA InsertedFacts ==
  ASSUME NEW S, NEW list \in Seq(S), NEW at \in 1 .. Len(list) + 1, NEW x \in S
  PROVE  IsInserted(Inserted(list, at, x), S, list, at, x)
<1> DEFINE A == SubSeq(list, 1, at - 1)
           B == SubSeq(list, at, Len(list))
           AX == A \o <<x>>
<1>0. Len(list) \in Nat
  BY LenProperties
<1>1. A \in Seq(S) /\ Len(A) = at - 1 /\ \A j \in 1 .. at - 1 : A[j] = list[j]
  BY SubSeqProperties
<1>2. B \in Seq(S) /\ Len(B) = Len(list) - at + 1
      /\ \A j \in 1 .. Len(list) - at + 1 : B[j] = list[at + j - 1]
  BY SubSeqProperties
<1>3. Inserted(list, at, x) = AX \o B
  BY DEF Inserted
<1> HIDE DEF A, B
<1>4. AX \in Seq(S) /\ Len(AX) = at /\ AX[at] = x /\ \A j \in 1 .. at - 1 : AX[j] = list[j]
  BY <1>1
<1> HIDE DEF AX
<1>5. AX \o B \in Seq(S) /\ Len(AX \o B) = Len(list) + 1
  BY <1>0, <1>2, <1>4
<1>6. \A j \in 1 .. at : (AX \o B)[j] = AX[j]
  BY <1>0, <1>2, <1>4
<1>7. ASSUME NEW j \in at + 1 .. Len(list) + 1
      PROVE  (AX \o B)[j] = list[j - 1]
  <2>1. (AX \o B)[j] = B[j - at]
    BY <1>0, <1>2, <1>4
  <2>2. j - at \in 1 .. Len(list) - at + 1 /\ at + (j - at) - 1 = j - 1
    BY <1>0
  <2> QED BY <1>2, <2>1, <2>2
<1> QED BY <1>3, <1>4, <1>5, <1>6, <1>7 DEF IsInserted

LEMMA WithoutFacts ==
  ASSUME NEW S, NEW list \in Seq(S), NEW i \in 1 .. Len(list)
  PROVE  LET new == Without(list, i) IN
         /\ new \in Seq(S) /\ Len(new) = Len(list) - 1
         /\ \A j \in 1 .. i - 1 : new[j] = list[j]
         /\ \A j \in i .. Len(list) - 1 : new[j] = list[j + 1]
<1> DEFINE A == SubSeq(list, 1, i - 1)
           B == SubSeq(list, i + 1, Len(list))
<1>0. Len(list) \in Nat
  BY LenProperties
<1>1. A \in Seq(S) /\ Len(A) = i - 1 /\ \A j \in 1 .. i - 1 : A[j] = list[j]
  BY SubSeqProperties
<1>2. B \in Seq(S) /\ Len(B) = Len(list) - i /\ \A j \in 1 .. Len(list) - i : B[j] = list[i + j]
  BY SubSeqProperties
<1>3. Without(list, i) = A \o B
  BY DEF Without
<1> HIDE DEF A, B
<1>4. A \o B \in Seq(S) /\ Len(A \o B) = Len(list) - 1
  <2>1. A \in Seq(S) /\ B \in Seq(S)
    BY <1>1, <1>2
  <2>2. A \o B \in Seq(S) /\ Len(A \o B) = Len(A) + Len(B)
    BY <2>1
  <2> QED BY <1>0, <1>1, <1>2, <2>2
<1>5. \A j \in 1 .. i - 1 : (A \o B)[j] = list[j]
  BY <1>0, <1>1, <1>2
<1>6. ASSUME NEW j \in i .. Len(list) - 1
      PROVE  (A \o B)[j] = list[j + 1]
  <2>1. (A \o B)[j] = B[j - (i - 1)]
    BY <1>0, <1>1, <1>2
  <2>2. j - (i - 1) \in 1 .. Len(list) - i /\ i + (j - (i - 1)) = j + 1
    BY <1>0
  <2> QED BY <1>2, <2>1, <2>2
<1> QED BY <1>3, <1>4, <1>5, <1>6

LEMMA EventFacts ==
  ASSUME NEW e \in EventSet, NEW k \in Int
  PROVE  /\ [e EXCEPT !.left = @ - k] \in EventSet
         /\ [e EXCEPT !.left = @ - k].type = e.type
BY DEF EventSet

LEMMA ElapsedFacts ==
  ASSUME NEW list \in Seq(EventSet), NEW k \in Int
  PROVE  /\ Elapsed(list, k) \in Seq(EventSet) /\ Len(Elapsed(list, k)) = Len(list)
         /\ \A i \in 1 .. Len(list) : Elapsed(list, k)[i].type = list[i].type
<1> DEFINE later(i) == [list[i] EXCEPT !.left = @ - k]
<1>1. \A i \in 1 .. Len(list) : later(i) \in EventSet /\ later(i).type = list[i].type
  <2> SUFFICES ASSUME NEW i \in 1 .. Len(list)
               PROVE  later(i) \in EventSet /\ later(i).type = list[i].type
    OBVIOUS
  <2>1. list[i] \in EventSet
    OBVIOUS
  <2> QED BY <2>1, EventFacts
<1>2. DOMAIN list = 1 .. Len(list) /\ Len(list) \in Nat
  OBVIOUS
<1>3. Elapsed(list, k) = [i \in 1 .. Len(list) |-> later(i)]
  BY <1>2 DEF Elapsed
<1> HIDE DEF later
<1>4. /\ Elapsed(list, k) \in [1 .. Len(list) -> EventSet]
      /\ \A i \in 1 .. Len(list) : Elapsed(list, k)[i] = later(i)
  BY <1>1, <1>3
<1>5. Elapsed(list, k) \in Seq(EventSet) /\ Len(Elapsed(list, k)) = Len(list)
  BY <1>2, <1>3, <1>4
<1> QED BY <1>1, <1>4, <1>5

\* The place of an event is in the list or behind it.
LEMMA PlaceOfFacts ==
  ASSUME NEW list \in Seq(EventSet), NEW time \in Int
  PROVE  PlaceOf(list, time) \in 1 .. Len(list) + 1
<1> DEFINE I == {i \in DOMAIN list : time < list[i].left}
<1>1. DOMAIN list = 1 .. Len(list) /\ Len(list) \in Nat
  OBVIOUS
<1>2. PlaceOf(list, time) = IF I # {} THEN Min(I) ELSE Len(list) + 1
  BY DEF PlaceOf, Place
<1>3. CASE I # {}
  <2>1. I \in SUBSET Nat
    BY <1>1
  <2>2. Min(I) \in I
    BY <1>3, <2>1, HasMinimum
  <2> QED BY <1>1, <1>2, <1>3, <2>2
<1>4. CASE I = {}
  BY <1>1, <1>2, <1>4
<1> QED BY <1>3, <1>4

-----------------------------------------------------------------------------
(* The scheduler.                                                          *)

\* AddEvent adds an event of the type and keeps the others.
LEMMA AddEventFacts ==
  ASSUME NEW s \in State, HasCpu(s.drivers), NEW type \in EventTypes, NEW time \in Int
  PROVE  LET new == AddEvent(s, type, time) IN
         /\ new \in State
         /\ new.drivers = s.drivers /\ new.dma = s.dma /\ new.v_counter = s.v_counter
         /\ new.ime = s.ime /\ new.irq = s.irq /\ new.line = s.line
         /\ new.ie = s.ie /\ new.if_ = s.if_ /\ new.ran = s.ran
         /\ \A types : Has(s, types) \/ type \in types => Has(new, types)
<1> DEFINE events == Elapsed(s.events, s.cycle)
           at == PlaceOf(events, time)
           e == Event(type, time)
           added == Inserted(events, at, e)
           new == AddEvent(s, type, time)
           room == Room(events, s.eventRoom)
           suspended == IF at = 1 /\ events # <<>> /\ ~ Moves(events, s.eventRoom)
                        THEN s.suspended \cup {Head(s.drivers)} ELSE s.suspended
<1>1. events \in Seq(EventSet) /\ Len(events) = Len(s.events)
      /\ \A i \in 1 .. Len(events) : events[i].type = s.events[i].type
  BY StateFields, ElapsedFacts
<1>2. at \in 1 .. Len(events) + 1
  BY <1>1, PlaceOfFacts
<1>3. e \in EventSet /\ e.type = type
  BY DEF Event, EventSet
<1> HIDE DEF events, at, e
<1>4. /\ added \in Seq(EventSet) /\ Len(added) = Len(events) + 1 /\ added[at] = e
      /\ \A j \in 1 .. at - 1 : added[j] = events[j]
      /\ \A j \in at + 1 .. Len(events) + 1 : added[j] = events[j - 1]
  <2>1. events \in Seq(EventSet)
    BY <1>1
  <2>2. e \in EventSet
    BY <1>3
  <2>3. IsInserted(Inserted(events, at, e), EventSet, events, at, e)
    BY <2>1, <2>2, <1>2, InsertedFacts
  <2> QED BY <2>3 DEF IsInserted
<1>5. room \in Nat
  BY StateFields DEF Room, Moves
<1>6. suspended \in SUBSET Drivers
  BY StateFields DEF HasCpu
<1>7. new = [s EXCEPT !.events = added, !.eventRoom = room, !.suspended = suspended]
  BY DEF AddEvent, events, at, e
<1> HIDE DEF added, room, suspended, new
<1>8. /\ new \in State /\ new.events = added
      /\ new.drivers = s.drivers /\ new.dma = s.dma /\ new.v_counter = s.v_counter
      /\ new.ime = s.ime /\ new.irq = s.irq /\ new.line = s.line
      /\ new.ie = s.ie /\ new.if_ = s.if_ /\ new.ran = s.ran
  BY <1>4, <1>5, <1>6, <1>7 DEF State
<1>9. ASSUME NEW types, Has(s, types)
      PROVE  Has(new, types)
  <2>1. PICK i \in 1 .. Len(s.events) : s.events[i].type \in types
    BY <1>9 DEF Has
  <2>2. CASE i < at
    <3>1. i \in 1 .. at - 1
      BY <1>1, <1>2, <2>1, <2>2
    <3>2. i \in 1 .. Len(added) /\ added[i].type = s.events[i].type
      BY <1>1, <1>2, <1>4, <2>1, <3>1
    <3> QED BY <1>8, <2>1, <3>2 DEF Has
  <2>3. CASE i >= at
    <3>1. i + 1 \in at + 1 .. Len(events) + 1 /\ (i + 1) - 1 = i
      BY <1>1, <1>2, <2>1, <2>3
    <3>2. added[i + 1] = events[i]
      BY <1>4, <3>1
    <3>3. i + 1 \in 1 .. Len(added) /\ added[i + 1].type = s.events[i].type
      BY <1>1, <1>2, <1>4, <2>1, <3>1, <3>2
    <3> QED BY <1>8, <2>1, <3>3 DEF Has
  <2> QED BY <1>1, <1>2, <2>1, <2>2, <2>3
<1>10. ASSUME NEW types, type \in types
       PROVE  Has(new, types)
  BY <1>2, <1>3, <1>4, <1>8, <1>10 DEF Has
<1> QED BY <1>8, <1>9, <1>10 DEF new

LEMMA DriverFacts ==
  /\ Drivers \subseteq 0 .. 4 /\ Cpu \in Drivers /\ Cpu \notin Channels
  /\ \A d \in Drivers : d \in Nat /\ d <= Cpu
BY CoreAssumption DEF Drivers, Cpu

\* The place of a driver: those before it are not less urgent, those from it on are.
LEMMA DriverPlace ==
  ASSUME NEW list \in Seq(Drivers), NEW driver \in Drivers, Ordered(list)
  PROVE  LET at == PriorityOf(list, driver) IN
         /\ at \in 1 .. Len(list) + 1
         /\ \A i \in 1 .. at - 1 : list[i] <= driver
         /\ \A i \in at .. Len(list) : list[i] > driver
<1> DEFINE I == {i \in DOMAIN list : list[i] > driver}
           at == PriorityOf(list, driver)
<1>1. /\ DOMAIN list = 1 .. Len(list) /\ Len(list) \in Nat /\ driver \in Nat
      /\ \A i \in 1 .. Len(list) : list[i] \in Nat
  <2>1. \A i \in 1 .. Len(list) : list[i] \in Drivers
    OBVIOUS
  <2>2. DOMAIN list = 1 .. Len(list) /\ Len(list) \in Nat
    OBVIOUS
  <2>3. driver \in Nat /\ \A i \in 1 .. Len(list) : list[i] \in Nat
    BY <2>1, DriverFacts
  <2> QED BY <2>2, <2>3
<1>2. at = IF I # {} THEN Min(I) ELSE Len(list) + 1
  BY DEF PriorityOf, Place
<1>3. CASE I # {}
  <2> DEFINE m == Min(I)
  <2>1. m \in I /\ \A i \in I : m <= i
    <3>1. I \in SUBSET Nat
      BY <1>1
    <3> QED BY <1>3, <3>1, HasMinimum
  <2> HIDE DEF m
  <2>2. m \in 1 .. Len(list) /\ list[m] > driver
    BY <1>1, <2>1
  <2>3. \A i \in 1 .. m - 1 : list[i] <= driver
    <3> SUFFICES ASSUME NEW i \in 1 .. m - 1 PROVE list[i] <= driver
      OBVIOUS
    <3>1. i \in DOMAIN list /\ i \notin I
      BY <1>1, <2>1, <2>2
    <3> QED BY <1>1, <3>1
  <2>4. \A i \in m .. Len(list) : list[i] > driver
    <3> SUFFICES ASSUME NEW i \in m .. Len(list) PROVE list[i] > driver
      OBVIOUS
    <3>1. list[m] <= list[i]
      BY <1>1, <2>2 DEF Ordered
    <3> QED BY <1>1, <2>2, <3>1
  <2>5. at = m
    BY <1>2, <1>3 DEF m
  <2> QED BY <1>1, <2>2, <2>3, <2>4, <2>5
<1>4. CASE I = {}
  <2>1. at = Len(list) + 1
    BY <1>2, <1>4
  <2>2. \A i \in 1 .. Len(list) : list[i] <= driver
    BY <1>1, <1>4
  <2> QED BY <1>1, <2>1, <2>2
<1> QED BY <1>3, <1>4

\* EngageDriver keeps the drivers ordered and the CPU among them.
LEMMA EngageDriverFacts ==
  ASSUME NEW s, Sound(s), NEW driver \in Drivers
  PROVE  LET new == EngageDriver(s, driver) IN
         /\ Sound(new)
         /\ new.events = s.events /\ new.dma = s.dma
         /\ new.ime = s.ime /\ new.irq = s.irq /\ new.line = s.line
<1> DEFINE at == PriorityOf(s.drivers, driver)
           drivers == Inserted(s.drivers, at, driver)
           room == Room(s.drivers, s.driverRoom)
           suspended == IF at = 1 /\ ~ Moves(s.drivers, s.driverRoom)
                        THEN s.suspended \cup {Head(s.drivers)} ELSE s.suspended
           new == EngageDriver(s, driver)
           n == Len(s.drivers)
<1>1. /\ s \in State /\ s.drivers \in Seq(Drivers) /\ Ordered(s.drivers)
      /\ HasCpu(s.drivers) /\ n \in Nat
  BY StateFields DEF Sound
<1>2. /\ at \in 1 .. n + 1
      /\ \A i \in 1 .. at - 1 : s.drivers[i] <= driver
      /\ \A i \in at .. n : s.drivers[i] > driver
  BY <1>1, DriverPlace
<1>3. new = [s EXCEPT !.drivers = drivers, !.driverRoom = room, !.suspended = suspended]
  BY DEF EngageDriver
<1> HIDE DEF at
<1>4. /\ drivers \in Seq(Drivers) /\ Len(drivers) = n + 1 /\ drivers[at] = driver
      /\ \A j \in 1 .. at - 1 : drivers[j] = s.drivers[j]
      /\ \A j \in at + 1 .. n + 1 : drivers[j] = s.drivers[j - 1]
  <2> HIDE DEF n
  <2>1. s.drivers \in Seq(Drivers) /\ at \in 1 .. Len(s.drivers) + 1 /\ driver \in Drivers
    BY <1>1, <1>2 DEF n
  <2> QED BY <2>1, InsertedFacts DEF n, IsInserted
<1>5. room \in Nat
  BY <1>1, StateFields DEF Room, Moves
<1>6. suspended \in SUBSET Drivers
  BY <1>1, StateFields DEF HasCpu
<1> HIDE DEF drivers, room, suspended, new
<1>7. /\ new \in State /\ new.drivers = drivers
      /\ new.events = s.events /\ new.dma = s.dma
      /\ new.ime = s.ime /\ new.irq = s.irq /\ new.line = s.line
  BY <1>1, <1>3, <1>4, <1>5, <1>6 DEF State
<1> HIDE DEF n
<1>8. Ordered(drivers)
  <2> SUFFICES ASSUME NEW i \in 1 .. n + 1, NEW j \in 1 .. n + 1, i < j
               PROVE  drivers[i] <= drivers[j]
    BY <1>4 DEF Ordered
  <2>0. \A k \in 1 .. n : s.drivers[k] \in Nat
    <3>1. \A k \in 1 .. n : s.drivers[k] \in Drivers
      BY <1>1 DEF n
    <3> QED BY <3>1, DriverFacts
  <2>1. CASE j < at
    <3>1. drivers[i] = s.drivers[i] /\ drivers[j] = s.drivers[j]
      BY <1>2, <1>4, <2>1
    <3> QED BY <1>1, <1>2, <2>1, <3>1 DEF Ordered, n
  <2>2. CASE j = at
    <3>1. drivers[i] = s.drivers[i]
      BY <1>2, <1>4, <2>2
    <3> QED BY <1>2, <1>4, <2>2, <3>1
  <2>3. CASE j > at /\ i < at
    <3>1. drivers[i] = s.drivers[i] /\ drivers[j] = s.drivers[j - 1] /\ i \in 1 .. n
          /\ j - 1 \in at .. n /\ j - 1 \in 1 .. n
      BY <1>1, <1>2, <1>4, <2>3
    <3>2. s.drivers[i] <= driver /\ s.drivers[j - 1] > driver
      BY <1>2, <2>3, <3>1
    <3> QED BY <2>0, <3>1, <3>2, DriverFacts
  <2>4. CASE j > at /\ i = at
    <3>1. drivers[i] = driver /\ drivers[j] = s.drivers[j - 1]
          /\ j - 1 \in at .. n /\ j - 1 \in 1 .. n
      BY <1>1, <1>2, <1>4, <2>4
    <3>2. s.drivers[j - 1] > driver
      BY <1>2, <3>1
    <3> QED BY <2>0, <3>1, <3>2, DriverFacts
  <2>5. CASE j > at /\ i > at
    <3>1. drivers[i] = s.drivers[i - 1] /\ drivers[j] = s.drivers[j - 1]
          /\ i - 1 \in 1 .. n /\ j - 1 \in 1 .. n /\ i - 1 < j - 1
      BY <1>1, <1>2, <1>4, <2>5
    <3> QED BY <1>1, <3>1 DEF Ordered, n
  <2> QED BY <1>2, <2>1, <2>2, <2>3, <2>4, <2>5
<1>9. HasCpu(drivers)
  <2>1. PICK i \in 1 .. n : s.drivers[i] = Cpu
    BY <1>1 DEF HasCpu, n
  <2>2. CASE i < at
    BY <1>1, <1>2, <1>4, <2>1, <2>2 DEF HasCpu
  <2>3. CASE i >= at
    <3>1. i + 1 \in at + 1 .. n + 1 /\ (i + 1) - 1 = i /\ i + 1 \in 1 .. n + 1
      BY <1>1, <1>2, <2>1, <2>3
    <3>2. drivers[i + 1] = s.drivers[i]
      BY <1>4, <3>1
    <3> QED BY <1>4, <2>1, <3>1, <3>2 DEF HasCpu
  <2> QED BY <1>2, <2>1, <2>2, <2>3
<1> QED BY <1>7, <1>8, <1>9 DEF Sound, new

\* DisengageDriver of a channel does, too: it takes out one of its entries.
LEMMA DisengageDriverFacts ==
  ASSUME NEW s, Sound(s), NEW ch \in Channels
  PROVE  LET new == DisengageDriver(s, ch) IN
         /\ Sound(new)
         /\ new.events = s.events /\ new.dma = s.dma
         /\ new.ime = s.ime /\ new.irq = s.irq /\ new.line = s.line
<1> DEFINE I == {i \in DOMAIN s.drivers : s.drivers[i] = ch}
           n == Len(s.drivers)
           new == DisengageDriver(s, ch)
<1>1. /\ s \in State /\ s.drivers \in Seq(Drivers) /\ Ordered(s.drivers)
      /\ HasCpu(s.drivers) /\ n \in Nat /\ DOMAIN s.drivers = 1 .. n
  BY StateFields DEF Sound
<1>2. CASE I = {}
  <2>1. new = s
    BY <1>2 DEF DisengageDriver
  <2> HIDE DEF new
  <2> QED BY <2>1 DEF new
<1>3. CASE I # {}
  <2> DEFINE p == Min(I)
             drivers == Without(s.drivers, p)
  <2>1. I \in SUBSET Nat
    BY <1>1
  <2>2. p \in I
    BY <1>3, <2>1, HasMinimum
  <2>3. p \in 1 .. n /\ s.drivers[p] = ch
    BY <1>1, <2>2
  <2>4. new = [s EXCEPT !.drivers = drivers]
    BY <1>3 DEF DisengageDriver
  <2> HIDE DEF p
  <2>5. /\ drivers \in Seq(Drivers) /\ Len(drivers) = n - 1
        /\ \A j \in 1 .. p - 1 : drivers[j] = s.drivers[j]
        /\ \A j \in p .. n - 1 : drivers[j] = s.drivers[j + 1]
    <3>1. p \in 1 .. Len(s.drivers)
      BY <2>3
    <3> QED BY <1>1, <3>1, WithoutFacts
  <2> HIDE DEF drivers, new
  <2>6. /\ new \in State /\ new.drivers = drivers
        /\ new.events = s.events /\ new.dma = s.dma
        /\ new.ime = s.ime /\ new.irq = s.irq /\ new.line = s.line
    BY <1>1, <2>4, <2>5 DEF State
  <2> HIDE DEF n
  <2>7. Ordered(drivers)
    <3> SUFFICES ASSUME NEW i \in 1 .. n - 1, NEW j \in 1 .. n - 1, i < j
                 PROVE  drivers[i] <= drivers[j]
      BY <2>5 DEF Ordered
    <3>1. CASE j < p
      <4>1. drivers[i] = s.drivers[i] /\ drivers[j] = s.drivers[j]
        BY <2>3, <2>5, <3>1
      <4> QED BY <1>1, <4>1 DEF Ordered, n
    <3>2. CASE j >= p /\ i < p
      <4>1. drivers[i] = s.drivers[i] /\ drivers[j] = s.drivers[j + 1]
        BY <2>3, <2>5, <3>2
      <4>2. i \in 1 .. n /\ j + 1 \in 1 .. n /\ i < j + 1
        BY <1>1
      <4> QED BY <1>1, <4>1, <4>2 DEF Ordered, n
    <3>3. CASE i >= p
      <4>1. drivers[i] = s.drivers[i + 1] /\ drivers[j] = s.drivers[j + 1]
        BY <2>3, <2>5, <3>3
      <4>2. i + 1 \in 1 .. n /\ j + 1 \in 1 .. n /\ i + 1 < j + 1
        BY <1>1
      <4> QED BY <1>1, <4>1, <4>2 DEF Ordered, n
    <3> QED BY <2>3, <3>1, <3>2, <3>3
  <2>8. HasCpu(drivers)
    <3>1. PICK i \in 1 .. n : s.drivers[i] = Cpu
      BY <1>1 DEF HasCpu, n
    <3>2. i # p
      BY <2>3, <3>1, DriverFacts
    <3>3. CASE i < p
      <4>1. i \in 1 .. p - 1 /\ i \in 1 .. n - 1
        BY <1>1, <2>3, <3>1, <3>3
      <4>2. drivers[i] = s.drivers[i]
        BY <2>5, <4>1
      <4> QED BY <2>5, <3>1, <4>1, <4>2 DEF HasCpu
    <3>4. CASE i > p
      <4>1. i - 1 \in p .. n - 1 /\ (i - 1) + 1 = i /\ i - 1 \in 1 .. n - 1
        BY <1>1, <2>3, <3>1, <3>4
      <4>2. drivers[i - 1] = s.drivers[i]
        BY <2>5, <4>1
      <4> QED BY <2>5, <3>1, <4>1, <4>2 DEF HasCpu
    <3> QED BY <2>3, <3>1, <3>2, <3>3, <3>4
  <2> QED BY <2>6, <2>7, <2>8 DEF Sound, new
<1> QED BY <1>2, <1>3

\* Time passes for all events.
LEMMA RanFacts ==
  ASSUME NEW s, Good(s), NEW k \in Int
  PROVE  Good(Ran(s, k)) /\ Ran(s, k).drivers = s.drivers
<1> DEFINE events == Elapsed(s.events, k)
           new == Ran(s, k)
<1>1. s \in State /\ s.events \in Seq(EventSet)
  BY StateFields DEF Good, Sound
<1>2. /\ events \in Seq(EventSet) /\ Len(events) = Len(s.events)
      /\ \A i \in 1 .. Len(s.events) : events[i].type = s.events[i].type
  BY <1>1, ElapsedFacts
<1>3. new = [s EXCEPT !.events = events]
  BY DEF Ran
<1> HIDE DEF events, new
<1>4. /\ new \in State /\ new.events = events
      /\ new.drivers = s.drivers /\ new.dma = s.dma
      /\ new.ime = s.ime /\ new.irq = s.irq /\ new.line = s.line
  BY <1>1, <1>2, <1>3 DEF State
<1>5. \A types : Has(s, types) => Has(new, types)
  BY <1>2, <1>4 DEF Has
<1> QED BY <1>4, <1>5 DEF Good, Sound, Settled, Drawing, new

\* PopEvent takes the first event out.
LEMMA PopEventFacts ==
  ASSUME NEW s, Sound(s), s.events # <<>>
  PROVE  LET new == PopEvent(s) IN
         /\ Sound(new) /\ Head(s.events).type \in EventTypes
         /\ new.ime = s.ime /\ new.irq = s.irq /\ new.line = s.line
         /\ \A types : Has(s, types) => Has(new, types) \/ Head(s.events).type \in types
<1> DEFINE rest == Tail(s.events)
           k == Head(s.events).left
           events == Elapsed(rest, k)
           new == PopEvent(s)
           n == Len(s.events)
<1>1. s \in State /\ s.events \in Seq(EventSet) /\ n \in Nat \ {0}
  BY StateFields DEF Sound
<1>2. Head(s.events) = s.events[1] /\ s.events[1] \in EventSet
  BY <1>1
<1>3. Head(s.events).type \in EventTypes /\ k \in Int
  BY <1>2 DEF EventSet
<1>4. rest \in Seq(EventSet) /\ Len(rest) = n - 1 /\ \A i \in 1 .. n - 1 : rest[i] = s.events[i + 1]
  BY <1>1, HeadTailProperties
<1> HIDE DEF rest, k
<1>5. /\ events \in Seq(EventSet) /\ Len(events) = n - 1
      /\ \A i \in 1 .. n - 1 : events[i].type = s.events[i + 1].type
  BY <1>3, <1>4, ElapsedFacts
<1>6. new = [s EXCEPT !.events = events]
  BY DEF PopEvent, rest, k
<1> HIDE DEF events, new
<1>7. /\ new \in State /\ new.events = events
      /\ new.drivers = s.drivers /\ new.dma = s.dma
      /\ new.ime = s.ime /\ new.irq = s.irq /\ new.line = s.line
  BY <1>1, <1>5, <1>6 DEF State
<1>8. ASSUME NEW types, Has(s, types), Head(s.events).type \notin types
      PROVE  Has(new, types)
  <2>1. PICK i \in 1 .. n : s.events[i].type \in types
    BY <1>8 DEF Has
  <2>2. i # 1
    BY <1>2, <1>8, <2>1
  <2>3. i - 1 \in 1 .. n - 1 /\ (i - 1) + 1 = i
    BY <1>1, <2>1, <2>2
  <2>4. events[i - 1].type = s.events[i].type
    BY <1>5, <2>3
  <2> QED BY <1>5, <1>7, <2>1, <2>3, <2>4 DEF Has
<1> QED BY <1>3, <1>7, <1>8 DEF Sound, new

-----------------------------------------------------------------------------
(* The interrupt controller and the DMA channels.                          *)

\* An event that is added makes up for the one that has been taken out.
LEMMA AddEventGood ==
  ASSUME NEW s, Sound(s), NEW type \in EventTypes, NEW time \in Int,
         Settled(s) \/ type \in IrqTypes, Drawing(s) \/ type \in PpuTypes
  PROVE  Good(AddEvent(s, type, time))
<1>1. s \in State /\ HasCpu(s.drivers)
  BY DEF Sound
<1> QED BY <1>1, AddEventFacts DEF Good, Sound, Settled, Drawing

\* The line need not be right before CheckIrq.
LEMMA CheckIrqGood ==
  ASSUME NEW s, Sound(s), Drawing(s)
  PROVE  Good(CheckIrq(s)) /\ CheckIrq(s).dma = s.dma /\ CheckIrq(s).drivers = s.drivers
<1> DEFINE irq == s.ie \cap s.if_ \cap Served # {}
           checked == [s EXCEPT !.irq = irq]
<1>1. s \in State /\ HasCpu(s.drivers)
  BY DEF Sound
<1>2. irq \in BOOLEAN
  OBVIOUS
<1> HIDE DEF irq
<1>3. /\ checked \in State /\ checked.drivers = s.drivers /\ checked.dma = s.dma
      /\ checked.ime = s.ime /\ checked.events = s.events
  BY <1>1, <1>2 DEF State
<1>4. CheckIrq(s) = IF s.ime THEN AddEvent(checked, "IrqChange", IrqDelay) ELSE checked
  BY DEF CheckIrq, irq
<1> HIDE DEF checked
<1>5. CASE s.ime
  <2> DEFINE new == AddEvent(checked, "IrqChange", IrqDelay)
  <2>1. "IrqChange" \in EventTypes /\ IrqDelay \in Int
    BY CoreAssumption DEF EventTypes
  <2>2. new \in State /\ new.drivers = s.drivers /\ new.dma = s.dma
        /\ Has(new, IrqTypes) /\ Has(new, PpuTypes)
    <3>1. Has(checked, PpuTypes) /\ "IrqChange" \in IrqTypes
      BY <1>3 DEF Drawing, Has, IrqTypes
    <3> HIDE DEF new
    <3> QED BY <1>1, <1>3, <2>1, <3>1, AddEventFacts DEF new
  <2>3. CheckIrq(s) = new
    BY <1>4, <1>5
  <2> HIDE DEF new
  <2> QED BY <2>2, <2>3 DEF Good, Sound, Settled, Drawing
<1>6. CASE ~ s.ime
  <2>1. CheckIrq(s) = checked
    BY <1>4, <1>6
  <2> QED BY <1>3, <1>6, <2>1 DEF Good, Sound, Settled, Drawing, Has
<1> QED BY <1>5, <1>6

LEMMA RaiseGood ==
  ASSUME NEW s, Sound(s), Drawing(s), NEW source \in AnySource
  PROVE  Good(Raise(s, source)) /\ Raise(s, source).dma = s.dma
<1> DEFINE raised == [s EXCEPT !.if_ = @ \cup {source}]
<1>1. s \in State /\ s.if_ \cup {source} \in SUBSET AnySource
  BY StateFields DEF Sound
<1>2. raised \in State /\ raised.drivers = s.drivers /\ raised.dma = s.dma
      /\ raised.events = s.events
  BY <1>1 DEF State
<1>3. Raise(s, source) = CheckIrq(raised)
  BY DEF Raise
<1> HIDE DEF raised
<1>4. Sound(raised) /\ Drawing(raised)
  BY <1>2 DEF Sound, Drawing, Has
<1> QED BY <1>2, <1>3, <1>4, CheckIrqGood

\* What a store to a register of the interrupt controller leaves alone.
SameTransfers(s, r) == r.dma = s.dma /\ r.drivers = s.drivers

LEMMA RegistersGood ==
  ASSUME NEW s, Good(s)
  PROVE  /\ \A sources \in SUBSET Sources :
              Good(WriteIE(s, sources)) /\ SameTransfers(s, WriteIE(s, sources))
         /\ \A sources : Good(WriteIF(s, sources)) /\ SameTransfers(s, WriteIF(s, sources))
         /\ \A on \in BOOLEAN : Good(WriteIME(s, on)) /\ SameTransfers(s, WriteIME(s, on))
<1>0. Sound(s) /\ Drawing(s) /\ s \in State /\ HasCpu(s.drivers) /\ s.if_ \in SUBSET AnySource
  BY StateFields DEF Good, Sound
<1>1. ASSUME NEW sources \in SUBSET Sources
      PROVE  Good(WriteIE(s, sources)) /\ SameTransfers(s, WriteIE(s, sources))
  <2> DEFINE new == [s EXCEPT !.ie = sources]
  <2>1. new \in State /\ new.drivers = s.drivers /\ new.dma = s.dma /\ new.events = s.events
    BY <1>0 DEF State
  <2>2. WriteIE(s, sources) = CheckIrq(new)
    BY DEF WriteIE
  <2> HIDE DEF new
  <2>3. Sound(new) /\ Drawing(new)
    BY <1>0, <2>1 DEF Sound, Drawing, Has
  <2> QED BY <2>1, <2>2, <2>3, CheckIrqGood DEF SameTransfers
<1>2. ASSUME NEW sources
      PROVE  Good(WriteIF(s, sources)) /\ SameTransfers(s, WriteIF(s, sources))
  <2> DEFINE if_ == s.if_ \ sources
             new == [s EXCEPT !.if_ = if_]
  <2>1. if_ \in SUBSET AnySource
    BY <1>0
  <2>2. WriteIF(s, sources) = CheckIrq(new)
    BY DEF WriteIF
  <2> HIDE DEF if_
  <2>3. new \in State /\ new.drivers = s.drivers /\ new.dma = s.dma /\ new.events = s.events
    BY <1>0, <2>1 DEF State
  <2> HIDE DEF new
  <2>4. Sound(new) /\ Drawing(new)
    BY <1>0, <2>3 DEF Sound, Drawing, Has
  <2> QED BY <2>2, <2>3, <2>4, CheckIrqGood DEF SameTransfers
<1>3. ASSUME NEW on \in BOOLEAN
      PROVE  Good(WriteIME(s, on)) /\ SameTransfers(s, WriteIME(s, on))
  <2>1. CASE on = s.ime
    BY <2>1 DEF WriteIME, SameTransfers
  <2>2. CASE on # s.ime
    <3> DEFINE set == [s EXCEPT !.ime = on]
               new == AddEvent(set, "ImeChange", IrqDelay)
    <3>1. "ImeChange" \in EventTypes /\ IrqDelay \in Int
      BY CoreAssumption DEF EventTypes
    <3>2. set \in State /\ set.drivers = s.drivers /\ set.dma = s.dma /\ set.events = s.events
      BY <1>0 DEF State
    <3>3. WriteIME(s, on) = new
      BY <2>2 DEF WriteIME
    <3> HIDE DEF set
    <3>4. Sound(set) /\ Drawing(set) /\ "ImeChange" \in IrqTypes
      BY <1>0, <3>2 DEF Sound, Drawing, Has, IrqTypes
    <3>5. new.drivers = s.drivers /\ new.dma = s.dma
      BY <1>0, <3>1, <3>2, AddEventFacts
    <3> QED BY <3>1, <3>3, <3>4, <3>5, AddEventGood DEF SameTransfers
  <2> QED BY <2>1, <2>2
<1> QED BY <1>1, <1>2, <1>3

LEMMA EngageDriverGood ==
  ASSUME NEW s, Good(s), NEW driver \in Drivers
  PROVE  Good(EngageDriver(s, driver))
BY EngageDriverFacts DEF Good, Settled, Drawing, Has

LEMMA DisengageDriverGood ==
  ASSUME NEW s, Good(s), NEW ch \in Channels
  PROVE  Good(DisengageDriver(s, ch))
BY DisengageDriverFacts DEF Good, Settled, Drawing, Has

LEMMA EngageWaitingGood ==
  ASSUME NEW s, Good(s), NEW timing
  PROVE  Good(EngageWaiting(s, timing))
<1>1. ASSUME NEW r, Good(r), NEW ch
      PROVE  Good(EngageIfWaiting(r, ch, timing))
  <2>1. ch \in Channels => ch \in Drivers
    BY DEF Drivers
  <2> QED BY <1>1, <2>1, EngageDriverGood DEF EngageIfWaiting
<1> QED BY <1>1 DEF EngageWaiting

\* Division with remainder.
LEMMA Division ==
  ASSUME NEW x \in Int, NEW m \in Nat \ {0}
  PROVE  /\ x \div m \in Int /\ x % m \in 0 .. m - 1
         /\ x = m * (x \div m) + (x % m)
  OBVIOUS

LEMMA AddrIncrFacts == \A control \in 0 .. 3 : AddrIncr(control) \in -1 .. 1
BY DEF AddrIncr

LEMMA UseFields ==
  ASSUME NEW d \in Transfer
  PROVE  /\ d.use.timing \in {"now", "hblank", "vblank"} /\ d.use.repeat \in BOOLEAN
         /\ d.use.src_addr \in Addresses /\ d.use.dst_addr \in Addresses
         /\ d.use.src_ctrl \in 0 .. 3 /\ d.use.dst_ctrl \in 0 .. 3
         /\ AddrIncr(d.use.src_ctrl) \in -1 .. 1 /\ AddrIncr(d.use.dst_ctrl) \in -1 .. 1
<1>1. d.use \in DmaUses
  BY DEF Transfer
<1>2. /\ d.use.timing \in {"now", "hblank", "vblank"} /\ d.use.repeat \in BOOLEAN
      /\ d.use.src_addr \in Addresses /\ d.use.dst_addr \in Addresses
      /\ d.use.src_ctrl \in 0 .. 3 /\ d.use.dst_ctrl \in 0 .. 3
  BY <1>1 DEF DmaUses, Addresses
<1> QED BY <1>2, AddrIncrFacts

LEMMA UnitFacts ==
  /\ \A src, dst \in Addresses :
       /\ Unit(src, dst) \in UnitSet /\ Unit(src, dst).src = src /\ Unit(src, dst).dst = dst
  /\ \A u \in UnitSet : u.src \in Addresses /\ u.dst \in Addresses /\ u = Unit(u.src, u.dst)
  /\ \A a \in Addresses, i \in -1 .. 1 : (a + i) % AddressSpace \in Addresses
<1>1. ASSUME NEW a \in Addresses, NEW i \in -1 .. 1
      PROVE  (a + i) % AddressSpace \in Addresses
  <2>1. a + i \in Int /\ AddressSpace \in Nat \ {0}
    BY CoreAssumption DEF Addresses
  <2> QED BY <2>1, Division DEF Addresses
<1>2. /\ \A src, dst \in Addresses :
           Unit(src, dst) \in UnitSet /\ Unit(src, dst).src = src /\ Unit(src, dst).dst = dst
      /\ \A u \in UnitSet : u.src \in Addresses /\ u.dst \in Addresses /\ u = Unit(u.src, u.dst)
  BY DEF Unit, UnitSet
<1> QED BY <1>1, <1>2

LEMMA NextUnitFacts ==
  ASSUME NEW d \in Transfer, NEW u \in UnitSet
  PROVE  /\ NextUnit(d, u) \in UnitSet
         /\ NextUnit(d, u) = Unit((u.src + AddrIncr(d.use.src_ctrl)) % AddressSpace,
                                  (u.dst + AddrIncr(d.use.dst_ctrl)) % AddressSpace)
BY UseFields, UnitFacts DEF NextUnit

LEMMA DueFacts ==
  ASSUME NEW d \in Transfer
  PROVE  Due(d) \in UnitSet
<1>1. d.from \in UnitSet /\ d.log \in Seq(UnitSet)
  BY DEF Transfer
<1>2. CASE d.log = <<>>
  BY <1>1, <1>2 DEF Due
<1>3. CASE d.log # <<>>
  <2>1. Last(d.log) \in UnitSet
    BY <1>1, <1>3 DEF Last
  <2> QED BY <1>3, <2>1, NextUnitFacts DEF Due
<1> QED BY <1>2, <1>3

\* The order and the next unit depend on the registers, the log and where it begins.
LEMMA SameOrder ==
  ASSUME NEW d, NEW e, e.use = d.use, e.log = d.log, e.from = d.from
  PROVE  Due(e) = Due(d) /\ (InOrder(d) => InOrder(e))
BY DEF Due, InOrder, NextUnit

\* Where a copy begins or goes on, the flag having told which or not.
LEMMA BegunExact ==
  ASSUME NEW d \in Transfer, Exact(d), NEW flagged \in BOOLEAN
  PROVE  LET new == Begun(d, flagged) IN
         new \in Transfer /\ Exact(new) /\ (new.told => Aimed(new))
<1> DEFINE new == Begun(d, flagged)
           begins == d.log = <<>> \/ d.current = 0
           again == begins /\ d.next_copy_is_repeat
           reloads == ~ flagged /\ d.next_copy_is_repeat
           told == d.told /\ IF begins THEN ~ flagged ELSE d.next_copy_is_repeat => flagged
           from == IF ~ again THEN d.from
                   ELSE Unit(Due(d).src,
                             IF d.use.dst_ctrl = 3 THEN d.use.dst_addr ELSE Due(d).dst)
           log == IF ~ told \/ again THEN <<>> ELSE d.log
           current == IF reloads THEN d.count ELSE d.current
           dst == IF reloads /\ d.use.dst_ctrl = 3 THEN d.use.dst_addr ELSE d.dst
           src_incr == IF flagged THEN d.src_incr ELSE AddrIncr(d.use.src_ctrl)
           dst_incr == IF flagged THEN d.dst_incr ELSE AddrIncr(d.use.dst_ctrl)
<1>1. /\ d.enable \in BOOLEAN /\ d.use \in DmaUses /\ d.count \in Nat /\ d.current \in Nat
      /\ d.src \in Addresses /\ d.dst \in Addresses
      /\ d.src_incr \in -1 .. 1 /\ d.dst_incr \in -1 .. 1
      /\ d.next_copy_is_repeat \in BOOLEAN /\ d.from \in UnitSet
      /\ d.log \in Seq(UnitSet) /\ d.told \in BOOLEAN
  BY DEF Transfer
<1>2. new = [d EXCEPT !.current = current, !.dst = dst, !.src_incr = src_incr,
                      !.dst_incr = dst_incr, !.from = from, !.log = log, !.told = told]
  BY DEF Begun, Expected, BeginTransfer, Transfer
<1>3. Due(d) \in UnitSet /\ Due(d).src \in Addresses /\ Due(d).dst \in Addresses
  BY DueFacts, UnitFacts
<1>4. /\ told \in BOOLEAN /\ from \in UnitSet /\ log \in Seq(UnitSet) /\ current \in Nat
      /\ dst \in Addresses /\ src_incr \in -1 .. 1 /\ dst_incr \in -1 .. 1
  <2>1. from \in UnitSet
    BY <1>1, <1>3, UseFields, UnitFacts
  <2>2. dst \in Addresses /\ src_incr \in -1 .. 1 /\ dst_incr \in -1 .. 1
    BY <1>1, UseFields
  <2> QED BY <1>1, <2>1, <2>2
<1>5. told => d.told /\ (flagged => ~ begins) /\ (again => reloads) /\ (reloads => again)
  BY <1>1
<1>6. ASSUME told
      PROVE  /\ Len(d.log) + d.current = d.count /\ InOrder(d)
             /\ Unit(d.src, d.dst) = Due(d) /\ (d.log # <<>> => Aimed(d))
  BY <1>5, <1>6 DEF Exact
<1>7. flagged /\ told => Aimed(d)
  BY <1>5, <1>6
<1>8. again /\ told => d.src = Due(d).src /\ d.dst = Due(d).dst
  <2> SUFFICES ASSUME told PROVE d.src = Due(d).src /\ d.dst = Due(d).dst
    OBVIOUS
  <2> QED BY <1>1, <1>6, UnitFacts
<1>9. ~ told => log = <<>>
  OBVIOUS
<1>10. told /\ again => log = <<>> /\ current = d.count /\ from = Unit(d.src, dst)
  BY <1>5, <1>8
<1>11. told /\ ~ again => log = d.log /\ current = d.current /\ from = d.from /\ dst = d.dst
  BY <1>5
<1>12. told => src_incr = AddrIncr(d.use.src_ctrl) /\ dst_incr = AddrIncr(d.use.dst_ctrl)
  BY <1>7 DEF Aimed
<1> HIDE DEF new, begins, again, reloads, told, from, log, current, dst, src_incr, dst_incr
<1>13. /\ new \in Transfer /\ new.use = d.use /\ new.count = d.count /\ new.src = d.src
       /\ new.current = current /\ new.dst = dst /\ new.src_incr = src_incr
       /\ new.dst_incr = dst_incr /\ new.from = from /\ new.log = log /\ new.told = told
  BY <1>2, <1>4 DEF Transfer
<1>14. new.told => Aimed(new)
  BY <1>12, <1>13 DEF Aimed
<1>15. Exact(new)
  <2>1. CASE ~ told
    BY <1>9, <1>13, <2>1 DEF Exact
  <2>2. CASE told /\ again
    <3>1. new.log = <<>> /\ new.current = new.count /\ new.from = Unit(new.src, new.dst)
      BY <1>10, <1>13, <2>2
    <3>2. Due(new) = Unit(new.src, new.dst) /\ InOrder(new)
      BY <3>1 DEF Due, InOrder
    <3> QED BY <1>1, <1>13, <2>2, <3>1, <3>2 DEF Exact
  <2>3. CASE told /\ ~ again
    <3>1. Due(new) = Due(d) /\ InOrder(new)
      BY <1>6, <1>11, <1>13, <2>3, SameOrder
    <3> QED BY <1>6, <1>11, <1>13, <1>14, <2>3, <3>1 DEF Exact
  <2> QED BY <2>1, <2>2, <2>3
<1> QED BY <1>13, <1>14, <1>15 DEF new

\* The copy of a unit.
LEMMA CopiedUnitExact ==
  ASSUME NEW d \in Transfer, Exact(d), d.current > 0, d.told => Aimed(d)
  PROVE  LET new == CopiedUnit(d) IN
         new \in Transfer /\ Exact(new) /\ (new.told => Aimed(new))
<1> DEFINE new == CopiedUnit(d)
           unit == Unit(d.src, d.dst)
           current == d.current - 1
           src == (d.src + d.src_incr) % AddressSpace
           dst == (d.dst + d.dst_incr) % AddressSpace
           log == IF d.told THEN Append(d.log, unit) ELSE d.log
           n == Len(d.log)
<1>1. /\ d.count \in Nat /\ d.current \in Nat /\ d.src \in Addresses /\ d.dst \in Addresses
      /\ d.src_incr \in -1 .. 1 /\ d.dst_incr \in -1 .. 1
      /\ d.log \in Seq(UnitSet) /\ n \in Nat /\ d.told \in BOOLEAN
  BY DEF Transfer
<1>2. unit \in UnitSet /\ unit.src = d.src /\ unit.dst = d.dst
  BY <1>1, UnitFacts
<1>3. new = [d EXCEPT !.current = current, !.src = src, !.dst = dst, !.log = log]
  BY DEF CopiedUnit, Transfer
<1>4. current \in Nat /\ src \in Addresses /\ dst \in Addresses
  <2>1. current \in Nat
    BY <1>1
  <2>2. src \in Addresses /\ dst \in Addresses
    <3>1. \A a \in Addresses, i \in -1 .. 1 : (a + i) % AddressSpace \in Addresses
      BY UnitFacts
    <3> HIDE DEF unit, current, log, n, new
    <3>2. src \in Addresses
      BY <1>1, <3>1, Zenon
    <3>3. dst \in Addresses
      BY <1>1, <3>1, Zenon
    <3> QED BY <3>2, <3>3
  <2> QED BY <2>1, <2>2
<1>5. d.told => src = (d.src + AddrIncr(d.use.src_ctrl)) % AddressSpace
                /\ dst = (d.dst + AddrIncr(d.use.dst_ctrl)) % AddressSpace
  BY DEF Aimed
<1>6. current + 1 = d.current
  BY <1>1
<1> HIDE DEF unit, current, src, dst
<1>7. log \in Seq(UnitSet)
  BY <1>1, <1>2
<1> HIDE DEF new, log
<1>8. /\ new \in Transfer /\ new.use = d.use /\ new.count = d.count /\ new.src = src
      /\ new.current = current /\ new.dst = dst /\ new.src_incr = d.src_incr
      /\ new.dst_incr = d.dst_incr /\ new.from = d.from /\ new.log = log
      /\ new.told = d.told
  BY <1>3, <1>4, <1>7 DEF Transfer
<1>9. new.told => Aimed(new)
  BY <1>8 DEF Aimed
<1>10. CASE ~ d.told
  <2>1. new.log = <<>>
    BY <1>8, <1>10 DEF log, Exact
  <2> QED BY <1>8, <1>9, <1>10, <2>1 DEF Exact, new
<1>11. CASE d.told
  <2>1. n + d.current = d.count /\ InOrder(d) /\ unit = Due(d)
    BY <1>11 DEF Exact, unit
  <2>2. /\ Len(new.log) = n + 1 /\ new.log[n + 1] = unit
        /\ \A k \in 1 .. n : new.log[k] = d.log[k]
        /\ new.log # <<>> /\ Last(new.log) = unit
    BY <1>1, <1>2, <1>8, <1>11 DEF log, Last
  <2>3. \A u : NextUnit(new, u) = NextUnit(d, u)
    BY <1>8 DEF NextUnit
  <2>4. InOrder(new)
    <3> SUFFICES ASSUME NEW k \in 1 .. n + 1
                 PROVE  new.log[k] = IF k = 1 THEN new.from ELSE NextUnit(new, new.log[k - 1])
      BY <2>2 DEF InOrder
    <3>1. CASE k \in 1 .. n
      <4>1. d.log[k] = IF k = 1 THEN d.from ELSE NextUnit(d, d.log[k - 1])
        BY <2>1, <3>1 DEF InOrder
      <4>2. k # 1 => k - 1 \in 1 .. n
        BY <1>1, <3>1
      <4> QED BY <1>8, <2>2, <2>3, <3>1, <4>1, <4>2
    <3>2. CASE k = n + 1 /\ n = 0
      <4>1. d.log = <<>>
        BY <1>1, <3>2
      <4>2. unit = d.from
        BY <2>1, <4>1 DEF Due
      <4> QED BY <1>8, <2>2, <3>2, <4>2
    <3>3. CASE k = n + 1 /\ n # 0
      <4>1. d.log # <<>> /\ Last(d.log) = d.log[n]
        BY <1>1, <3>3 DEF Last
      <4>2. unit = NextUnit(d, d.log[n])
        BY <2>1, <4>1 DEF Due
      <4>3. k # 1 /\ k - 1 = n /\ n \in 1 .. n
        BY <1>1, <3>3
      <4> QED BY <2>2, <2>3, <3>3, <4>2, <4>3
    <3> QED BY <1>1, <3>1, <3>2, <3>3
  <2>5. Unit(new.src, new.dst) = Due(new)
    <3>1. Due(new) = NextUnit(d, unit)
      BY <2>2, <2>3 DEF Due
    <3>2. NextUnit(d, unit) = Unit((unit.src + AddrIncr(d.use.src_ctrl)) % AddressSpace,
                                   (unit.dst + AddrIncr(d.use.dst_ctrl)) % AddressSpace)
      BY <1>2, NextUnitFacts
    <3> QED BY <1>2, <1>5, <1>8, <1>11, <3>1, <3>2
  <2>6. Len(new.log) + new.current = new.count
    BY <1>1, <1>4, <1>6, <1>8, <2>1, <2>2
  <2> QED BY <1>8, <1>9, <1>11, <2>4, <2>5, <2>6 DEF Exact, new
<1> QED BY <1>10, <1>11

\* A transfer may be replaced by one that is exact.
LEMMA TransferGood ==
  ASSUME NEW s, Good(s), NEW ch \in Channels, NEW r \in Transfer, Exact(r),
         NEW suspended \in SUBSET Drivers, NEW ran \in Nat,
         NEW new, new = [s EXCEPT !.dma = [s.dma EXCEPT ![ch] = r],
                                  !.suspended = suspended, !.ran = ran]
  PROVE  Good(new)
<1> DEFINE dma == [s.dma EXCEPT ![ch] = r]
<1>1. s \in State /\ s.dma \in [Channels -> Transfer]
  BY StateFields DEF Good, Sound
<1>2. /\ dma \in [Channels -> Transfer] /\ dma[ch] = r
      /\ \A c \in Channels \ {ch} : dma[c] = s.dma[c]
  BY <1>1
<1>3. new = [s EXCEPT !.dma = dma, !.suspended = suspended, !.ran = ran]
  OBVIOUS
<1> HIDE DEF dma
<1>4. /\ new \in State /\ new.dma = dma
      /\ new.drivers = s.drivers /\ new.events = s.events
      /\ new.ime = s.ime /\ new.irq = s.irq /\ new.line = s.line
  BY <1>1, <1>2, <1>3 DEF State
<1>5. \A c \in Channels : Exact(dma[c])
  BY <1>2 DEF Good, Sound
<1>6. \A types : Has(s, types) => Has(new, types)
  BY <1>4 DEF Has
<1> QED BY <1>4, <1>5, <1>6 DEF Good, Sound, Settled, Drawing

LEMMA TransferFields ==
  ASSUME NEW s, Good(s), NEW ch \in Channels
  PROVE  /\ s \in State /\ s.dma \in [Channels -> Transfer] /\ s.dma[ch] \in Transfer
         /\ Exact(s.dma[ch])
         /\ s.suspended \in SUBSET Drivers /\ s.ran \in Nat
<1>1. s \in State /\ s.dma \in [Channels -> Transfer] /\ s.dma[ch] \in Transfer
      /\ s.suspended \in SUBSET Drivers /\ s.ran \in Nat
  BY StateFields DEF Good, Sound
<1> QED BY <1>1 DEF Good, Sound

\* What the end of a copy and the disabling of the channel change does not matter.
LEMMA EndedExact ==
  ASSUME NEW d \in Transfer, Exact(d)
  PROVE  /\ [d EXCEPT !.enable = FALSE] \in Transfer
         /\ Exact([d EXCEPT !.enable = FALSE])
         /\ [d EXCEPT !.next_copy_is_repeat = TRUE] \in Transfer
         /\ Exact([d EXCEPT !.next_copy_is_repeat = TRUE])
<1>1. ASSUME NEW e \in Transfer, e.use = d.use, e.log = d.log, e.from = d.from,
             e.told = d.told, e.current = d.current, e.count = d.count, e.src = d.src,
             e.dst = d.dst, e.src_incr = d.src_incr, e.dst_incr = d.dst_incr
      PROVE  Exact(e)
  BY <1>1, SameOrder DEF Exact, Aimed
<1> DEFINE off == [d EXCEPT !.enable = FALSE]
           again == [d EXCEPT !.next_copy_is_repeat = TRUE]
<1>2. /\ off \in Transfer /\ off.use = d.use /\ off.log = d.log /\ off.from = d.from
      /\ off.told = d.told /\ off.current = d.current /\ off.count = d.count
      /\ off.src = d.src /\ off.dst = d.dst /\ off.src_incr = d.src_incr
      /\ off.dst_incr = d.dst_incr
  BY DEF Transfer
<1>3. /\ again \in Transfer /\ again.use = d.use /\ again.log = d.log /\ again.from = d.from
      /\ again.told = d.told /\ again.current = d.current /\ again.count = d.count
      /\ again.src = d.src /\ again.dst = d.dst /\ again.src_incr = d.src_incr
      /\ again.dst_incr = d.dst_incr
  BY DEF Transfer
<1> HIDE DEF off, again
<1>4. Exact(off) /\ Exact(again)
  BY <1>1, <1>2, <1>3
<1> QED BY <1>2, <1>3, <1>4 DEF off, again

LEMMA OnDmaEnableGood ==
  ASSUME NEW s, Good(s), NEW ch \in Channels, NEW use \in DmaUses, NEW count \in Nat
  PROVE  Good(OnDmaEnable(s, ch, use, count))
<1> DEFINE d == s.dma[ch]
           r == [enable |-> TRUE, use |-> use, count |-> count,
                 current |-> count, src |-> use.src_addr, dst |-> use.dst_addr,
                 src_incr |-> d.src_incr, dst_incr |-> d.dst_incr,
                 next_copy_is_repeat |-> FALSE,
                 from |-> Unit(use.src_addr, use.dst_addr), log |-> <<>>, told |-> TRUE]
           suspended == s.suspended \ {ch}
           new == Enabled(s, ch, use, count)
<1>1. /\ s \in State /\ suspended \in SUBSET Drivers /\ s.ran \in Nat
      /\ s.dma \in [Channels -> Transfer]
      /\ d.src_incr \in -1 .. 1 /\ d.dst_incr \in -1 .. 1
  <2>1. d \in Transfer
    BY TransferFields
  <2> QED BY <2>1, TransferFields DEF Transfer
<1>2. r \in Transfer /\ Exact(r)
  <2>1. use.src_addr \in Addresses /\ use.dst_addr \in Addresses
    BY DEF DmaUses, Addresses
  <2>2. Unit(use.src_addr, use.dst_addr) \in UnitSet
    BY <2>1, UnitFacts
  <2> HIDE DEF d
  <2>3. r \in Transfer
    BY <1>1, <2>1, <2>2 DEF Transfer
  <2>4. InOrder(r) /\ Due(r) = Unit(r.src, r.dst)
    BY DEF InOrder, Due
  <2> QED BY <2>3, <2>4 DEF Exact
<1>3. new = [s EXCEPT !.dma = [s.dma EXCEPT ![ch] = r], !.suspended = suspended,
                      !.ran = s.ran]
  BY <1>1 DEF Enabled, State
<1> HIDE DEF r, suspended, new
<1>4. Good(new)
  BY <1>1, <1>2, <1>3, TransferGood
<1>5. ch \in Drivers
  BY DEF Drivers
<1> QED BY <1>4, <1>5, EngageDriverGood DEF OnDmaEnable, new

LEMMA OnDmaDisableGood ==
  ASSUME NEW s, Good(s), NEW ch \in Channels
  PROVE  Good(OnDmaDisable(s, ch))
<1> DEFINE r == [s.dma[ch] EXCEPT !.enable = FALSE]
           new == [s EXCEPT !.dma[ch].enable = FALSE]
<1>1. /\ s \in State /\ s.suspended \in SUBSET Drivers /\ s.ran \in Nat
      /\ s.dma[ch] \in Transfer /\ Exact(s.dma[ch])
  BY TransferFields
<1>2. r \in Transfer /\ Exact(r)
  BY <1>1, EndedExact
<1>3. new = [s EXCEPT !.dma = [s.dma EXCEPT ![ch] = r], !.suspended = s.suspended,
                      !.ran = s.ran]
  BY <1>1 DEF State
<1> HIDE DEF r, new
<1>4. Good(new)
  BY <1>1, <1>2, <1>3, TransferGood
<1> QED BY <1>4, DisengageDriverGood DEF OnDmaDisable, new

\* The channel that runs has the right increments.
AimedAt(s, ch) == s.dma[ch].told => Aimed(s.dma[ch])

LEMMA BeginDmaGood ==
  ASSUME NEW s, Good(s), NEW ch \in Channels
  PROVE  /\ Good(BeginDma(s, ch)) /\ BeginDma(s, ch).drivers = s.drivers
         /\ AimedAt(BeginDma(s, ch), ch)
<1> DEFINE flagged == ch \in s.suspended
           r == Begun(s.dma[ch], flagged)
           suspended == s.suspended \ {ch}
           new == BeginDma(s, ch)
<1>1. /\ s \in State /\ s.suspended \in SUBSET Drivers /\ s.dma[ch] \in Transfer
      /\ Exact(s.dma[ch]) /\ s.dma \in [Channels -> Transfer]
  BY TransferFields
<1>2. new = [s EXCEPT !.dma = [s.dma EXCEPT ![ch] = r], !.suspended = suspended, !.ran = 0]
  BY <1>1 DEF BeginDma, State
<1>3. suspended \in SUBSET Drivers
  BY <1>1
<1>4. flagged \in BOOLEAN
  OBVIOUS
<1> HIDE DEF flagged
<1>5. r \in Transfer /\ Exact(r) /\ (r.told => Aimed(r))
  BY <1>1, <1>4, BegunExact
<1> HIDE DEF r, suspended, new
<1>6. Good(new)
  BY <1>2, <1>3, <1>5, TransferGood
<1>7. new.drivers = s.drivers /\ new.dma[ch] = r
  BY <1>1, <1>2 DEF State
<1> QED BY <1>5, <1>6, <1>7 DEF AimedAt, new

LEMMA CopyUnitGood ==
  ASSUME NEW s, Good(s), NEW ch \in Channels, s.dma[ch].current > 0, AimedAt(s, ch),
         NEW cycles \in Nat
  PROVE  /\ Good(CopyUnit(s, ch, cycles)) /\ CopyUnit(s, ch, cycles).drivers = s.drivers
         /\ AimedAt(CopyUnit(s, ch, cycles), ch)
<1> DEFINE r == CopiedUnit(s.dma[ch])
           ran == s.ran + cycles
           new == CopyUnit(s, ch, cycles)
<1>1. /\ s \in State /\ s.suspended \in SUBSET Drivers /\ s.dma[ch] \in Transfer
      /\ Exact(s.dma[ch]) /\ s.dma \in [Channels -> Transfer] /\ s.ran \in Nat
  BY TransferFields
<1>2. ran \in Nat
  BY <1>1
<1>3. r \in Transfer /\ Exact(r) /\ (r.told => Aimed(r))
  BY <1>1, CopiedUnitExact DEF AimedAt
<1>4. new = [s EXCEPT !.dma = [s.dma EXCEPT ![ch] = r], !.suspended = s.suspended,
                      !.ran = ran]
  BY <1>1 DEF CopyUnit, State
<1> HIDE DEF r, ran, new
<1>5. Good(new)
  BY <1>1, <1>2, <1>3, <1>4, TransferGood
<1>6. new.drivers = s.drivers /\ new.dma[ch] = r
  BY <1>1, <1>4 DEF State
<1> QED BY <1>3, <1>5, <1>6 DEF AimedAt, new

LEMMA EndDmaGood ==
  ASSUME NEW s, Good(s), NEW ch \in Channels
  PROVE  Good(EndDma(s, ch))
<1> DEFINE ended == Raise(DisengageDriver(s, ch), Source(ch))
<1>1. Source(ch) \in AnySource
  BY CoreAssumption DEF Source, AnySource
<1>2. Good(DisengageDriver(s, ch))
  BY DisengageDriverGood
<1>3. Good(ended)
  BY <1>1, <1>2, RaiseGood DEF Good
<1>4. EndDma(s, ch) = IF s.dma[ch].current > 0 THEN s
                      ELSE IF s.dma[ch].use.repeat
                           THEN [ended EXCEPT !.dma[ch].next_copy_is_repeat = TRUE]
                           ELSE [ended EXCEPT !.dma[ch].enable = FALSE]
  BY DEF EndDma
<1> HIDE DEF ended
<1> DEFINE r == [ended.dma[ch] EXCEPT !.next_copy_is_repeat = TRUE]
           q == [ended.dma[ch] EXCEPT !.enable = FALSE]
           again == [ended EXCEPT !.dma[ch].next_copy_is_repeat = TRUE]
           done == [ended EXCEPT !.dma[ch].enable = FALSE]
<1>5. /\ ended \in State /\ ended.suspended \in SUBSET Drivers /\ ended.ran \in Nat
      /\ ended.dma[ch] \in Transfer /\ Exact(ended.dma[ch])
  BY <1>3, TransferFields
<1>6. r \in Transfer /\ Exact(r) /\ q \in Transfer /\ Exact(q)
  BY <1>5, EndedExact
<1>7. again = [ended EXCEPT !.dma = [ended.dma EXCEPT ![ch] = r],
                            !.suspended = ended.suspended, !.ran = ended.ran]
  BY <1>5 DEF State
<1>8. done = [ended EXCEPT !.dma = [ended.dma EXCEPT ![ch] = q],
                           !.suspended = ended.suspended, !.ran = ended.ran]
  BY <1>5 DEF State
<1> HIDE DEF r, q, again, done
<1>9. Good(again) /\ Good(done)
  BY <1>3, <1>5, <1>6, <1>7, <1>8, TransferGood
<1> QED BY <1>4, <1>9 DEF again, done

-----------------------------------------------------------------------------
(* The main loop.                                                          *)

\* A channel that runs is at least as urgent as each driver, and has the right increments.
LoopInv ==
  /\ Good(g)
  /\ running \in Drivers \cup {None}
  /\ running \in Channels => \A i \in 1 .. Len(g.drivers) : running <= g.drivers[i]
  /\ running \in Channels => AimedAt(g, running)

LEMMA GbaInitInv == GbaInit => LoopInv
<1> SUFFICES ASSUME GbaInit PROVE LoopInv
  OBVIOUS
<1> DEFINE events == <<Event("HBlank", HBlankTime)>>
           dma == [ch \in Channels |-> Idle]
<1>1. events \in Seq(EventSet) /\ Len(events) = 1 /\ events[1].type \in PpuTypes
  BY GbaAssumption DEF Event, EventSet, EventTypes, PpuTypes
<1>2. <<Cpu>> \in Seq(Drivers) /\ Len(<<Cpu>>) = 1 /\ <<Cpu>>[1] = Cpu
  BY DriverFacts
<1>3. Idle \in Transfer /\ Exact(Idle)
  <2>1. 0 \in Addresses
    BY CoreAssumption DEF Addresses
  <2>2. Unused \in DmaUses /\ Unit(0, 0) \in UnitSet
    BY <2>1, UnitFacts DEF Unused, DmaUses, Addresses
  <2>3. Idle \in Transfer
    BY <2>1, <2>2 DEF Idle, Transfer
  <2>4. InOrder(Idle) /\ Due(Idle) = Unit(Idle.src, Idle.dst)
    BY DEF Idle, InOrder, Due
  <2> QED BY <2>3, <2>4 DEF Exact, Idle
<1>4. dma \in [Channels -> Transfer] /\ \A ch \in Channels : Exact(dma[ch])
  BY <1>3
<1> HIDE DEF events, dma
<1>5. /\ g = [events |-> events, eventRoom |-> 1,
               drivers |-> <<Cpu>>, driverRoom |-> 1, suspended |-> {}, cycle |-> 0,
               ime |-> FALSE, irq |-> FALSE, ie |-> {}, if_ |-> {}, line |-> FALSE,
               dma |-> dma, ran |-> 0, v_counter |-> 0, v_match |-> FALSE]
      /\ running = None /\ slice = 0
  BY DEF GbaInit, events, dma
<1>6. /\ g \in State /\ g.drivers = <<Cpu>> /\ g.dma = dma /\ g.ime = FALSE /\ g.events = events
  BY <1>1, <1>2, <1>4, <1>5 DEF State
<1>7. Ordered(g.drivers) /\ HasCpu(g.drivers)
  BY <1>2, <1>6 DEF Ordered, HasCpu
<1>8. None \notin Channels
  BY CoreAssumption DEF None
<1>9. Good(g)
  <2>1. Settled(g)
    BY <1>6, Zenon DEF Settled
  <2>2. Drawing(g)
    <3>1. g.events = events
      BY <1>6
    <3>2. Len(g.events) = 1 /\ g.events[1].type \in PpuTypes
      BY <1>1, <3>1, Zenon
    <3>3. 1 \in 1 .. Len(g.events)
      BY <3>2
    <3> QED BY <3>2, <3>3, Zenon DEF Drawing, Has
  <2>3. Sound(g)
    BY <1>4, <1>6, <1>7 DEF Sound
  <2> QED BY <2>1, <2>2, <2>3 DEF Good
<1> QED BY <1>5, <1>8, <1>9 DEF LoopInv

\* What the callbacks of the events leave.
LEMMA CallbackGood ==
  ASSUME NEW s, Sound(s), NEW type \in EventTypes,
         Settled(s) \/ type \in IrqTypes, Drawing(s) \/ type \in PpuTypes
  PROVE  Good(Callback(s, type))
<1>0. s \in State /\ HBlankTime \in Int /\ FlagTime \in Int /\ LineTime \in Int
  BY GbaAssumption DEF Sound
<1>1. \A r, source : Good(r) => Good(RaiseEnabled(r, source)) \/ source \notin AnySource
  BY RaiseGood DEF RaiseEnabled, Good
<1>2. CASE type = "HBlank"
  <2>1. Good(AddEvent(s, "HBlankSetFlag", FlagTime))
    BY <1>0, <1>2, AddEventGood DEF EventTypes, IrqTypes, PpuTypes
  <2>2. Good(OnHBlank(s))
    BY <2>1, EngageWaitingGood DEF OnHBlank
  <2> QED BY <1>2, <2>2 DEF Callback
<1>3. CASE type = "HBlankSetFlag"
  <2>1. Good(AddEvent(s, "NewScanline", LineTime))
    BY <1>0, <1>3, AddEventGood DEF EventTypes, IrqTypes, PpuTypes
  <2>2. Good(OnHBlankSetFlag(s))
    BY <1>1, <2>1 DEF OnHBlankSetFlag, AnySource
  <2> QED BY <1>3, <2>2 DEF Callback
<1>4. CASE type = "NewScanline"
  <2> DEFINE line == s.v_counter + 1
             start == AddEvent(s, "HBlank", HBlankTime)
             added == [start EXCEPT !.v_counter = line % Lines]
             next == MatchVCounter(added, line)
  <2>1. Good(start)
    BY <1>0, <1>4, AddEventGood DEF EventTypes, IrqTypes, PpuTypes
  <2>2. line % Lines \in Nat
    BY <1>0, StateFields, GbaAssumption
  <2>3. OnNewScanline(s) =
          IF line = VBlankLine THEN EngageWaiting(RaiseEnabled(next, "VBlank"), "vblank")
          ELSE next
    BY DEF OnNewScanline
  <2>4. start \in State
    BY <2>1 DEF Good, Sound
  <2> HIDE DEF start, line
  <2>5. /\ added \in State /\ added.drivers = start.drivers /\ added.dma = start.dma
        /\ added.events = start.events /\ added.ime = start.ime /\ added.irq = start.irq
        /\ added.line = start.line
    BY <2>2, <2>4 DEF State
  <2> HIDE DEF added
  <2>6. Good(added)
    BY <2>1, <2>5 DEF Good, Sound, Settled, Drawing, Has
  <2>7. Good(next)
    <3> DEFINE match == line = VCountSetting
               matched == [added EXCEPT !.v_match = match]
    <3>1. next = IF matched.v_match /\ ~ added.v_match THEN RaiseEnabled(matched, "VCounter")
                 ELSE matched
      BY DEF MatchVCounter
    <3>2. match \in BOOLEAN
      OBVIOUS
    <3> HIDE DEF match
    <3>3. /\ matched \in State /\ matched.drivers = added.drivers
          /\ matched.dma = added.dma /\ matched.events = added.events
          /\ matched.ime = added.ime /\ matched.irq = added.irq
          /\ matched.line = added.line
      BY <2>5, <3>2 DEF State
    <3> HIDE DEF matched, next
    <3>4. Good(matched)
      BY <2>6, <3>3 DEF Good, Sound, Settled, Drawing, Has
    <3> QED BY <1>1, <3>1, <3>4 DEF AnySource
  <2> HIDE DEF next
  <2>8. Good(EngageWaiting(RaiseEnabled(next, "VBlank"), "vblank"))
    BY <1>1, <2>7, EngageWaitingGood DEF AnySource
  <2>9. Good(OnNewScanline(s))
    BY <2>3, <2>7, <2>8
  <2> QED BY <1>4, <2>9 DEF Callback
<1>5. CASE type = "IrqChange"
  <2>1. s.irq \in BOOLEAN
    BY <1>0, StateFields
  <2> DEFINE new == OnIrqChange(s)
  <2>2. /\ new \in State /\ new.drivers = s.drivers /\ new.dma = s.dma
        /\ new.line = s.irq /\ new.irq = s.irq /\ new.events = s.events
    BY <1>0, <2>1 DEF OnIrqChange, State
  <2> HIDE DEF new
  <2>3. Good(new)
    BY <1>5, <2>2 DEF Good, Sound, Settled, Drawing, Has, PpuTypes
  <2> QED BY <1>5, <2>3 DEF Callback, new
<1>6. CASE type = "ImeChange"
  <2> DEFINE line == s.ime /\ s.irq
             new == OnImeChange(s)
  <2>1. line \in BOOLEAN /\ s.irq \in BOOLEAN
    BY <1>0, StateFields
  <2>2. new = [s EXCEPT !.line = line]
    BY DEF OnImeChange
  <2>3. s.ime => line = s.irq
    BY <2>1
  <2> HIDE DEF line, new
  <2>4. /\ new \in State /\ new.drivers = s.drivers /\ new.dma = s.dma
        /\ new.line = line /\ new.irq = s.irq /\ new.ime = s.ime
        /\ new.events = s.events
    BY <1>0, <2>1, <2>2 DEF State
  <2>5. Good(new)
    BY <1>6, <2>3, <2>4 DEF Good, Sound, Settled, Drawing, Has, PpuTypes
  <2> QED BY <1>6, <2>5 DEF Callback, new
<1> QED BY <1>2, <1>3, <1>4, <1>5, <1>6 DEF EventTypes

LEMMA FireEventStep ==
  ASSUME LoopInv, FireEvent
  PROVE  LoopInv'
<1> DEFINE popped == PopEvent(g)
           type == Head(g.events).type
<1>1. Good(g) /\ g.events # <<>>
  <2>1. g.events \in Seq(EventSet)
    BY StateFields DEF LoopInv, Good, Sound
  <2> QED BY <2>1 DEF LoopInv, Good, Drawing, Has
<1>2. /\ Sound(popped) /\ type \in EventTypes
      /\ popped.ime = g.ime /\ popped.irq = g.irq /\ popped.line = g.line
      /\ \A types : Has(g, types) => Has(popped, types) \/ type \in types
  BY <1>1, PopEventFacts DEF Good
<1>3. g' = Callback(popped, type) /\ running = None /\ running' = None
  BY DEF FireEvent
<1> HIDE DEF popped, type
<1>4. /\ Settled(popped) \/ type \in IrqTypes
      /\ Drawing(popped) \/ type \in PpuTypes
  BY <1>1, <1>2 DEF Good, Settled, Drawing
<1>5. Good(g')
  BY <1>2, <1>3, <1>4, CallbackGood
<1>6. None \notin Channels
  BY CoreAssumption DEF None
<1> QED BY <1>3, <1>5, <1>6 DEF LoopInv

LEMMA StartDriverStep ==
  ASSUME LoopInv, StartDriver
  PROVE  LoopInv'
<1>1. /\ g \in State /\ g.drivers \in Seq(Drivers) /\ Ordered(g.drivers)
      /\ HasCpu(g.drivers) /\ Len(g.drivers) \in Nat \ {0} /\ Good(g)
  BY StateFields DEF LoopInv, Good, Sound, HasCpu
<1>2. running' = g.drivers[1] /\ g.drivers[1] \in Drivers
  BY <1>1 DEF StartDriver
<1>3. \A i \in 1 .. Len(g.drivers) : running' <= g.drivers[i]
  <2> SUFFICES ASSUME NEW i \in 1 .. Len(g.drivers)
               PROVE  g.drivers[1] <= g.drivers[i]
    BY <1>2
  <2>1. g.drivers[1] \in Nat
    BY <1>2, DriverFacts
  <2> QED BY <1>1, <2>1 DEF Ordered
<1>4. Good(g') /\ g'.drivers = g.drivers /\ (running' \in Channels => AimedAt(g', running'))
  <2>1. CASE running' = Cpu
    <3> DEFINE suspended == g.suspended \ {Cpu}
    <3>1. g' = [g EXCEPT !.suspended = suspended, !.cycle = 0]
      BY <2>1 DEF StartDriver
    <3>2. suspended \in SUBSET Drivers
      BY <1>1, StateFields
    <3> HIDE DEF suspended
    <3>3. /\ g' \in State /\ g'.drivers = g.drivers /\ g'.dma = g.dma
          /\ g'.events = g.events
          /\ g'.ime = g.ime /\ g'.irq = g.irq /\ g'.line = g.line
      BY <1>1, <3>1, <3>2 DEF State
    <3>4. Good(g')
      BY <1>1, <3>3 DEF Good, Sound, Settled, Drawing, Has
    <3> QED BY <2>1, <3>3, <3>4, DriverFacts
  <2>2. CASE running' # Cpu
    <3>1. running' \in Channels /\ g' = BeginDma(g, running')
      BY <1>2, <2>2 DEF StartDriver, Drivers
    <3> QED BY <1>1, <3>1, BeginDmaGood
  <2> QED BY <2>1, <2>2
<1> QED BY <1>2, <1>3, <1>4 DEF LoopInv

LEMMA ExecutesStep ==
  ASSUME NEW s, Good(s), Executes(s)
  PROVE  LoopInv'
<1>1. PICK k \in Costs : g' = [s EXCEPT !.cycle = @ + k]
  BY DEF Executes
<1>2. s \in State /\ s.cycle + k \in Nat
  BY StateFields, GbaAssumption DEF Good, Sound
<1>3. /\ g' \in State /\ g'.drivers = s.drivers /\ g'.dma = s.dma /\ g'.events = s.events
      /\ g'.ime = s.ime /\ g'.irq = s.irq /\ g'.line = s.line
  BY <1>1, <1>2 DEF State
<1>4. Good(g')
  BY <1>3 DEF Good, Sound, Settled, Drawing, Has
<1>5. running' = Cpu /\ Cpu \in Drivers /\ Cpu \notin Channels
  BY DriverFacts DEF Executes, CpuRuns
<1> QED BY <1>4, <1>5 DEF LoopInv

LEMMA CpuStep ==
  ASSUME LoopInv, Compute \/ StoreIE \/ StoreIF \/ StoreIME \/ EnableDma \/ DisableDma
  PROVE  LoopInv'
<1>0. Good(g)
  BY DEF LoopInv
<1>1. CASE Compute
  BY <1>0, <1>1, ExecutesStep DEF Compute
<1>2. CASE StoreIE
  <2>1. PICK sources \in {{}, Sources} : Executes(WriteIE(g, sources))
    BY <1>2 DEF StoreIE
  <2>2. Good(WriteIE(g, sources))
    BY <1>0, RegistersGood
  <2> QED BY <2>1, <2>2, ExecutesStep
<1>3. CASE StoreIF
  BY <1>0, <1>3, RegistersGood, ExecutesStep DEF StoreIF
<1>4. CASE StoreIME
  <2>1. PICK on \in BOOLEAN : Executes(WriteIME(g, on))
    BY <1>4 DEF StoreIME
  <2>2. Good(WriteIME(g, on))
    BY <1>0, RegistersGood
  <2> QED BY <2>1, <2>2, ExecutesStep
<1>5. CASE EnableDma
  <2>1. PICK ch \in Channels : \E use \in Uses[ch], count \in Counts :
          Executes(OnDmaEnable(g, ch, use, count))
    BY <1>5 DEF EnableDma
  <2>2. PICK use \in Uses[ch], count \in Counts : Executes(OnDmaEnable(g, ch, use, count))
    BY <2>1
  <2>3. use \in DmaUses /\ count \in Nat
    BY GbaAssumption
  <2>4. Good(OnDmaEnable(g, ch, use, count))
    BY <1>0, <2>3, OnDmaEnableGood
  <2> QED BY <2>2, <2>4, ExecutesStep
<1>6. CASE DisableDma
  <2>1. PICK ch \in Channels : Executes(OnDmaDisable(g, ch))
    BY <1>6 DEF DisableDma
  <2>2. Good(OnDmaDisable(g, ch))
    BY <1>0, OnDmaDisableGood
  <2> QED BY <2>1, <2>2, ExecutesStep
<1> QED BY <1>1, <1>2, <1>3, <1>4, <1>5, <1>6

LEMMA DmaStep ==
  ASSUME LoopInv, CpuReturns \/ DmaCopies \/ DmaReturns
  PROVE  LoopInv'
<1>0. Good(g) /\ None \notin Channels
  BY CoreAssumption DEF LoopInv, None
<1>1. CASE CpuReturns
  <2>1. g' = Ran(g, g.cycle) /\ running' = None
    BY <1>1 DEF CpuReturns
  <2>2. g.cycle \in Int
    BY <1>0, StateFields DEF Good, Sound
  <2>3. Good(g')
    BY <1>0, <2>1, <2>2, RanFacts
  <2> QED BY <1>0, <2>1, <2>3 DEF LoopInv
<1>2. CASE DmaCopies
  <2>1. /\ running \in Channels /\ g.dma[running].current > 0 /\ running' = running
        /\ AimedAt(g, running)
    BY <1>2 DEF DmaCopies, DmaRuns, LoopInv
  <2>2. ASSUME NEW s, Good(s), SameTransfers(g, s), g' = CopyUnit(s, running, UnitCost)
        PROVE  LoopInv'
    <3>1. s.dma[running].current > 0 /\ AimedAt(s, running)
      BY <2>1, <2>2 DEF SameTransfers, AimedAt
    <3>2. Good(g') /\ g'.drivers = s.drivers /\ AimedAt(g', running)
      BY <2>1, <2>2, <3>1, GbaAssumption, CopyUnitGood
    <3> QED BY <2>1, <2>2, <3>2 DEF LoopInv, SameTransfers
  <2>3. SameTransfers(g, g)
    BY DEF SameTransfers
  <2>4. PICK s : /\ Good(s) /\ SameTransfers(g, s)
                 /\ g' = CopyUnit(s, running, UnitCost)
    <3>1. CASE g' = CopyUnit(g, running, UnitCost)
      BY <1>0, <2>3, <3>1
    <3>2. CASE \E sources \in {{}, Sources} :
                  g' = CopyUnit(WriteIE(g, sources), running, UnitCost)
      <4>1. PICK sources \in SUBSET Sources :
              g' = CopyUnit(WriteIE(g, sources), running, UnitCost)
        BY <3>2
      <4> QED BY <1>0, <4>1, RegistersGood
    <3>3. CASE g' = CopyUnit(WriteIF(g, g.if_), running, UnitCost)
      BY <1>0, <3>3, RegistersGood
    <3>4. CASE \E on \in BOOLEAN : g' = CopyUnit(WriteIME(g, on), running, UnitCost)
      BY <1>0, <3>4, RegistersGood
    <3> QED BY <1>2, <3>1, <3>2, <3>3, <3>4 DEF DmaCopies
  <2> QED BY <2>2, <2>4
<1>3. CASE DmaReturns
  <2>1. running \in Channels /\ g' = Ran(EndDma(g, running), g.ran) /\ running' = None
    BY <1>3 DEF DmaReturns
  <2>2. g.ran \in Int
    BY <1>0, StateFields DEF Good, Sound
  <2>3. Good(EndDma(g, running))
    BY <1>0, <2>1, EndDmaGood
  <2>4. Good(g')
    BY <2>1, <2>2, <2>3, RanFacts
  <2> QED BY <1>0, <2>1, <2>4 DEF LoopInv
<1> QED BY <1>1, <1>2, <1>3

LEMMA LoopInvariant == GbaSpec => []LoopInv
<1>1. LoopInv /\ [GbaNext]_gbaVars => LoopInv'
  <2> SUFFICES ASSUME LoopInv, [GbaNext]_gbaVars PROVE LoopInv'
    OBVIOUS
  <2>1. CASE StartDriver
    BY <2>1, StartDriverStep
  <2>2. CASE FireEvent
    BY <2>2, FireEventStep
  <2>3. CASE Compute \/ StoreIE \/ StoreIF \/ StoreIME \/ EnableDma \/ DisableDma
    BY <2>3, CpuStep
  <2>4. CASE CpuReturns \/ DmaCopies \/ DmaReturns
    BY <2>4, DmaStep
  <2>5. CASE UNCHANGED gbaVars
    BY <2>5 DEF LoopInv, gbaVars
  <2> QED BY <2>1, <2>2, <2>3, <2>4, <2>5 DEF GbaNext
<1> QED BY <1>1, GbaInitInv, PTL DEF GbaSpec

\* The core keeps its types, the CPU is always among the drivers and the PPU always has
\* an event under way, so that Run never reads an empty list (scheduler.cpp, Run).
THEOREM LoopTypeCorrect ==
  GbaSpec => [](g \in State /\ g.events # <<>> /\ g.drivers # <<>>)
<1>1. LoopInv => g \in State /\ g.events # <<>> /\ g.drivers # <<>>
  <2> SUFFICES ASSUME LoopInv PROVE g \in State /\ g.events # <<>> /\ g.drivers # <<>>
    OBVIOUS
  <2>1. g \in State /\ g.events \in Seq(EventSet) /\ g.drivers \in Seq(Drivers)
    BY StateFields DEF LoopInv, Good, Sound
  <2> QED BY <2>1 DEF LoopInv, Good, Sound, HasCpu, Drawing, Has
<1> QED BY <1>1, LoopInvariant, PTL

\* A channel runs only when no more urgent one is engaged, in whatever order channels
\* are engaged, again and again, and disengaged (scheduler.cpp, EngageDriver).
THEOREM MostUrgentFirst == GbaSpec => []MostUrgentRuns
<1>1. LoopInv => MostUrgentRuns
  <2> SUFFICES ASSUME LoopInv PROVE MostUrgentRuns
    OBVIOUS
  <2>1. g.drivers \in Seq(Drivers)
    BY StateFields DEF LoopInv, Good, Sound
  <2> QED BY <2>1 DEF LoopInv, MostUrgentRuns
<1> QED BY <1>1, LoopInvariant, PTL

\* While the flag "suspended" tells each call of PerformDma rightly whether a copy begins
\* or goes on, each unit of a copy is copied once and in its order, from the address and
\* to the address that the registers ask for, however often the channel is suspended,
\* overtaken or engaged again, and in each copy of a channel that repeats (dma.cpp,
\* PerformDma).
THEOREM TransfersAreExact == GbaSpec => []TransferIsExact
<1>1. LoopInv => TransferIsExact
  <2> SUFFICES ASSUME LoopInv, NEW ch \in Channels, g.dma[ch].told
               PROVE  LET d == g.dma[ch] IN
                      /\ Len(d.log) + d.current = d.count
                      /\ \A k \in DOMAIN d.log :
                          d.log[k] = IF k = 1 THEN d.from ELSE NextUnit(d, d.log[k - 1])
    BY DEF TransferIsExact
  <2> DEFINE d == g.dma[ch]
  <2>1. d \in Transfer /\ Exact(d)
    BY TransferFields DEF LoopInv
  <2>2. DOMAIN d.log = 1 .. Len(d.log)
    BY <2>1 DEF Transfer
  <2> QED BY <2>1, <2>2 DEF Exact, InOrder
<1> QED BY <1>1, LoopInvariant, PTL

\* When interrupts are on and no change of the line is under way, the CPU has been told
\* what the registers say, whatever events overtake each other (irq.cpp, CheckIrq).
THEOREM InterruptLineSettles == GbaSpec => []LineSettles
<1>1. LoopInv => LineSettles
  <2> SUFFICES ASSUME LoopInv, g.ime, Of({"IrqChange", "ImeChange"}) = {}
               PROVE  g.line = g.irq
    BY DEF LineSettles
  <2>1. g.events \in Seq(EventSet)
    BY StateFields DEF LoopInv, Good, Sound
  <2>2. ~ Has(g, IrqTypes)
    BY <2>1 DEF Has, IrqTypes, Of
  <2> QED BY <2>2 DEF LoopInv, Good, Settled
<1> QED BY <1>1, LoopInvariant, PTL

-----------------------------------------------------------------------------
(* The timers.                                                             *)

Fields == {"enable", "count_up", "prescaler", "is_counting", "reload", "base", "counter",
           "max", "period", "refreshed", "left"}
Shaped(t) == DOMAIN t = Timers /\ \A k \in Timers : DOMAIN t[k] = Fields

\* A timer counts only when it is enabled and, if it counts the overflows of the previous
\* timer, when that counts.
Chained(t) ==
  \A k \in Timers : t[k].is_counting =>
    t[k].enable /\ (Counted(t[k], k) => t[k - 1].is_counting)

\* r has counted the cycles since a time, without any of its registers being written.
CountsFrom(r, from) ==
  /\ from \in Nat /\ r.enable
  /\ r.prescaler \in Prescalers /\ r.reload \in 0 .. CounterMax - 1 /\ r.base = r.reload
  /\ r.max = (CounterMax - r.reload) * r.prescaler /\ r.period = r.max
  /\ r.refreshed \in Nat /\ from <= r.refreshed
  /\ r.counter = (r.refreshed - from) % r.max
  /\ r.left = r.max - r.counter

\* How often p has overflowed.
Laps(p, from) == (p.refreshed - from) \div p.max

\* r has counted c overflows of the previous timer, without its registers being written,
\* until it overflowed.
CountsLaps(r, c) == c \in Nat /\ (c < r.max => r.counter = c)

\* It will not take the next one for the last.
Waits(r, c) == r.is_counting /\ (c < r.max => r.left \in Nat /\ r.left >= r.max - c)

Fresh(r) ==
  /\ r.enable /\ r.count_up /\ r.prescaler = 1 /\ r.base = r.reload
  /\ r.reload \in 0 .. CounterMax - 1 /\ r.max = CounterMax - r.reload

\* Timer i counts the overflows of a timer that counts the cycles, or of a timer that
\* does not count yet.
Follows(t, e, i) ==
  /\ Fresh(t[i]) /\ e[i] \in Nat
  /\ IF t[i - 1].enable
     THEN /\ ~ Counted(t[i - 1], i - 1)
          /\ e[i - 1] # NotExact /\ CountsFrom(t[i - 1], e[i - 1]) /\ t[i - 1].is_counting
          /\ CountsLaps(t[i], Laps(t[i - 1], e[i - 1]) - e[i])
          /\ Waits(t[i], Laps(t[i - 1], e[i - 1]) - e[i])
     ELSE e[i] = 0 /\ t[i].counter = 0 /\ ~ t[i].is_counting

ExactAt(t, e, k) ==
  e[k] # NotExact =>
    IF Counted(t[k], k) THEN Follows(t, e, k) ELSE CountsFrom(t[k], e[k]) /\ t[k].is_counting

TimersInv ==
  /\ Shaped(timer) /\ Chained(timer)
  /\ now \in 0 .. MaxTime /\ DOMAIN since = Timers
  /\ \A k \in Timers : timer[k].reload \in 0 .. CounterMax - 1
  /\ \A k \in Timers : ExactAt(timer, since, k)

\* There is only one division with remainder.
LEMMA SmallMultiple ==
  ASSUME NEW m \in Nat \ {0}, NEW k \in Int, NEW r \in 0 .. m - 1, NEW s \in 0 .. m - 1,
         m * k = s - r
  PROVE  k = 0
<1>1. k >= 1 => m * k >= m
  OBVIOUS
<1>2. k <= -1 => m * k <= -m
  OBVIOUS
<1> QED BY <1>1, <1>2

LEMMA OneDivision ==
  ASSUME NEW m \in Nat \ {0}, NEW q \in Int, NEW r \in 0 .. m - 1
  PROVE  (m * q + r) \div m = q /\ (m * q + r) % m = r
<1> DEFINE x == m * q + r
<1>1. x \in Int
  OBVIOUS
<1> HIDE DEF x
<1>2. /\ x \div m \in Int /\ x % m \in 0 .. m - 1
      /\ x = m * (x \div m) + (x % m)
  BY <1>1, Division
<1> DEFINE p == x \div m
           s == x % m
<1> HIDE DEF p, s
<1>3. p \in Int /\ s \in 0 .. m - 1 /\ x = m * p + s /\ x = m * q + r
  BY <1>2 DEF p, s, x
<1>4. m * (p - q) = r - s
  <2>1. m * (p - q) = m * p - m * q
    BY <1>3
  <2> QED BY <1>3, <2>1
<1>5. p - q = 0
  <2>1. p - q \in Int
    BY <1>3
  <2> QED BY <1>3, <1>4, <2>1, SmallMultiple
<1>6. p = q /\ s = r
  <2>1. p = q
    BY <1>3, <1>5
  <2> QED BY <1>3, <2>1
<1> QED BY <1>6 DEF p, s, x

\* Adding to a number less what is missing to the next multiple.
LEMMA ModAdd ==
  ASSUME NEW x \in Nat, NEW n \in Nat, NEW m \in Nat \ {0}
  PROVE  /\ n < m - (x % m) => (x + n) % m = (x % m) + n
         /\ (n - (m - (x % m))) % m = (x + n) % m
<1> DEFINE q == x \div m
           r == x % m
<1>1. q \in Int /\ r \in 0 .. m - 1 /\ x = m * q + r
  BY Division
<1> HIDE DEF q, r
<1>2. ASSUME n < m - r
      PROVE  (x + n) % m = r + n
  <2>1. r + n \in 0 .. m - 1 /\ x + n = m * q + (r + n)
    BY <1>1, <1>2
  <2>2. (m * q + (r + n)) % m = r + n
    BY <1>1, <2>1, OneDivision
  <2> QED BY <2>1, <2>2
<1>3. (n - (m - r)) % m = (x + n) % m
  <2> DEFINE y == n - (m - r)
             p == y \div m
             s == y % m
  <2>1. y \in Int
    BY <1>1
  <2> HIDE DEF y
  <2>2. p \in Int /\ s \in 0 .. m - 1 /\ y = m * p + s
    BY <2>1, Division
  <2> HIDE DEF p, s
  <2>3. x + n = m * (p + q + 1) + s
    <3>1. x + n = m * q + y + m
      BY <1>1, <2>1 DEF y
    <3>2. m * (p + q + 1) = m * p + m * q + m
      BY <1>1, <2>2
    <3>3. p + q + 1 \in Int /\ m * p \in Int /\ m * q \in Int /\ y = m * p + s
      BY <1>1, <2>2
    <3> QED BY <2>2, <3>1, <3>2, <3>3
  <2>4. (m * (p + q + 1) + s) % m = s
    <3>1. p + q + 1 \in Int
      BY <1>1, <2>2
    <3> QED BY <2>2, <3>1, OneDivision
  <2> QED BY <2>3, <2>4 DEF s, y
<1> QED BY <1>2, <1>3 DEF r

\* The digits above the last one.
LEMMA DivOfMod ==
  ASSUME NEW x \in Nat, NEW m \in Nat \ {0}, NEW p \in Nat \ {0}
  PROVE  (x % (m * p)) \div p = (x \div p) % m
<1> DEFINE a == x \div p
           b == x % p
           c == a \div m
           d == a % m
<1>1. a \in Int /\ b \in 0 .. p - 1 /\ x = p * a + b
  BY Division
<1> HIDE DEF a, b
<1>2. c \in Int /\ d \in 0 .. m - 1 /\ a = m * c + d
  BY <1>1, Division
<1> HIDE DEF c, d
<1>3. m * p \in Nat \ {0}
  OBVIOUS
<1>4. p * d + b \in 0 .. m * p - 1
  <2>1. p * d + b \in Nat
    BY <1>1, <1>2
  <2>2. p * (d + 1) <= p * m
    BY <1>2
  <2>3. p * (d + 1) = p * d + p /\ p * m = m * p
    BY <1>2
  <2> QED BY <1>1, <1>2, <1>3, <2>1, <2>2, <2>3
<1>5. x = (m * p) * c + (p * d + b)
  <2>1. p * a = p * (m * c) + p * d
    BY <1>1, <1>2
  <2>2. p * (m * c) = (m * p) * c
    BY <1>2
  <2> QED BY <1>1, <1>2, <1>3, <2>1, <2>2
<1>6. x % (m * p) = p * d + b
  BY <1>2, <1>3, <1>4, <1>5, OneDivision
<1>7. (p * d + b) \div p = d
  BY <1>1, <1>2, OneDivision
<1> QED BY <1>6, <1>7 DEF a, d

\* The longest times that a timer, and one that counts its overflows, count.
LEMMA MaxFacts ==
  ASSUME NEW p \in Prescalers, NEW reload \in 0 .. CounterMax - 1
  PROVE  /\ (CounterMax - reload) * p \in Nat \ {0}
         /\ (CounterMax - reload) * p < U64
         /\ \A max \in 0 .. CounterMax : max * ((CounterMax - reload) * p) < U64
<1> DEFINE m == (CounterMax - reload) * p
           c == CounterMax * p
<1>1. /\ CounterMax \in Nat \ {0} /\ CounterMax - reload \in Nat \ {0}
      /\ CounterMax - reload <= CounterMax
      /\ p \in Nat \ {0} /\ U64 \in Nat /\ CounterMax * c < U64
  BY TimersAssumption
<1>2. m \in Nat \ {0} /\ m <= c /\ c \in Nat
  BY <1>1
<1> HIDE DEF m, c
<1>3. ASSUME NEW max \in 0 .. CounterMax
      PROVE  max * m <= CounterMax * c
  <2>1. max * m <= CounterMax * m
    BY <1>1, <1>2
  <2>2. CounterMax * m <= CounterMax * c
    BY <1>1, <1>2
  <2> QED BY <1>1, <1>2, <2>1, <2>2
<1>4. \A max \in 0 .. CounterMax : max * m < U64
  <2> SUFFICES ASSUME NEW max \in 0 .. CounterMax PROVE max * m < U64
    OBVIOUS
  <2>1. max * m \in Int /\ CounterMax * c \in Int
    BY <1>1, <1>2
  <2> QED BY <1>1, <1>3, <2>1
<1>5. m < U64
  <2>1. 1 * m < U64
    BY <1>1, <1>4
  <2> QED BY <1>2, <2>1
<1> QED BY <1>2, <1>4, <1>5 DEF m

\* What the recursive functions of the model return: there is a function that satisfies
\* each of their definitions.
LEMMA PassedFromFacts ==
  ASSUME NEW t, NEW i \in Timers, NEW n
  PROVE  LET f == PassedFrom(t, i, n) IN
         f = [k \in i .. LastTimer |-> IF k = i THEN n ELSE Overflows(t[k - 1], f[k - 1])]
<1> DEFINE On(f, last) == f = [k \in i .. last |->
                                 IF k = i THEN n ELSE Overflows(t[k - 1], f[k - 1])]
           Bad == {d \in Nat : ~ \E f : On(f, i + d)}
<1>0. i \in Nat /\ LastTimer \in Nat /\ i <= LastTimer
  BY TimersAssumption DEF Timers
<1>1. Bad = {}
  <2> SUFFICES ASSUME Bad # {} PROVE FALSE
    OBVIOUS
  <2>1. PICK d \in Bad : \A b \in Bad : d <= b
    BY HasMinimum
  <2>2. d # 0
    <3>1. On([k \in i .. i |-> n], i + 0)
      BY <1>0
    <3> QED BY <3>1, <2>1
  <2>3. d - 1 \in Nat /\ d - 1 \notin Bad
    BY <2>1, <2>2
  <2>4. PICK w : On(w, i + (d - 1))
    BY <2>3
  <2> DEFINE last == i + d
             f == [k \in i .. last |-> IF k = last THEN Overflows(t[k - 1], w[k - 1]) ELSE w[k]]
             h == [k \in i .. last |-> IF k = i THEN n ELSE Overflows(t[k - 1], f[k - 1])]
  <2>5. last \in Nat /\ last > i /\ i + (d - 1) = last - 1
    BY <1>0, <2>2, <2>3
  <2>6. \A k \in i .. last - 1 : w[k] = IF k = i THEN n ELSE Overflows(t[k - 1], w[k - 1])
    BY <2>4, <2>5
  <2> HIDE DEF last
  <2>7. \A k \in i .. last - 1 : f[k] = w[k]
    BY <1>0, <2>5
  <2>8. \A k \in i .. last : f[k] = h[k]
    <3> SUFFICES ASSUME NEW k \in i .. last PROVE f[k] = h[k]
      OBVIOUS
    <3>1. k # i => k - 1 \in i .. last - 1
      BY <1>0, <2>5
    <3>2. k # i => f[k - 1] = w[k - 1]
      BY <2>7, <3>1
    <3>3. CASE k = last
      BY <1>0, <2>5, <3>2, <3>3
    <3>4. CASE k # last
      <4>1. k \in i .. last - 1
        BY <1>0, <2>5, <3>4
      <4>2. f[k] = w[k] /\ w[k] = IF k = i THEN n ELSE Overflows(t[k - 1], w[k - 1])
        BY <2>6, <2>7, <4>1
      <4>3. h[k] = IF k = i THEN n ELSE Overflows(t[k - 1], f[k - 1])
        OBVIOUS
      <4> QED BY <3>2, <4>2, <4>3
    <3> QED BY <3>3, <3>4
  <2>9. f = h
    BY <2>8
  <2>10. On(f, last)
    BY <2>9
  <2> QED BY <2>1, <2>10 DEF last
<1>2. \E f : On(f, LastTimer)
  <2>1. LastTimer - i \in Nat /\ i + (LastTimer - i) = LastTimer
    BY <1>0
  <2>2. \E f : On(f, i + (LastTimer - i))
    BY <1>1, <2>1
  <2> QED BY <2>1, <2>2
<1> DEFINE Body(f) == [k \in i .. LastTimer |->
                         IF k = i THEN n ELSE Overflows(t[k - 1], f[k - 1])]
<1>3. \E f : f = Body(f)
  BY <1>2
<1>4. PassedFrom(t, i, n) = CHOOSE f : f = Body(f)
  BY DEF PassedFrom
<1> HIDE DEF Body
<1>5. PassedFrom(t, i, n) = Body(PassedFrom(t, i, n))
  BY <1>3, <1>4
<1> QED BY <1>5 DEF Body

LEMMA PeriodsFromFacts ==
  ASSUME NEW t, NEW i \in Timers
  PROVE  LET f == PeriodsFrom(t, i) IN
         f = [k \in i .. LastTimer |-> IF k = i THEN t[i].period ELSE Wrap(t[k].max * f[k - 1])]
<1> DEFINE On(f, last) == f = [k \in i .. last |->
                                 IF k = i THEN t[i].period ELSE Wrap(t[k].max * f[k - 1])]
           Bad == {d \in Nat : ~ \E f : On(f, i + d)}
<1>0. i \in Nat /\ LastTimer \in Nat /\ i <= LastTimer
  BY TimersAssumption DEF Timers
<1>1. Bad = {}
  <2> SUFFICES ASSUME Bad # {} PROVE FALSE
    OBVIOUS
  <2>1. PICK d \in Bad : \A b \in Bad : d <= b
    BY HasMinimum
  <2>2. d # 0
    <3>1. On([k \in i .. i |-> t[i].period], i + 0)
      BY <1>0
    <3> QED BY <3>1, <2>1
  <2>3. d - 1 \in Nat /\ d - 1 \notin Bad
    BY <2>1, <2>2
  <2>4. PICK w : On(w, i + (d - 1))
    BY <2>3
  <2> DEFINE last == i + d
             f == [k \in i .. last |-> IF k = last THEN Wrap(t[k].max * w[k - 1]) ELSE w[k]]
             h == [k \in i .. last |-> IF k = i THEN t[i].period ELSE Wrap(t[k].max * f[k - 1])]
  <2>5. last \in Nat /\ last > i /\ i + (d - 1) = last - 1
    BY <1>0, <2>2, <2>3
  <2>6. \A k \in i .. last - 1 : w[k] = IF k = i THEN t[i].period ELSE Wrap(t[k].max * w[k - 1])
    BY <2>4, <2>5
  <2> HIDE DEF last
  <2>7. \A k \in i .. last - 1 : f[k] = w[k]
    BY <1>0, <2>5
  <2>8. \A k \in i .. last : f[k] = h[k]
    <3> SUFFICES ASSUME NEW k \in i .. last PROVE f[k] = h[k]
      OBVIOUS
    <3>1. k # i => k - 1 \in i .. last - 1
      BY <1>0, <2>5
    <3>2. k # i => f[k - 1] = w[k - 1]
      BY <2>7, <3>1
    <3>3. CASE k = last
      BY <1>0, <2>5, <3>2, <3>3
    <3>4. CASE k # last
      <4>1. k \in i .. last - 1
        BY <1>0, <2>5, <3>4
      <4>2. f[k] = w[k] /\ w[k] = IF k = i THEN t[i].period ELSE Wrap(t[k].max * w[k - 1])
        BY <2>6, <2>7, <4>1
      <4>3. h[k] = IF k = i THEN t[i].period ELSE Wrap(t[k].max * f[k - 1])
        OBVIOUS
      <4> QED BY <3>2, <4>2, <4>3
    <3> QED BY <3>3, <3>4
  <2>9. f = h
    BY <2>8
  <2>10. On(f, last)
    BY <2>9
  <2> QED BY <2>1, <2>10 DEF last
<1>2. \E f : On(f, LastTimer)
  <2>1. LastTimer - i \in Nat /\ i + (LastTimer - i) = LastTimer
    BY <1>0
  <2>2. \E f : On(f, i + (LastTimer - i))
    BY <1>1, <2>1
  <2> QED BY <2>1, <2>2
<1> DEFINE Body(f) == [k \in i .. LastTimer |->
                         IF k = i THEN t[i].period ELSE Wrap(t[k].max * f[k - 1])]
<1>3. \E f : f = Body(f)
  BY <1>2
<1>4. PeriodsFrom(t, i) = CHOOSE f : f = Body(f)
  BY DEF PeriodsFrom
<1> HIDE DEF Body
<1>5. PeriodsFrom(t, i) = Body(PeriodsFrom(t, i))
  BY <1>3, <1>4
<1> QED BY <1>5 DEF Body

LEMMA LeftsFromFacts ==
  ASSUME NEW t, NEW i \in Timers
  PROVE  LET f == LeftsFrom(t, i) IN
         f = [k \in i .. LastTimer |->
                IF k = i THEN t[i].left
                ELSE Wrap(f[k - 1] + (t[k].max - t[k].counter - 1) * PeriodsFrom(t, i)[k - 1])]
<1> DEFINE next(k, v) == Wrap(v + (t[k].max - t[k].counter - 1) * PeriodsFrom(t, i)[k - 1])
           On(f, last) == f = [k \in i .. last |->
                                 IF k = i THEN t[i].left ELSE next(k, f[k - 1])]
           Bad == {d \in Nat : ~ \E f : On(f, i + d)}
<1>0. i \in Nat /\ LastTimer \in Nat /\ i <= LastTimer
  BY TimersAssumption DEF Timers
<1>1. Bad = {}
  <2> SUFFICES ASSUME Bad # {} PROVE FALSE
    OBVIOUS
  <2>1. PICK d \in Bad : \A b \in Bad : d <= b
    BY HasMinimum
  <2>2. d # 0
    <3>1. On([k \in i .. i |-> t[i].left], i + 0)
      BY <1>0
    <3> QED BY <3>1, <2>1
  <2>3. d - 1 \in Nat /\ d - 1 \notin Bad
    BY <2>1, <2>2
  <2>4. PICK w : On(w, i + (d - 1))
    BY <2>3
  <2> DEFINE last == i + d
             f == [k \in i .. last |-> IF k = last THEN next(k, w[k - 1]) ELSE w[k]]
             h == [k \in i .. last |-> IF k = i THEN t[i].left ELSE next(k, f[k - 1])]
  <2>5. last \in Nat /\ last > i /\ i + (d - 1) = last - 1
    BY <1>0, <2>2, <2>3
  <2>6. \A k \in i .. last - 1 : w[k] = IF k = i THEN t[i].left ELSE next(k, w[k - 1])
    BY <2>4, <2>5
  <2> HIDE DEF last
  <2>7. \A k \in i .. last - 1 : f[k] = w[k]
    BY <1>0, <2>5
  <2>8. \A k \in i .. last : f[k] = h[k]
    <3> SUFFICES ASSUME NEW k \in i .. last PROVE f[k] = h[k]
      OBVIOUS
    <3>1. k # i => k - 1 \in i .. last - 1
      BY <1>0, <2>5
    <3>2. k # i => f[k - 1] = w[k - 1]
      BY <2>7, <3>1
    <3>3. CASE k = last
      BY <1>0, <2>5, <3>2, <3>3
    <3>4. CASE k # last
      <4>1. k \in i .. last - 1
        BY <1>0, <2>5, <3>4
      <4>2. f[k] = w[k] /\ w[k] = IF k = i THEN t[i].left ELSE next(k, w[k - 1])
        BY <2>6, <2>7, <4>1
      <4>3. h[k] = IF k = i THEN t[i].left ELSE next(k, f[k - 1])
        OBVIOUS
      <4> QED BY <3>2, <4>2, <4>3
    <3> QED BY <3>3, <3>4
  <2>9. f = h
    BY <2>8
  <2>10. On(f, last)
    BY <2>9
  <2> QED BY <2>1, <2>10 DEF last
<1>2. \E f : On(f, LastTimer)
  <2>1. LastTimer - i \in Nat /\ i + (LastTimer - i) = LastTimer
    BY <1>0
  <2>2. \E f : On(f, i + (LastTimer - i))
    BY <1>1, <2>1
  <2> QED BY <2>1, <2>2
<1> DEFINE Body(f) == [k \in i .. LastTimer |->
                         IF k = i THEN t[i].left ELSE next(k, f[k - 1])]
<1>3. \E f : f = Body(f)
  BY <1>2
<1>4. LeftsFrom(t, i) = CHOOSE f : f = Body(f)
  BY DEF LeftsFrom
<1> HIDE DEF Body
<1>5. LeftsFrom(t, i) = Body(LeftsFrom(t, i))
  BY <1>3, <1>4
<1> QED BY <1>5 DEF Body

\* What the next timer is passed, and gets for its time until overflow.
LEMMA NextFacts ==
  ASSUME NEW t, NEW i \in Timers, NEW n
  PROVE  /\ PassedFrom(t, i, n)[i] = n
         /\ i + 1 \in Timers =>
              /\ PassedFrom(t, i, n)[i + 1] = Overflows(t[i], n)
              /\ LeftsFrom(t, i)[i + 1]
                   = Wrap(t[i].left + (t[i + 1].max - t[i + 1].counter - 1) * t[i].period)
<1>1. i \in Nat /\ i \in i .. LastTimer /\ (i + 1 \in Timers => i + 1 \in i .. LastTimer)
      /\ i + 1 # i /\ (i + 1) - 1 = i
  BY TimersAssumption DEF Timers
<1>2. /\ PassedFrom(t, i, n)[i] = n
      /\ i + 1 \in Timers => PassedFrom(t, i, n)[i + 1] = Overflows(t[i], n)
  <2> DEFINE f == PassedFrom(t, i, n)
  <2>1. f = [k \in i .. LastTimer |-> IF k = i THEN n ELSE Overflows(t[k - 1], f[k - 1])]
    BY PassedFromFacts
  <2> HIDE DEF f
  <2>2. f[i] = n
    BY <1>1, <2>1
  <2>3. i + 1 \in Timers => f[i + 1] = Overflows(t[(i + 1) - 1], f[(i + 1) - 1])
    BY <1>1, <2>1
  <2> QED BY <1>1, <2>2, <2>3 DEF f
<1>3. PeriodsFrom(t, i)[i] = t[i].period
  <2> DEFINE f == PeriodsFrom(t, i)
  <2>1. f = [k \in i .. LastTimer |-> IF k = i THEN t[i].period ELSE Wrap(t[k].max * f[k - 1])]
    BY PeriodsFromFacts
  <2> HIDE DEF f
  <2>2. f[i] = t[i].period
    BY <1>1, <2>1
  <2> QED BY <2>2 DEF f
<1>4. i + 1 \in Timers =>
        LeftsFrom(t, i)[i + 1]
          = Wrap(t[i].left + (t[i + 1].max - t[i + 1].counter - 1) * t[i].period)
  <2> DEFINE f == LeftsFrom(t, i)
             p == PeriodsFrom(t, i)
  <2>1. f = [k \in i .. LastTimer |->
               IF k = i THEN t[i].left
               ELSE Wrap(f[k - 1] + (t[k].max - t[k].counter - 1) * p[k - 1])]
    BY LeftsFromFacts
  <2>2. p[i] = t[i].period
    BY <1>3
  <2> HIDE DEF f, p
  <2>3. f[i] = t[i].left
    BY <1>1, <2>1
  <2>4. i + 1 \in Timers =>
          f[i + 1] = Wrap(f[(i + 1) - 1]
                           + (t[i + 1].max - t[i + 1].counter - 1) * p[(i + 1) - 1])
    BY <1>1, <2>1
  <2> QED BY <1>1, <2>2, <2>3, <2>4 DEF f
<1> QED BY <1>2, <1>4

LEMMA TimersFacts ==
  /\ Timers \subseteq Nat /\ \A i \in Timers : 0 .. i \subseteq Timers
  /\ \A i \in Timers : i # 0 => i - 1 \in Timers
BY TimersAssumption DEF Timers

\* The beginning of the chain of i is a timer that does not count overflows, and those
\* after it up to i do.
LEMMA RootFacts ==
  ASSUME NEW t, NEW i \in Timers
  PROVE  /\ RootOf(t, i) \in 0 .. i /\ RootOf(t, i) \in Timers
         /\ ~ Counted(t[RootOf(t, i)], RootOf(t, i))
         /\ \A k \in RootOf(t, i) + 1 .. i : Counted(t[k], k)
<1> DEFINE S == {k \in 0 .. i : k = 0 \/ ~ t[k].count_up}
           D == {d \in 0 .. i : i - d \in S}
<1>1. i \in Nat /\ 0 .. i \subseteq Timers
  BY TimersFacts
<1>2. D \in SUBSET Nat /\ i \in D
  BY <1>1
<1>3. Min(D) \in D /\ \A d \in D : Min(D) <= d
  BY <1>2, HasMinimum
<1> DEFINE m == i - Min(D)
<1>4. m \in S /\ \A k \in S : m >= k
  <2>1. m \in S
    BY <1>3
  <2>2. ASSUME NEW k \in S
        PROVE  m >= k
    <3>1. i - k \in D
      BY <1>1
    <3> QED BY <1>1, <1>3, <3>1
  <2> QED BY <2>1, <2>2
<1> HIDE DEF m, D
<1>5. Max(S) \in S /\ \A k \in S : Max(S) >= k
  BY <1>4 DEF Max
<1>6. ASSUME NEW k \in Max(S) + 1 .. i
      PROVE  Counted(t[k], k)
  <2>1. k \in 0 .. i /\ k > 0 /\ ~ (Max(S) >= k)
    BY <1>1, <1>5
  <2>2. k \notin S
    BY <1>5, <2>1
  <2> QED BY <2>1, <2>2 DEF Counted
<1>7. ~ Counted(t[Max(S)], Max(S)) /\ Max(S) \in 0 .. i
  BY <1>5 DEF Counted
<1> QED BY <1>1, <1>6, <1>7 DEF RootOf

\* A timer that counts the overflows of the previous one belongs to its chain.
LEMMA RootOfNext ==
  ASSUME NEW t, NEW i \in Timers, i + 1 \in Timers, Counted(t[i + 1], i + 1),
         ~ Counted(t[i], i)
  PROVE  RootOf(t, i + 1) = i /\ RootOf(t, i) = i
<1>1. i \in Nat
  BY TimersFacts
<1>2. ASSUME NEW j \in {i, i + 1}
      PROVE  RootOf(t, j) = i
  <2> DEFINE root == RootOf(t, j)
  <2>1. /\ root \in 0 .. j /\ ~ Counted(t[root], root)
        /\ \A k \in root + 1 .. j : Counted(t[k], k)
    BY RootFacts
  <2> HIDE DEF root
  <2>2. root # i + 1
    BY <2>1
  <2>3. ~ (root < i)
    BY <1>1, <2>1
  <2> QED BY <1>1, <2>1, <2>2, <2>3 DEF root
<1> QED BY <1>2

\* Whoever counts is in a chain whose beginning counts.
LEMMA ChainCounts ==
  ASSUME NEW t, Chained(t), NEW i \in Timers, t[i].is_counting
  PROVE  \A k \in RootOf(t, i) .. i : t[k].is_counting /\ t[k].enable
<1> DEFINE root == RootOf(t, i)
           S == {d \in Nat : i - d \in root .. i /\ ~ t[i - d].is_counting}
<1>1. /\ i \in Nat /\ root \in 0 .. i /\ 0 .. i \subseteq Timers
      /\ \A k \in root + 1 .. i : Counted(t[k], k)
  BY RootFacts, TimersFacts
<1> HIDE DEF root
<1>2. S = {}
  <2> SUFFICES ASSUME S # {} PROVE FALSE
    OBVIOUS
  <2>1. Min(S) \in S /\ \A d \in S : Min(S) <= d
    BY HasMinimum
  <2> DEFINE d == Min(S)
             k == i - d
  <2> HIDE DEF d
  <2>2. d \in Nat /\ k \in root .. i /\ ~ t[k].is_counting /\ \A b \in S : d <= b
    BY <2>1 DEF d
  <2>3. d # 0
    BY <1>1, <2>2
  <2>4. d - 1 \in Nat /\ d - 1 \notin S /\ i - (d - 1) = k + 1
    BY <1>1, <2>2, <2>3
  <2>5. k + 1 \in root + 1 .. i
    BY <1>1, <2>2, <2>3
  <2>6. t[k + 1].is_counting /\ Counted(t[k + 1], k + 1)
    BY <1>1, <2>4, <2>5
  <2>7. k + 1 \in Timers /\ (k + 1) - 1 = k
    BY <1>1, <2>2, <2>5
  <2> QED BY <2>2, <2>6, <2>7 DEF Chained
<1>3. ASSUME NEW k \in root .. i
      PROVE  t[k].is_counting /\ t[k].enable
  <2>1. i - k \in Nat /\ i - (i - k) = k
    BY <1>1
  <2>2. t[k].is_counting
    BY <1>2, <2>1
  <2> QED BY <1>1, <2>2 DEF Chained
<1> QED BY <1>3 DEF root

\* An exact timer is in the chain of no timer but the one before it.
LEMMA ExactApart ==
  ASSUME NEW t, NEW e, NEW k \in Timers, ExactAt(t, e, k), e[k] # NotExact,
         NEW i \in Timers, i # k, ~ (k = i + 1 /\ Counted(t[k], k))
  PROVE  /\ ~ InChain(t, i, k)
         /\ Counted(t[k], k) => k - 1 \in Timers /\ k - 1 # i /\ ~ InChain(t, i, k - 1)
<1>1. k \in Nat /\ i \in Nat
  BY TimersFacts
<1>2. CASE ~ Counted(t[k], k)
  BY <1>1, <1>2 DEF Counted, InChain
<1>3. CASE Counted(t[k], k)
  <2>1. k # 0 /\ k - 1 \in Timers /\ k - 1 # i
    BY <1>1, <1>3, TimersFacts DEF Counted
  <2>2. ~ t[k - 1].enable \/ ~ Counted(t[k - 1], k - 1)
    BY <1>3 DEF ExactAt, Follows
  <2>3. ASSUME k > i
        PROVE  k - 1 \in i + 1 .. k - 1 /\ k - 1 \in i + 1 .. k /\ k - 1 > 0
    BY <1>1, <2>1, <2>3
  <2>4. ASSUME InChain(t, i, k) \/ InChain(t, i, k - 1)
        PROVE  FALSE
    <3>1. k > i
      BY <1>1, <2>4 DEF InChain
    <3>2. t[k - 1].enable /\ t[k - 1].count_up
      BY <2>3, <2>4, <3>1 DEF InChain
    <3> QED BY <2>2, <2>3, <3>1, <3>2 DEF Counted
  <2> QED BY <1>1, <2>1, <2>4
<1> QED BY <1>2, <1>3

LEMMA ExactNext ==
  ASSUME NEW t, NEW e, NEW i \in Timers, i + 1 \in Timers, ExactAt(t, e, i + 1),
         e[i + 1] # NotExact, Counted(t[i + 1], i + 1)
  PROVE  InChain(t, i, i + 1)
<1>1. i \in Nat /\ \A j \in i + 1 .. i + 1 : j = i + 1
  BY TimersFacts
<1>2. t[i + 1].enable /\ t[i + 1].count_up
  BY DEF ExactAt, Follows, Fresh
<1> QED BY <1>1, <1>2 DEF InChain

\* What does not touch an exact timer, nor the one whose overflows it counts, keeps it.
LEMMA ExactKept ==
  ASSUME NEW t, NEW e, NEW k \in Timers, ExactAt(t, e, k),
         NEW u, u[k] = t[k], NEW f, f[k] = e[k],
         Counted(t[k], k) => u[k - 1] = t[k - 1] /\ f[k - 1] = e[k - 1]
  PROVE  ExactAt(u, f, k)
<1>1. Counted(u[k], k) <=> Counted(t[k], k)
  BY DEF Counted
<1>2. CASE Counted(t[k], k)
  BY <1>1, <1>2 DEF ExactAt, Follows
<1>3. CASE ~ Counted(t[k], k)
  BY <1>1, <1>3 DEF ExactAt
<1> QED BY <1>2, <1>3

\* The registers of the timers, and whether they count.
SameRegisters(r, s) ==
  /\ s.enable = r.enable /\ s.count_up = r.count_up /\ s.prescaler = r.prescaler
  /\ s.reload = r.reload
SameCounting(r, s) == SameRegisters(r, s) /\ s.is_counting = r.is_counting

LEMMA SameChain ==
  ASSUME NEW t, NEW u, NEW i \in Timers, NEW k \in Timers,
         \A j \in Timers : j > i => SameRegisters(t[j], u[j])
  PROVE  InChain(u, i, k) <=> InChain(t, i, k)
<1>1. \A j \in i + 1 .. k : j \in Timers /\ j > i
  BY TimersFacts
<1> QED BY <1>1 DEF InChain, SameRegisters

LEMMA SameChained ==
  ASSUME NEW t, NEW u, Chained(t), \A k \in Timers : SameCounting(t[k], u[k])
  PROVE  Chained(u)
<1> SUFFICES ASSUME NEW k \in Timers, u[k].is_counting
             PROVE  u[k].enable /\ (Counted(u[k], k) => u[k - 1].is_counting)
  BY DEF Chained
<1>1. t[k].is_counting /\ t[k].enable /\ (Counted(t[k], k) => t[k - 1].is_counting)
  BY DEF Chained, SameCounting, SameRegisters
<1>2. Counted(u[k], k) => Counted(t[k], k) /\ k - 1 \in Timers
  BY TimersFacts DEF Counted, SameCounting, SameRegisters
<1> QED BY <1>1, <1>2 DEF SameCounting, SameRegisters

LEMMA AddedFacts ==
  ASSUME NEW r, DOMAIN r = Fields, NEW n
  PROVE  LET u == Added(r, n) IN
         /\ DOMAIN u = Fields /\ SameCounting(r, u)
         /\ u.max = r.max /\ u.period = r.period /\ u.refreshed = r.refreshed
<1>1. CASE n < r.left
  BY <1>1 DEF Added, Fields, SameCounting, SameRegisters
<1>2. CASE ~ (n < r.left)
  BY <1>2 DEF Added, Fields, SameCounting, SameRegisters
<1> QED BY <1>1, <1>2

LEMMA AddToCounterFacts ==
  ASSUME NEW t, Shaped(t), NEW i \in Timers, NEW n
  PROVE  LET u == AddToCounter(t, i, n) IN
         /\ Shaped(u) /\ \A k \in Timers : SameCounting(t[k], u[k])
         /\ u[i] = Added(t[i], n)
         /\ \A k \in Timers : k # i /\ ~ InChain(t, i, k) => u[k] = t[k]
<1> DEFINE passed == PassedFrom(t, i, n)
           in(k) == InChain(t, i, k) /\ \A j \in i + 1 .. k : passed[j] > 0
           next(k) == [Added(t[k], passed[k]) EXCEPT !.refreshed = t[i].refreshed]
           u == AddToCounter(t, i, n)
<1>1. /\ DOMAIN u = Timers
      /\ \A k \in Timers : u[k] = IF k = i THEN Added(t[k], n)
                                 ELSE IF in(k) THEN next(k) ELSE t[k]
  BY DEF AddToCounter
<1> HIDE DEF passed, u
<1>2. \A k \in Timers :
        /\ DOMAIN t[k] = Fields /\ SameCounting(t[k], t[k])
        /\ DOMAIN Added(t[k], n) = Fields /\ SameCounting(t[k], Added(t[k], n))
        /\ DOMAIN next(k) = Fields /\ SameCounting(t[k], next(k))
  <2> SUFFICES ASSUME NEW k \in Timers
               PROVE  /\ DOMAIN t[k] = Fields /\ SameCounting(t[k], t[k])
                      /\ DOMAIN Added(t[k], n) = Fields /\ SameCounting(t[k], Added(t[k], n))
                      /\ DOMAIN next(k) = Fields /\ SameCounting(t[k], next(k))
    OBVIOUS
  <2>1. DOMAIN t[k] = Fields /\ SameCounting(t[k], t[k])
    BY DEF Shaped, SameCounting, SameRegisters
  <2>2. \A m : DOMAIN Added(t[k], m) = Fields /\ SameCounting(t[k], Added(t[k], m))
    BY <2>1, AddedFacts
  <2> DEFINE added == Added(t[k], passed[k])
  <2>3. DOMAIN added = Fields /\ SameCounting(t[k], added)
    BY <2>2
  <2> HIDE DEF added
  <2>4. DOMAIN [added EXCEPT !.refreshed = t[i].refreshed] = Fields
        /\ SameCounting(t[k], [added EXCEPT !.refreshed = t[i].refreshed])
    BY <2>3 DEF Fields, SameCounting, SameRegisters
  <2> QED BY <2>1, <2>2, <2>4 DEF added
<1>3. Shaped(u) /\ \A k \in Timers : SameCounting(t[k], u[k])
  <2> HIDE DEF in, next
  <2> QED BY <1>1, <1>2 DEF Shaped
<1>4. \A k \in Timers : k # i /\ ~ InChain(t, i, k) => u[k] = t[k]
  BY <1>1
<1>5. u[i] = Added(t[i], n)
  BY <1>1
<1> QED BY <1>3, <1>4, <1>5 DEF u

LEMMA AddToCounterNext ==
  ASSUME NEW t, NEW i \in Timers, NEW n, i + 1 \in Timers, InChain(t, i, i + 1),
         NEW o, o = Overflows(t[i], n)
  PROVE  AddToCounter(t, i, n)[i + 1]
           = IF o > 0 THEN [Added(t[i + 1], o) EXCEPT !.refreshed = t[i].refreshed]
             ELSE t[i + 1]
<1> DEFINE passed == PassedFrom(t, i, n)
           in == InChain(t, i, i + 1) /\ \A j \in i + 1 .. i + 1 : passed[j] > 0
<1>1. AddToCounter(t, i, n)[i + 1]
        = IF i + 1 = i THEN Added(t[i + 1], n)
          ELSE IF in
               THEN [Added(t[i + 1], passed[i + 1]) EXCEPT !.refreshed = t[i].refreshed]
               ELSE t[i + 1]
  BY DEF AddToCounter
<1>2. i \in Nat /\ i + 1 # i /\ \A j \in i + 1 .. i + 1 : j = i + 1
  BY TimersFacts
<1>3. passed[i + 1] = o
  BY NextFacts
<1>4. in <=> o > 0
  BY <1>2, <1>3
<1> HIDE DEF in
<1> QED BY <1>1, <1>2, <1>3, <1>4

\* How often a counter has gone round after n more cycles.
LEMMA DivAdd ==
  ASSUME NEW x \in Nat, NEW n \in Nat, NEW m \in Nat \ {0}
  PROVE  (x + n) \div m
           = (x \div m) + (IF n < m - (x % m) THEN 0 ELSE 1 + ((n - (m - (x % m))) \div m))
<1> DEFINE q == x \div m
           r == x % m
<1>1. q \in Int /\ r \in 0 .. m - 1 /\ x = m * q + r
  BY Division
<1> HIDE DEF q, r
<1>2. ASSUME n < m - r
      PROVE  (x + n) \div m = q
  <2>1. r + n \in 0 .. m - 1 /\ x + n = m * q + (r + n)
    BY <1>1, <1>2
  <2>2. (m * q + (r + n)) \div m = q
    BY <1>1, <2>1, OneDivision
  <2> QED BY <2>1, <2>2
<1>3. (x + n) \div m = q + (1 + ((n - (m - r)) \div m))
  <2> DEFINE y == n - (m - r)
             p == y \div m
             s == y % m
  <2>1. y \in Int
    BY <1>1
  <2> HIDE DEF y
  <2>2. p \in Int /\ s \in 0 .. m - 1 /\ y = m * p + s
    BY <2>1, Division
  <2> HIDE DEF p, s
  <2>3. x + n = m * (q + (1 + p)) + s
    <3>1. x + n = m * q + y + m
      BY <1>1, <2>1 DEF y
    <3>2. m * (q + (1 + p)) = m * p + m * q + m
      BY <1>1, <2>2
    <3>3. q + (1 + p) \in Int /\ m * p \in Int /\ m * q \in Int /\ y = m * p + s
      BY <1>1, <2>2
    <3> QED BY <2>2, <3>1, <3>2, <3>3
  <2>4. (m * (q + (1 + p)) + s) \div m = q + (1 + p)
    <3>1. q + (1 + p) \in Int
      BY <1>1, <2>2
    <3> QED BY <2>2, <3>1, OneDivision
  <2> QED BY <2>3, <2>4 DEF p, y
<1>4. (x + n) \div m = q + (IF n < m - r THEN 0 ELSE 1 + ((n - (m - r)) \div m))
  <2>1. CASE n < m - r
    BY <1>1, <1>2, <2>1
  <2>2. CASE ~ (n < m - r)
    BY <1>3, <2>2
  <2> QED BY <2>1, <2>2
<1> QED BY <1>4 DEF q, r

\* What CountsFrom says of the counter, in numbers.
LEMMA CountsFromFacts ==
  ASSUME NEW r, NEW from, CountsFrom(r, from)
  PROVE  /\ r.refreshed - from \in Nat /\ r.max \in Nat \ {0} /\ r.max < U64
         /\ r.counter = (r.refreshed - from) % r.max /\ r.counter \in 0 .. r.max - 1
         /\ r.left = r.max - r.counter /\ r.left \in 1 .. r.max
         /\ Laps(r, from) \in Nat
<1> DEFINE x == r.refreshed - from
           m == r.max
<1>1. m \in Nat \ {0} /\ m < U64
  BY MaxFacts DEF CountsFrom
<1>2. x \in Nat /\ r.counter = x % m /\ r.left = m - r.counter
  BY DEF CountsFrom
<1> HIDE DEF x, m
<1>3. x % m \in 0 .. m - 1 /\ x \div m \in Int /\ x = m * (x \div m) + (x % m)
  <2>1. x \in Int
    BY <1>2
  <2> QED BY <1>1, <2>1, Division
<1>4. x \div m \in Nat
  <2> DEFINE q == x \div m
             r1 == x % m
  <2> HIDE DEF q, r1
  <2>1. q \in Int /\ r1 \in 0 .. m - 1 /\ x = m * q + r1
    BY <1>3 DEF q, r1
  <2>2. q <= -1 => m * q <= - m
    BY <1>1, <2>1
  <2>3. ~ (q <= -1)
    BY <1>1, <1>2, <2>1, <2>2
  <2>4. q \in Nat
    BY <2>1, <2>3
  <2> QED BY <2>4 DEF q
<1> QED BY <1>1, <1>2, <1>3, <1>4 DEF x, m, Laps

\* Added counts on, and overflows once for each time that the counter goes round.
LEMMA AddedCounts ==
  ASSUME NEW r, DOMAIN r = Fields, NEW from, CountsFrom(r, from),
         NEW time \in Nat, r.refreshed <= time
  PROVE  LET s == [r EXCEPT !.refreshed = time]
             n == time - r.refreshed
             u == Added(s, n)
         IN /\ CountsFrom(u, from) /\ u.refreshed = time
            /\ Overflows(s, n) \in Nat
            /\ Laps(u, from) = Laps(r, from) + Overflows(s, n)
<1> DEFINE x == r.refreshed - from
           n == time - r.refreshed
           m == r.max
           s == [r EXCEPT !.refreshed = time]
           u == Added(s, n)
           o == Overflows(s, n)
<1>1. /\ x \in Nat /\ n \in Nat /\ x + n = time - from /\ from <= time
      /\ m \in Nat \ {0} /\ m < U64 /\ U64 \in Nat \ {0}
      /\ r.counter = x % m /\ r.left = m - (x % m) /\ r.counter \in 0 .. m - 1
      /\ r.left \in 1 .. m
  <2>1. /\ x \in Nat /\ m \in Nat \ {0} /\ m < U64
        /\ r.counter = x % m /\ r.left = m - r.counter /\ r.counter \in 0 .. m - 1
        /\ r.left \in 1 .. m
    BY CountsFromFacts
  <2>2. n \in Nat /\ x + n = time - from /\ from <= time
    BY DEF CountsFrom
  <2> HIDE DEF x, m
  <2> QED BY <2>1, <2>2, TimersAssumption
<1>2. /\ DOMAIN s = Fields /\ s.refreshed = time /\ SameRegisters(r, s)
      /\ s.base = r.base /\ s.max = m /\ s.period = r.period
      /\ s.counter = r.counter /\ s.left = r.left
  BY DEF Fields, SameRegisters
<1> HIDE DEF x, n, m, s
<1>3. /\ SameRegisters(r, u) /\ u.max = m /\ u.period = r.period
      /\ u.refreshed = time /\ u.base = r.reload
      /\ u.counter = (x + n) % m /\ u.left = m - u.counter
  <2>1. r.base = r.reload /\ s.reload = r.reload
    BY <1>2 DEF CountsFrom, SameRegisters
  <2>2. CASE n < s.left
    <3> DEFINE counter == Wrap(s.counter + n)
               left == s.left - n
    <3>1. u = [s EXCEPT !.counter = counter, !.left = left]
      BY <2>2 DEF Added
    <3>2. (x + n) % m = (x % m) + n
      <4>1. n < m - (x % m)
        BY <1>1, <1>2, <2>2
      <4>2. x \in Nat /\ n \in Nat /\ m \in Nat \ {0}
        BY <1>1
      <4> QED BY <4>1, <4>2, ModAdd
    <3>3. counter = (x + n) % m /\ left = m - counter
      <4>1. s.counter + n \in 0 .. m - 1
        BY <1>1, <1>2, <2>2
      <4>2. Wrap(s.counter + n) = s.counter + n
        BY <1>1, <4>1 DEF Wrap
      <4> QED BY <1>1, <1>2, <3>2, <4>2
    <3> HIDE DEF counter, left
    <3> QED BY <1>2, <2>1, <3>1, <3>3 DEF Fields, SameRegisters
  <2>3. CASE ~ (n < s.left)
    <3> DEFINE counter == (n - s.left) % s.max
               left == s.max - counter
    <3>1. u = [s EXCEPT !.counter = counter, !.base = s.reload, !.left = left]
      BY <2>3 DEF Added
    <3>2. counter = (x + n) % m /\ left = m - counter
      <4>1. (n - (m - (x % m))) % m = (x + n) % m
        BY <1>1, ModAdd
      <4>2. counter = (n - (m - (x % m))) % m
        BY <1>1, <1>2
      <4> QED BY <1>2, <4>1, <4>2
    <3> HIDE DEF counter, left
    <3> QED BY <1>2, <2>1, <3>1, <3>2 DEF Fields, SameRegisters
  <2> QED BY <2>2, <2>3
<1>4. CountsFrom(u, from)
  <2>1. u.counter = (u.refreshed - from) % u.max
    BY <1>1, <1>3
  <2>2. u.refreshed \in Nat /\ from <= u.refreshed
    BY <1>1, <1>3
  <2> HIDE DEF u
  <2> QED BY <1>3, <2>1, <2>2 DEF CountsFrom, SameRegisters, m
<1>5. o = IF n < m - (x % m) THEN 0 ELSE 1 + ((n - (m - (x % m))) \div m)
  BY <1>1, <1>2 DEF Overflows
<1>6. (x + n) \div m = (x \div m) + o
  <2> HIDE DEF o
  <2>1. x \in Nat /\ n \in Nat /\ m \in Nat \ {0}
    BY <1>1
  <2>2. (x + n) \div m
           = (x \div m) + (IF n < m - (x % m) THEN 0 ELSE 1 + ((n - (m - (x % m))) \div m))
    BY <2>1, DivAdd
  <2> QED BY <1>5, <2>2
<1>7. Laps(u, from) = (x + n) \div m /\ Laps(r, from) = x \div m
  BY <1>1, <1>3 DEF Laps, x, m
<1>8. o \in Nat
  <2>1. CASE n < m - (x % m)
    BY <1>5, <2>1
  <2>2. CASE ~ (n < m - (x % m))
    <3> DEFINE y == n - (m - (x % m))
    <3>1. y \in Nat
      BY <1>1, <2>2
    <3> HIDE DEF y
    <3>2. y \div m \in Nat
      BY <1>1, <3>1
    <3> QED BY <1>5, <2>2, <3>2 DEF y
  <2> QED BY <2>1, <2>2
<1> QED BY <1>3, <1>4, <1>6, <1>7, <1>8 DEF u, s, n, o

\* The next timer counts what it is passed.
LEMMA NextCounts ==
  ASSUME NEW r, DOMAIN r = Fields, Fresh(r), NEW c, CountsLaps(r, c), Waits(r, c),
         NEW p \in Prescalers, NEW o \in Nat, o > 0, NEW time
  PROVE  LET w == [Added(r, o) EXCEPT !.refreshed = time] IN
         Fresh(w) /\ CountsLaps(w, c + o) /\ Waits(w, c + o)
<1> DEFINE v == Added(r, o)
           w == [v EXCEPT !.refreshed = time]
<1>1. /\ CounterMax \in Nat /\ r.reload \in 0 .. CounterMax - 1 /\ r.max = CounterMax - r.reload
      /\ r.max \in Nat /\ c \in Nat /\ c + o \in Nat
  BY TimersAssumption DEF Fresh, CountsLaps
<1>2. r.max < U64 /\ U64 \in Nat
  <2>1. p \in Nat \ {0} /\ (CounterMax - r.reload) * p < U64 /\ U64 \in Nat
    BY <1>1, MaxFacts, TimersAssumption
  <2>2. r.max <= r.max * p
    BY <1>1, <2>1
  <2>3. r.max * p = (CounterMax - r.reload) * p /\ r.max * p \in Int
    BY <1>1, <2>1
  <2> QED BY <1>1, <2>1, <2>2, <2>3
<1>3. DOMAIN v = Fields /\ SameCounting(r, v) /\ v.max = r.max
  BY AddedFacts
<1>4. v.base = r.reload
  <2>1. r.base = r.reload
    BY DEF Fresh
  <2>2. CASE o < r.left
    BY <2>1, <2>2 DEF Added, Fields
  <2>3. CASE ~ (o < r.left)
    BY <2>3 DEF Added, Fields
  <2> QED BY <2>2, <2>3
<1>5. ASSUME c + o < r.max
      PROVE  v.counter = c + o /\ v.left \in Nat /\ v.left >= r.max - (c + o)
  <2>1. r.counter = c /\ r.left \in Nat /\ r.left >= r.max - c
    BY <1>1, <1>5 DEF CountsLaps, Waits
  <2>2. o < r.left
    BY <1>1, <1>5, <2>1
  <2> DEFINE counter == Wrap(r.counter + o)
             left == r.left - o
  <2>3. v = [r EXCEPT !.counter = counter, !.left = left]
    BY <2>2 DEF Added
  <2>4. counter = c + o
    BY <1>1, <1>2, <1>5, <2>1 DEF Wrap
  <2>5. left \in Nat /\ left >= r.max - (c + o)
    BY <1>1, <1>5, <2>1, <2>2
  <2> HIDE DEF counter, left
  <2> QED BY <2>3, <2>4, <2>5 DEF Fields
<1> HIDE DEF v
<1>6. /\ SameCounting(r, w) /\ w.max = r.max /\ w.base = r.reload
      /\ w.counter = v.counter /\ w.left = v.left
  BY <1>3, <1>4 DEF Fields, SameCounting, SameRegisters
<1>7. Fresh(w) /\ CountsLaps(w, c + o) /\ Waits(w, c + o)
  <2> HIDE DEF w
  <2> QED BY <1>1, <1>5, <1>6 DEF Fresh, CountsLaps, Waits, SameCounting, SameRegisters
<1> QED BY <1>7 DEF v, w

\* A refresh touches the chain only.
LEMMA RefreshedFacts ==
  ASSUME NEW t, Shaped(t), NEW i \in Timers
  PROVE  LET u == Refreshed(t, i)
             root == RootOf(t, i)
         IN /\ Shaped(u) /\ \A k \in Timers : SameCounting(t[k], u[k])
            /\ \A k \in Timers : k # root /\ ~ InChain(t, root, k) => u[k] = t[k]
<1> DEFINE root == RootOf(t, i)
           r == [t[root] EXCEPT !.refreshed = now]
           s == [t EXCEPT ![root].refreshed = now]
           n == Wrap(now - t[root].refreshed)
           u == Refreshed(t, i)
<1>1. root \in Timers
  BY RootFacts
<1>2. u = AddToCounter(s, root, n)
  BY DEF Refreshed
<1> HIDE DEF root, n, u
<1>3. DOMAIN t = Timers /\ \A k \in Timers : DOMAIN t[k] = Fields
  BY DEF Shaped
<1>4. DOMAIN r = Fields /\ SameCounting(t[root], r)
  BY <1>1, <1>3 DEF Fields, SameCounting, SameRegisters
<1>5. DOMAIN s = Timers /\ s[root] = r /\ \A k \in Timers : k # root => s[k] = t[k]
  BY <1>1, <1>3
<1> HIDE DEF r, s
<1>6. Shaped(s) /\ \A k \in Timers : SameCounting(t[k], s[k])
  BY <1>3, <1>4, <1>5 DEF Shaped, SameCounting, SameRegisters
<1>7. \A k \in Timers : InChain(s, root, k) <=> InChain(t, root, k)
  BY <1>1, <1>6, SameChain DEF SameCounting
<1>8. /\ Shaped(u) /\ \A k \in Timers : SameCounting(s[k], u[k])
      /\ \A k \in Timers : k # root /\ ~ InChain(s, root, k) => u[k] = s[k]
  BY <1>1, <1>2, <1>6, AddToCounterFacts
<1>9. \A k \in Timers : SameCounting(t[k], u[k])
  BY <1>6, <1>8 DEF SameCounting, SameRegisters
<1>10. \A k \in Timers : k # root /\ ~ InChain(t, root, k) => u[k] = t[k]
  BY <1>5, <1>7, <1>8
<1> QED BY <1>8, <1>9, <1>10 DEF u, root

\* It brings the beginning of the chain to now, and the timer after it to as many
\* overflows.
LEMMA RefreshedCounts ==
  ASSUME NEW t, Shaped(t), NEW i \in Timers, now \in 0 .. MaxTime, NEW from,
         CountsFrom(t[RootOf(t, i)], from), t[RootOf(t, i)].refreshed <= now
  PROVE  LET u == Refreshed(t, i)
             root == RootOf(t, i)
             o == Overflows(t[root], now - t[root].refreshed)
         IN /\ CountsFrom(u[root], from) /\ u[root].refreshed = now
            /\ o \in Nat /\ Laps(u[root], from) = Laps(t[root], from) + o
            /\ root + 1 \in Timers /\ InChain(t, root, root + 1) =>
                 \A c : Fresh(t[root + 1]) /\ CountsLaps(t[root + 1], c) /\ Waits(t[root + 1], c) =>
                   /\ Fresh(u[root + 1])
                   /\ CountsLaps(u[root + 1], c + o) /\ Waits(u[root + 1], c + o)
<1> DEFINE root == RootOf(t, i)
           p == t[root]
           r == [t[root] EXCEPT !.refreshed = now]
           s == [t EXCEPT ![root].refreshed = now]
           n == now - t[root].refreshed
           u == Refreshed(t, i)
           o == Overflows(t[root], n)
           next == root + 1
<1>1. root \in Timers /\ root \in Nat
  BY RootFacts, TimersFacts
<1>2. CountsFrom(p, from) /\ p.refreshed \in Nat /\ p.refreshed <= now /\ p.prescaler \in Prescalers
      /\ now \in Nat
  BY TimersAssumption DEF CountsFrom
<1>3. n \in Nat /\ Wrap(n) = n
  <2>1. n \in 0 .. U64 - 1 /\ U64 \in Nat
    BY <1>2, TimersAssumption
  <2> HIDE DEF n
  <2> QED BY <2>1 DEF Wrap
<1>4. u = AddToCounter(s, root, n)
  BY <1>3 DEF Refreshed
<1> HIDE DEF root, n, u
<1>5. DOMAIN t = Timers /\ \A k \in Timers : DOMAIN t[k] = Fields
  BY DEF Shaped
<1>6. DOMAIN r = Fields /\ SameCounting(p, r) /\ r.left = p.left /\ r.max = p.max
      /\ r.refreshed = now
  BY <1>1, <1>5 DEF Fields, SameCounting, SameRegisters
<1>7. DOMAIN s = Timers /\ s[root] = r /\ \A k \in Timers : k # root => s[k] = t[k]
  BY <1>1, <1>5
<1>8. /\ CountsFrom(Added(r, n), from) /\ Added(r, n).refreshed = now
      /\ Overflows(r, n) \in Nat
      /\ Laps(Added(r, n), from) = Laps(p, from) + Overflows(r, n)
  BY <1>1, <1>2, <1>5, AddedCounts DEF n
<1> HIDE DEF r, s
<1>9. Overflows(r, n) = o
  BY <1>6 DEF Overflows
<1> HIDE DEF o
<1>10. Shaped(s) /\ \A k \in Timers : SameCounting(t[k], s[k])
  BY <1>5, <1>6, <1>7 DEF Shaped, SameCounting, SameRegisters
<1>11. u[root] = Added(r, n)
  BY <1>1, <1>4, <1>7, <1>10, AddToCounterFacts
<1>12. ASSUME next \in Timers, InChain(t, root, next)
       PROVE  u[next] = IF o > 0 THEN [Added(t[next], o) EXCEPT !.refreshed = now] ELSE t[next]
  <2>1. InChain(s, root, next)
    BY <1>1, <1>10, <1>12, SameChain DEF SameCounting
  <2>2. u[root + 1] = IF o > 0 THEN [Added(s[root + 1], o) EXCEPT !.refreshed = s[root].refreshed]
                      ELSE s[root + 1]
    BY <1>1, <1>4, <1>7, <1>9, <1>12, <2>1, AddToCounterNext
  <2>3. next # root /\ s[next] = t[next]
    BY <1>1, <1>7, <1>12
  <2> QED BY <1>6, <1>7, <1>9, <2>2, <2>3
<1>13. ASSUME next \in Timers, InChain(t, root, next), NEW c, Fresh(t[next]),
              CountsLaps(t[next], c), Waits(t[next], c)
       PROVE  Fresh(u[next]) /\ CountsLaps(u[next], c + o) /\ Waits(u[next], c + o)
  <2>1. o \in Nat /\ c \in Nat
    BY <1>8, <1>9, <1>13 DEF CountsLaps
  <2>2. CASE o = 0
    BY <1>12, <1>13, <2>1, <2>2
  <2>3. CASE o > 0
    <3>1. DOMAIN t[next] = Fields
      BY <1>5, <1>13
    <3>2. u[next] = [Added(t[next], o) EXCEPT !.refreshed = now]
      BY <1>12, <1>13, <2>3
    <3> HIDE DEF next, p
    <3> DEFINE w == [Added(t[next], o) EXCEPT !.refreshed = now]
    <3>3. Fresh(w) /\ CountsLaps(w, c + o) /\ Waits(w, c + o)
      BY <1>2, <1>13, <2>1, <2>3, <3>1, NextCounts
    <3> HIDE DEF w
    <3> QED BY <3>2, <3>3 DEF w
  <2> QED BY <2>1, <2>2, <2>3
<1>14. /\ CountsFrom(u[root], from) /\ u[root].refreshed = now
       /\ o \in Nat /\ Laps(u[root], from) = Laps(t[root], from) + o
  BY <1>8, <1>9, <1>11
<1> QED BY <1>13, <1>14 DEF u, o, root, n

LEMMA WrapFacts ==
  ASSUME NEW n \in 0 .. U64 - 1
  PROVE  Wrap(n) = n
BY TimersAssumption DEF Wrap

\* r has not overflowed since its last refresh.
PassesNothing(r) == r.refreshed <= now /\ Overflows(r, now - r.refreshed) = 0

\* Without an overflow the next timer stays.
LEMMA RefreshedNext ==
  ASSUME NEW t, Shaped(t), NEW i \in Timers, now \in 0 .. MaxTime,
         NEW root, root = RootOf(t, i), i = root + 1, t[i].enable, t[i].count_up,
         NEW from, CountsFrom(t[root], from), PassesNothing(t[root])
  PROVE  Refreshed(t, i)[i] = t[i]
<1> DEFINE r == [t[root] EXCEPT !.refreshed = now]
           s == [t EXCEPT ![root].refreshed = now]
           n == now - t[root].refreshed
           u == Refreshed(t, i)
<1>1. root \in Timers /\ root \in Nat /\ i > root
  <2>1. root \in Timers
    BY RootFacts
  <2>2. root \in Nat
    BY <2>1, TimersFacts
  <2> QED BY <2>1, <2>2
<1>2. Wrap(n) = n
  <2>1. n \in 0 .. U64 - 1
    BY TimersAssumption DEF CountsFrom, PassesNothing
  <2> HIDE DEF n
  <2> QED BY <2>1, WrapFacts
<1>3. u = AddToCounter(s, root, n)
  BY <1>2 DEF Refreshed
<1> HIDE DEF n, u
<1>4. DOMAIN t = Timers /\ DOMAIN t[root] = Fields
  BY <1>1 DEF Shaped
<1>5. r.left = t[root].left /\ r.max = t[root].max
  BY <1>4 DEF Fields
<1>6. s[root] = r /\ \A k \in Timers : k # root => s[k] = t[k]
  BY <1>1, <1>4
<1> HIDE DEF r, s
<1>7. InChain(s, root, i)
  <2>1. \A j \in root + 1 .. i : j = i
    BY <1>1
  <2> QED BY <1>1, <1>6, <2>1 DEF InChain
<1>8. Overflows(s[root], n) = 0
  BY <1>5, <1>6 DEF PassesNothing, Overflows, n
<1>9. u[root + 1] = s[root + 1]
  <2> DEFINE o == Overflows(s[root], n)
  <2>1. ~ (o > 0)
    BY <1>8
  <2> HIDE DEF o
  <2>2. AddToCounter(s, root, n)[root + 1]
          = IF o > 0 THEN [Added(s[root + 1], o) EXCEPT !.refreshed = s[root].refreshed]
            ELSE s[root + 1]
    <3>1. root + 1 \in Timers /\ InChain(s, root, root + 1)
      BY <1>7
    <3> QED BY <1>1, <3>1, AddToCounterNext DEF o
  <2>3. AddToCounter(s, root, n)[root + 1] = s[root + 1]
    BY <2>1, <2>2
  <2> QED BY <1>3, <2>3
<1> QED BY <1>1, <1>6, <1>9 DEF u

\* A refresh keeps what is exact, unless it is late and what is exact is in the chain.
LEMMA RefreshedExact ==
  ASSUME NEW t, Shaped(t), NEW i \in Timers, now \in 0 .. MaxTime,
         NEW e, NEW k \in Timers, ExactAt(t, e, k), e[k] # NotExact,
         t[RootOf(t, i)].enable,
         \/ t[RootOf(t, i)].refreshed <= now
         \/ k # RootOf(t, i) /\ ~ InChain(t, RootOf(t, i), k)
  PROVE  ExactAt(Refreshed(t, i), e, k)
<1> DEFINE root == RootOf(t, i)
           u == Refreshed(t, i)
<1>1. root \in Timers /\ root \in Nat /\ ~ Counted(t[root], root)
  BY RootFacts, TimersFacts
<1>2. /\ \A j \in Timers : SameCounting(t[j], u[j])
      /\ \A j \in Timers : j # root /\ ~ InChain(t, root, j) => u[j] = t[j]
  BY RefreshedFacts
<1>3. CASE k = root
  <2>1. CountsFrom(t[root], e[root]) /\ t[root].is_counting
    BY <1>1, <1>3 DEF ExactAt
  <2>2. CountsFrom(u[root], e[root])
    BY <1>3, <2>1, RefreshedCounts
  <2>3. u[root].is_counting /\ ~ Counted(u[root], root)
    BY <1>1, <1>2, <2>1 DEF SameCounting, SameRegisters, Counted
  <2> QED BY <1>3, <2>2, <2>3 DEF ExactAt
<1>4. CASE k = root + 1 /\ Counted(t[k], k)
  <2> DEFINE from == e[root]
             c == Laps(t[root], from) - e[k]
             o == Overflows(t[root], now - t[root].refreshed)
  <2>1. k - 1 = root
    BY <1>1, <1>4
  <2>2. /\ Fresh(t[k]) /\ e[k] \in Nat /\ from # NotExact /\ CountsFrom(t[root], from)
        /\ t[root].is_counting /\ CountsLaps(t[k], c) /\ Waits(t[k], c)
    BY <1>4, <2>1 DEF ExactAt, Follows
  <2>3. InChain(t, root, k)
    BY <1>1, <1>4, ExactNext
  <2>4. t[root].refreshed <= now
    BY <2>3
  <2> HIDE DEF c
  <2>5. /\ CountsFrom(u[root], from) /\ o \in Nat
        /\ Laps(u[root], from) = Laps(t[root], from) + o
        /\ Fresh(u[k]) /\ CountsLaps(u[k], c + o) /\ Waits(u[k], c + o)
    BY <1>4, <2>2, <2>3, <2>4, RefreshedCounts
  <2>6. Laps(u[root], from) - e[k] = c + o
    <3>1. Laps(t[root], from) \in Nat
      BY <2>2, CountsFromFacts
    <3> QED BY <2>2, <2>5, <3>1 DEF c
  <2>7. u[root].is_counting /\ u[root].enable /\ ~ Counted(u[root], root) /\ Counted(u[k], k)
    BY <1>1, <1>2, <1>4, <2>2 DEF SameCounting, SameRegisters, Counted, CountsFrom
  <2> HIDE DEF from, u, root
  <2>8. Follows(u, e, k)
    BY <2>1, <2>2, <2>5, <2>6, <2>7 DEF Follows, from
  <2> QED BY <2>7, <2>8 DEF ExactAt, u
<1>5. CASE k # root /\ ~ (k = root + 1 /\ Counted(t[k], k))
  <2>1. /\ ~ InChain(t, root, k)
        /\ Counted(t[k], k) => k - 1 \in Timers /\ k - 1 # root /\ ~ InChain(t, root, k - 1)
    BY <1>1, <1>5, ExactApart
  <2>2. u[k] = t[k] /\ (Counted(t[k], k) => u[k - 1] = t[k - 1])
    BY <1>2, <1>5, <2>1
  <2> HIDE DEF u
  <2>3. ExactAt(u, e, k)
    BY <2>2, ExactKept
  <2> QED BY <2>3 DEF u
<1> QED BY <1>3, <1>4, <1>5

\* The chain grows by a timer that is enabled and counts up.
LEMMA InChainNext ==
  ASSUME NEW t, NEW i \in Timers, NEW k \in Timers, Counted(t[k], k)
  PROVE  /\ k - 1 \in Timers
         /\ InChain(t, i, k) => k - 1 = i \/ InChain(t, i, k - 1)
         /\ (k - 1 = i \/ InChain(t, i, k - 1)) /\ t[k].enable => InChain(t, i, k)
<1>1. k \in Nat /\ i \in Nat /\ k > 0 /\ t[k].count_up /\ k - 1 \in Timers
  BY TimersFacts DEF Counted
<1>2. k > i => i + 1 .. k = (i + 1 .. k - 1) \cup {k}
  BY <1>1
<1>3. InChain(t, i, k) => k - 1 = i \/ InChain(t, i, k - 1)
  BY <1>1, <1>2 DEF InChain
<1>4. ASSUME k - 1 = i \/ InChain(t, i, k - 1), t[k].enable
      PROVE  InChain(t, i, k)
  <2>1. CASE k - 1 = i
    <3>1. k > i /\ \A j \in i + 1 .. k : j = k
      BY <1>1, <2>1
    <3> QED BY <1>1, <1>4, <3>1 DEF InChain
  <2>2. CASE InChain(t, i, k - 1)
    <3>1. k > i /\ \A j \in i + 1 .. k - 1 : t[j].enable /\ t[j].count_up
      BY <1>1, <2>2 DEF InChain
    <3> QED BY <1>1, <1>2, <1>4, <3>1 DEF InChain
  <2> QED BY <1>4, <2>1, <2>2
<1> QED BY <1>1, <1>3, <1>4

LEMMA StartChainFacts ==
  ASSUME NEW t, Shaped(t), NEW i \in Timers
  PROVE  LET u == StartChain(t, i) IN
         /\ Shaped(u) /\ \A k \in Timers : SameRegisters(t[k], u[k])
         /\ \A k \in Timers :
              IF k = i \/ InChain(t, i, k)
              THEN /\ u[k].is_counting
                   /\ u[k].base = t[k].base /\ u[k].counter = t[k].counter
                   /\ u[k].max = t[k].max
              ELSE u[k] = t[k]
<1> DEFINE period(k) == PeriodsFrom(t, i)[k]
           left(k) == LeftsFrom(t, i)[k]
           first == [t[i] EXCEPT !.is_counting = TRUE]
           next(k) == [t[k] EXCEPT !.is_counting = TRUE, !.refreshed = t[i].refreshed,
                                   !.period = period(k), !.left = left(k)]
           u == StartChain(t, i)
<1>1. /\ DOMAIN u = Timers
      /\ \A k \in Timers : u[k] = IF k = i THEN first
                                 ELSE IF InChain(t, i, k) THEN next(k) ELSE t[k]
  BY DEF StartChain
<1> HIDE DEF u, period, left
<1>2. \A k \in Timers : DOMAIN t[k] = Fields
  BY DEF Shaped
<1>3. /\ DOMAIN first = Fields /\ SameRegisters(t[i], first) /\ first.is_counting
      /\ first.base = t[i].base /\ first.counter = t[i].counter /\ first.max = t[i].max
  BY <1>2 DEF Fields, SameRegisters
<1>4. \A k \in Timers :
        /\ DOMAIN next(k) = Fields /\ SameRegisters(t[k], next(k)) /\ next(k).is_counting
        /\ next(k).base = t[k].base /\ next(k).counter = t[k].counter
        /\ next(k).max = t[k].max
  BY <1>2 DEF Fields, SameRegisters
<1>5. \A k \in Timers : SameRegisters(t[k], t[k])
  BY DEF SameRegisters
<1> HIDE DEF first, next
<1>6. Shaped(u) /\ \A k \in Timers : SameRegisters(t[k], u[k])
  BY <1>1, <1>2, <1>3, <1>4, <1>5 DEF Shaped
<1>7. \A k \in Timers :
        IF k = i \/ InChain(t, i, k)
        THEN /\ u[k].is_counting
             /\ u[k].base = t[k].base /\ u[k].counter = t[k].counter
             /\ u[k].max = t[k].max
        ELSE u[k] = t[k]
  BY <1>1, <1>3, <1>4
<1> QED BY <1>6, <1>7 DEF u

LEMMA StartChainNext ==
  ASSUME NEW t, Shaped(t), NEW i \in Timers
  PROVE  /\ StartChain(t, i)[i] = [t[i] EXCEPT !.is_counting = TRUE]
         /\ i + 1 \in Timers /\ InChain(t, i, i + 1) =>
              StartChain(t, i)[i + 1].left
                = Wrap(t[i].left + (t[i + 1].max - t[i + 1].counter - 1) * t[i].period)
<1> DEFINE left == LeftsFrom(t, i)[i + 1]
           period == PeriodsFrom(t, i)[i + 1]
<1>1. StartChain(t, i)[i] = [t[i] EXCEPT !.is_counting = TRUE]
  BY DEF StartChain
<1>2. ASSUME i + 1 \in Timers, InChain(t, i, i + 1)
      PROVE  StartChain(t, i)[i + 1]
               = [t[i + 1] EXCEPT !.is_counting = TRUE, !.refreshed = t[i].refreshed,
                                  !.period = period, !.left = left]
  <2>1. i + 1 # i
    BY TimersFacts
  <2> QED BY <1>2, <2>1 DEF StartChain
<1>3. i + 1 \in Timers =>
        left = Wrap(t[i].left + (t[i + 1].max - t[i + 1].counter - 1) * t[i].period)
  BY NextFacts
<1>4. i + 1 \in Timers => DOMAIN t[i + 1] = Fields
  BY DEF Shaped
<1> HIDE DEF left, period
<1>5. i + 1 \in Timers /\ InChain(t, i, i + 1) => StartChain(t, i)[i + 1].left = left
  BY <1>2, <1>4 DEF Fields
<1> QED BY <1>1, <1>3, <1>5

LEMMA StopChainFacts ==
  ASSUME NEW t, Shaped(t), NEW i \in Timers
  PROVE  LET u == StopChain(t, i) IN
         /\ Shaped(u) /\ \A k \in Timers : SameRegisters(t[k], u[k])
         /\ \A k \in Timers :
              IF k = i \/ InChain(t, i, k)
              THEN /\ ~ u[k].is_counting
                   /\ u[k].base = t[k].base /\ u[k].counter = t[k].counter
                   /\ u[k].max = t[k].max
              ELSE u[k] = t[k]
<1> DEFINE next(k) == [t[k] EXCEPT !.is_counting = FALSE]
           u == StopChain(t, i)
<1>1. /\ DOMAIN u = Timers
      /\ \A k \in Timers : u[k] = IF k = i \/ InChain(t, i, k) THEN next(k) ELSE t[k]
  BY DEF StopChain
<1> HIDE DEF u
<1>2. \A k \in Timers : DOMAIN t[k] = Fields /\ SameRegisters(t[k], t[k])
  BY DEF Shaped, SameRegisters
<1>3. \A k \in Timers :
        /\ DOMAIN next(k) = Fields /\ SameRegisters(t[k], next(k)) /\ ~ next(k).is_counting
        /\ next(k).base = t[k].base /\ next(k).counter = t[k].counter
        /\ next(k).max = t[k].max
  BY <1>2 DEF Fields, SameRegisters
<1> HIDE DEF next
<1>4. Shaped(u) /\ \A k \in Timers : SameRegisters(t[k], u[k])
  BY <1>1, <1>2, <1>3 DEF Shaped
<1>5. \A k \in Timers :
        IF k = i \/ InChain(t, i, k)
        THEN /\ ~ u[k].is_counting
             /\ u[k].base = t[k].base /\ u[k].counter = t[k].counter
             /\ u[k].max = t[k].max
        ELSE u[k] = t[k]
  BY <1>1, <1>3
<1> QED BY <1>4, <1>5 DEF u

\* The chain of a timer that counts the cycles may start when that is enabled.
LEMMA StartChained ==
  ASSUME NEW t, Shaped(t), NEW i \in Timers, Chained(t), t[i].enable, ~ Counted(t[i], i)
  PROVE  Chained(StartChain(t, i))
<1> DEFINE u == StartChain(t, i)
<1>1. /\ \A k \in Timers : SameRegisters(t[k], u[k])
      /\ \A k \in Timers : IF k = i \/ InChain(t, i, k) THEN u[k].is_counting ELSE u[k] = t[k]
  BY StartChainFacts
<1> HIDE DEF u
<1>2. ASSUME NEW k \in Timers, u[k].is_counting
      PROVE  u[k].enable /\ (Counted(u[k], k) => u[k - 1].is_counting)
  <2>1. Counted(u[k], k) <=> Counted(t[k], k)
    BY <1>1 DEF SameRegisters, Counted
  <2>2. u[k].enable <=> t[k].enable
    BY <1>1 DEF SameRegisters
  <2>3. CASE k = i
    BY <2>1, <2>2, <2>3
  <2>4. CASE InChain(t, i, k)
    <3>1. t[k].enable
      <4>1. k \in i + 1 .. k
        BY <2>4, TimersFacts DEF InChain
      <4> QED BY <2>4, <4>1 DEF InChain
    <3>2. Counted(t[k], k) => k - 1 \in Timers /\ (k - 1 = i \/ InChain(t, i, k - 1))
      BY <2>4, InChainNext
    <3> QED BY <1>1, <2>1, <2>2, <3>1, <3>2
  <2>5. CASE k # i /\ ~ InChain(t, i, k)
    <3>1. t[k].is_counting
      BY <1>1, <1>2, <2>5
    <3>2. t[k].enable /\ (Counted(t[k], k) => t[k - 1].is_counting /\ k - 1 \in Timers)
      BY <3>1, TimersFacts DEF Chained, Counted
    <3> QED BY <1>1, <2>1, <2>2, <3>2
  <2> QED BY <2>3, <2>4, <2>5
<1>3. Chained(u)
  BY <1>2 DEF Chained
<1> QED BY <1>3 DEF u

\* A chain that stops is left by every timer that goes on.
LEMMA StopChained ==
  ASSUME NEW t, Shaped(t), NEW i \in Timers,
         \A k \in Timers : k # i /\ t[k].is_counting =>
            t[k].enable /\ (Counted(t[k], k) => t[k - 1].is_counting)
  PROVE  Chained(StopChain(t, i))
<1> DEFINE u == StopChain(t, i)
<1>1. /\ \A k \in Timers : SameRegisters(t[k], u[k])
      /\ \A k \in Timers : IF k = i \/ InChain(t, i, k) THEN ~ u[k].is_counting ELSE u[k] = t[k]
  BY StopChainFacts
<1> HIDE DEF u
<1>2. ASSUME NEW k \in Timers, u[k].is_counting
      PROVE  u[k].enable /\ (Counted(u[k], k) => u[k - 1].is_counting)
  <2>1. k # i /\ ~ InChain(t, i, k) /\ u[k] = t[k]
    BY <1>1, <1>2
  <2>2. t[k].enable /\ (Counted(t[k], k) => t[k - 1].is_counting)
    BY <1>2, <2>1
  <2>3. ASSUME Counted(t[k], k)
        PROVE  u[k - 1] = t[k - 1]
    <3>1. k - 1 \in Timers /\ k - 1 # i /\ ~ InChain(t, i, k - 1)
      BY <2>1, <2>2, <2>3, InChainNext
    <3> QED BY <1>1, <3>1
  <2>4. Counted(u[k], k) => Counted(t[k], k)
    BY <2>1
  <2> QED BY <2>1, <2>2, <2>3, <2>4
<1>3. Chained(u)
  BY <1>2 DEF Chained
<1> QED BY <1>3 DEF u

\* A timer counts on when its chain starts.
LEMMA StartedRoot ==
  ASSUME NEW t, Shaped(t), NEW i \in Timers, NEW from, CountsFrom(t[i], from)
  PROVE  LET r == StartChain(t, i)[i] IN
         CountsFrom(r, from) /\ r.is_counting /\ Laps(r, from) = Laps(t[i], from)
<1> DEFINE r == StartChain(t, i)[i]
<1>1. r = [t[i] EXCEPT !.is_counting = TRUE]
  BY StartChainNext
<1>2. DOMAIN t[i] = Fields
  BY DEF Shaped
<1> HIDE DEF r
<1>3. /\ r.is_counting /\ SameRegisters(t[i], r) /\ r.base = t[i].base /\ r.max = t[i].max
      /\ r.period = t[i].period /\ r.refreshed = t[i].refreshed
      /\ r.counter = t[i].counter /\ r.left = t[i].left
  BY <1>1, <1>2 DEF Fields, SameRegisters
<1>4. CountsFrom(r, from) /\ r.is_counting /\ Laps(r, from) = Laps(t[i], from)
  BY <1>3 DEF CountsFrom, SameRegisters, Laps
<1> QED BY <1>4 DEF r

\* The timer after it waits for as many overflows as it lacks, at least: it compares
\* their number with a number of cycles.
LEMMA StartedNext ==
  ASSUME NEW t, Shaped(t), NEW i \in Timers, ~ Counted(t[i], i),
         NEW e, e[i] # NotExact, CountsFrom(t[i], e[i]),
         NEW k \in Timers, k = i + 1, InChain(t, i, k), Fresh(t[k]), e[k] \in Nat,
         CountsLaps(t[k], Laps(t[i], e[i]) - e[k])
  PROVE  ExactAt(StartChain(t, i), e, k)
<1> DEFINE u == StartChain(t, i)
           c == Laps(t[i], e[i]) - e[k]
           m == t[i].max
           max == t[k].max
           d == max - c - 1
           left == t[i].left + (max - t[k].counter - 1) * t[i].period
<1>0. i \in Nat /\ k > 0 /\ k # i /\ k - 1 = i
  BY TimersFacts
<1>1. /\ CountsFrom(u[i], e[i]) /\ u[i].is_counting /\ Laps(u[i], e[i]) = Laps(t[i], e[i])
  BY StartedRoot
<1>2. /\ SameRegisters(t[i], u[i]) /\ SameRegisters(t[k], u[k])
      /\ u[k].is_counting /\ u[k].base = t[k].base /\ u[k].counter = t[k].counter
      /\ u[k].max = max
  BY StartChainFacts
<1>3. u[k].left = Wrap(left)
  BY StartChainNext
<1> HIDE DEF u, c
<1>4. ASSUME c < max
      PROVE  Wrap(left) \in Nat /\ Wrap(left) >= max - c
  <2>1. /\ CounterMax \in Nat /\ max \in 0 .. CounterMax /\ c \in Nat /\ t[k].counter = c
        /\ t[i].period = m /\ U64 \in Nat
    BY <1>4, TimersAssumption DEF Fresh, CountsLaps, CountsFrom, c
  <2>2. m \in Nat \ {0} /\ t[i].left \in 1 .. m
    BY CountsFromFacts
  <2>3. \A a \in 0 .. CounterMax : a * m < U64
    BY MaxFacts DEF CountsFrom
  <2> HIDE DEF m, max
  <2>4. d \in Nat /\ d + 1 \in 0 .. CounterMax
    BY <1>4, <2>1
  <2>5. left = t[i].left + d * m
    BY <2>1
  <2> HIDE DEF d, left
  <2>6. d * m \in Nat /\ d * m >= d /\ (d + 1) * m = d * m + m
    BY <2>2, <2>4
  <2>7. (d + 1) * m < U64
    BY <2>3, <2>4
  <2>8. left \in 0 .. U64 - 1 /\ left >= d + 1
    BY <2>1, <2>2, <2>4, <2>5, <2>6, <2>7
  <2>9. Wrap(left) = left
    BY <2>1, <2>8 DEF Wrap
  <2> QED BY <1>4, <2>1, <2>4, <2>8, <2>9 DEF d
<1> HIDE DEF left, max
<1>5. Counted(t[k], k) /\ Counted(u[k], k) /\ ~ Counted(u[i], i) /\ u[i].enable
  BY <1>0, <1>1, <1>2 DEF Fresh, Counted, SameRegisters, CountsFrom
<1>6. Fresh(u[k]) /\ CountsLaps(u[k], c) /\ Waits(u[k], c)
  BY <1>2, <1>3, <1>4 DEF Fresh, CountsLaps, Waits, SameRegisters, c, max
<1>7. Follows(u, e, k)
  BY <1>0, <1>1, <1>5, <1>6 DEF Follows, c
<1> QED BY <1>5, <1>7 DEF ExactAt, u

LEMMA StartedExact ==
  ASSUME NEW t, Shaped(t), NEW i \in Timers, t[i].enable, ~ Counted(t[i], i),
         NEW e, NEW k \in Timers, ExactAt(t, e, k), e[k] # NotExact
  PROVE  ExactAt(StartChain(t, i), e, k)
<1> DEFINE u == StartChain(t, i)
<1>1. CASE k = i
  <2>1. CountsFrom(u[k], e[k]) /\ u[k].is_counting
    BY <1>1, StartedRoot DEF ExactAt
  <2>2. SameRegisters(t[k], u[k])
    BY StartChainFacts
  <2>3. ~ Counted(u[k], k)
    BY <1>1, <2>2 DEF SameRegisters, Counted
  <2> QED BY <2>1, <2>3 DEF ExactAt
<1>2. CASE k = i + 1 /\ Counted(t[k], k)
  <2>1. k - 1 = i
    BY <1>2, TimersFacts
  <2>2. /\ Fresh(t[k]) /\ e[k] \in Nat /\ e[i] # NotExact /\ CountsFrom(t[i], e[i])
        /\ CountsLaps(t[k], Laps(t[i], e[i]) - e[k])
    BY <1>2, <2>1 DEF ExactAt, Follows
  <2>3. InChain(t, i, k)
    BY <1>2, ExactNext
  <2> QED BY <1>2, <2>2, <2>3, StartedNext
<1>3. CASE k # i /\ ~ (k = i + 1 /\ Counted(t[k], k))
  <2>1. /\ ~ InChain(t, i, k)
        /\ Counted(t[k], k) => k - 1 \in Timers /\ k - 1 # i /\ ~ InChain(t, i, k - 1)
    BY <1>3, ExactApart
  <2>2. \A j \in Timers : j # i /\ ~ InChain(t, i, j) => u[j] = t[j]
    BY StartChainFacts
  <2>3. u[k] = t[k] /\ (Counted(t[k], k) => u[k - 1] = t[k - 1])
    BY <1>3, <2>1, <2>2
  <2> HIDE DEF u
  <2>4. ExactAt(u, e, k)
    BY <2>3, ExactKept
  <2> QED BY <2>4 DEF u
<1> QED BY <1>1, <1>2, <1>3

\* What a chain that stops leaves exact.
LEMMA StoppedExact ==
  ASSUME NEW t, Shaped(t), NEW i \in Timers,
         NEW e, NEW k \in Timers, ExactAt(t, e, k), e[k] # NotExact,
         k # i, ~ InChain(t, i, k)
  PROVE  ExactAt(StopChain(t, i), e, k)
<1> DEFINE u == StopChain(t, i)
<1>1. ~ (k = i + 1 /\ Counted(t[k], k))
  BY ExactNext
<1>2. Counted(t[k], k) => k - 1 \in Timers /\ k - 1 # i /\ ~ InChain(t, i, k - 1)
  BY <1>1, ExactApart
<1>3. \A j \in Timers : j # i /\ ~ InChain(t, i, j) => u[j] = t[j]
  BY StopChainFacts
<1> HIDE DEF u
<1>4. ExactAt(u, e, k)
  BY <1>2, <1>3, ExactKept
<1> QED BY <1>4 DEF u

\* A change of a timer that is not exact, nor followed by an exact one.
LEMMA ChangedExact ==
  ASSUME NEW t, NEW e, NEW i \in Timers, NEW k \in Timers, k # i,
         ExactAt(t, e, k), e[k] # NotExact, ~ InChain(t, i, k),
         NEW u, \A j \in Timers \ {i} : u[j] = t[j]
  PROVE  ExactAt(u, e, k)
<1>1. ~ (k = i + 1 /\ Counted(t[k], k))
  BY ExactNext
<1>2. Counted(t[k], k) => k - 1 \in Timers /\ k - 1 # i
  BY <1>1, ExactApart
<1> QED BY <1>2, ExactKept

\* What is still exact when the counts of a chain are lost.
LEMMA LostFacts ==
  ASSUME NEW e, DOMAIN e = Timers, NEW i \in Timers
  PROVE  /\ DOMAIN Lost(e, i) = Timers
         /\ \A k \in Timers : Lost(e, i)[k]
                              = IF k = i \/ InChain(timer, i, k) THEN NotExact ELSE e[k]
BY DEF Lost

LEMMA LostKept ==
  ASSUME NEW e, DOMAIN e = Timers, NEW i \in Timers, NEW k \in Timers,
         ExactAt(timer, e, k), Lost(e, i)[k] # NotExact
  PROVE  /\ k # i /\ ~ InChain(timer, i, k) /\ Lost(e, i)[k] = e[k] /\ e[k] # NotExact
         /\ Counted(timer[k], k) =>
              k - 1 \in Timers /\ k - 1 # i /\ Lost(e, i)[k - 1] = e[k - 1]
         /\ ExactAt(timer, Lost(e, i), k)
<1> DEFINE f == Lost(e, i)
<1>1. \A j \in Timers : f[j] = IF j = i \/ InChain(timer, i, j) THEN NotExact ELSE e[j]
  BY LostFacts
<1> HIDE DEF f
<1>2. f[k] # NotExact
  BY DEF f
<1>3. k # i /\ ~ InChain(timer, i, k) /\ f[k] = e[k] /\ e[k] # NotExact
  BY <1>1, <1>2
<1>4. ~ (k = i + 1 /\ Counted(timer[k], k))
  BY <1>3, ExactNext
<1>5. Counted(timer[k], k) => k - 1 \in Timers /\ k - 1 # i /\ ~ InChain(timer, i, k - 1)
  BY <1>3, <1>4, ExactApart
<1>6. Counted(timer[k], k) => k - 1 \in Timers /\ k - 1 # i /\ f[k - 1] = e[k - 1]
  BY <1>1, <1>5
<1>7. ExactAt(timer, f, k)
  BY <1>3, <1>6, ExactKept
<1> QED BY <1>3, <1>6, <1>7 DEF f

LEMMA TimersInitInv == TimersInit => TimersInv
BY TimersAssumption DEF TimersInit, TimersInv, Shaped, Chained, ExactAt, Reset, Fields, NotExact

\* The time may go anywhere: what is exact does not depend on it.
LEMMA TimeJumpsStep ==
  ASSUME TimersInv, TimeJumps
  PROVE  TimersInv'
BY DEF TimersInv, TimeJumps

LEMMA ReadCounterStep ==
  ASSUME TimersInv, NEW i \in Timers, ReadCounter(i)
  PROVE  TimersInv'
<1> DEFINE root == RootOf(timer, i)
<1>1. /\ timer' = Refreshed(timer, i) /\ since' = LookedAt(since, i) /\ now' = now
      /\ timer[i].is_counting
  BY DEF ReadCounter, OneStep
<1>2. /\ Shaped(timer) /\ Chained(timer) /\ now \in 0 .. MaxTime /\ DOMAIN since = Timers
      /\ root \in Timers /\ root \in root .. i
  <2>1. root \in 0 .. i /\ i \in Nat
    BY RootFacts, TimersFacts
  <2> QED BY <2>1, RootFacts DEF TimersInv
<1>3. timer[root].enable
  BY <1>1, <1>2, ChainCounts
<1>4. Shaped(timer') /\ \A k \in Timers : SameCounting(timer[k], timer'[k])
  BY <1>1, <1>2, RefreshedFacts
<1>5. Chained(timer')
  BY <1>2, <1>4, SameChained
<1>6. \A k \in Timers : timer'[k].reload \in 0 .. CounterMax - 1
  BY <1>4 DEF TimersInv, SameCounting, SameRegisters
<1>7. DOMAIN since' = Timers
  BY <1>1, <1>2, LostFacts DEF LookedAt
<1>8. ASSUME NEW k \in Timers, since'[k] # NotExact
      PROVE  ExactAt(timer', since', k)
  <2>1. ExactAt(timer, since, k)
    BY DEF TimersInv
  <2>2. Counted(timer'[k], k) <=> Counted(timer[k], k)
    BY <1>4 DEF SameCounting, SameRegisters, Counted
  <2>3. /\ since[k] # NotExact /\ since'[k] = since[k]
        /\ timer[root].refreshed <= now \/ (k # root /\ ~ InChain(timer, root, k))
        /\ Counted(timer[k], k) => since'[k - 1] = since[k - 1]
    <3>1. CASE Late(i)
      <4>1. since' = Lost(since, root)
        BY <1>1, <3>1 DEF LookedAt
      <4> HIDE DEF root
      <4> QED BY <1>2, <1>8, <2>1, <4>1, LostKept
    <3>2. CASE ~ Late(i)
      <4>1. since' = since
        BY <1>1, <3>2 DEF LookedAt
      <4>2. ~ (now < timer[root].refreshed)
        BY <3>2 DEF Late
      <4>3. CASE k = root \/ InChain(timer, root, k)
        <5>1. timer[root].refreshed \in Int
          <6>1. CASE k = root
            <7>1. ~ Counted(timer[root], root)
              BY RootFacts
            <7> QED BY <1>8, <2>1, <4>1, <6>1, <7>1 DEF ExactAt, CountsFrom
          <6>2. CASE k # root
            <7>1. k = root + 1 /\ Counted(timer[k], k)
              BY <1>2, <1>8, <2>1, <4>1, <4>3, <6>2, ExactApart
            <7>2. k - 1 = root
              BY <1>2, <7>1, TimersFacts
            <7> QED BY <1>3, <1>8, <2>1, <4>1, <7>1, <7>2 DEF ExactAt, Follows, CountsFrom
          <6> QED BY <6>1, <6>2
        <5> QED BY <1>2, <1>8, <4>1, <4>2, <5>1
      <4>4. CASE k # root /\ ~ InChain(timer, root, k)
        BY <1>8, <4>1, <4>4
      <4> QED BY <4>3, <4>4
    <3> QED BY <3>1, <3>2
  <2>4. ExactAt(timer', since, k)
    BY <1>1, <1>2, <1>3, <2>1, <2>3, RefreshedExact
  <2> QED BY <2>2, <2>3, <2>4, ExactKept
<1>9. \A k \in Timers : ExactAt(timer', since', k)
  BY <1>8 DEF ExactAt
<1> QED BY <1>1, <1>2, <1>4, <1>5, <1>6, <1>7, <1>9 DEF TimersInv

\* After a change of timer i its chain can stop.
LEMMA ChangedStops ==
  ASSUME NEW t, Chained(t), NEW i \in Timers, NEW u, Shaped(u),
         u[i].is_counting = t[i].is_counting, \A j \in Timers \ {i} : u[j] = t[j]
  PROVE  Chained(StopChain(u, i))
<1>1. ASSUME NEW k \in Timers, k # i, u[k].is_counting
      PROVE  u[k].enable /\ (Counted(u[k], k) => u[k - 1].is_counting)
  <2>1. t[k].is_counting /\ u[k] = t[k]
    BY <1>1
  <2>2. t[k].enable /\ (Counted(t[k], k) => t[k - 1].is_counting)
    BY <2>1 DEF Chained
  <2>3. Counted(t[k], k) => k - 1 \in Timers
    BY TimersFacts DEF Counted
  <2> QED BY <2>1, <2>2, <2>3
<1> QED BY <1>1, StopChained

LEMMA DisableTimerStep ==
  ASSUME TimersInv, NEW i \in Timers, NEW count_up, NEW prescaler,
         DisableTimer(i, count_up, prescaler)
  PROVE  TimersInv'
<1> DEFINE r == [timer[i] EXCEPT !.enable = FALSE, !.count_up = count_up, !.prescaler = prescaler]
           s == [timer EXCEPT ![i] = r]
<1>1. /\ DOMAIN timer = Timers /\ DOMAIN timer[i] = Fields /\ DOMAIN since = Timers
      /\ Chained(timer) /\ Shaped(timer)
  BY DEF TimersInv, Shaped
<1>2. s = [timer EXCEPT ![i].enable = FALSE, ![i].count_up = count_up,
                        ![i].prescaler = prescaler]
  BY <1>1 DEF Fields
<1>3. /\ timer' = StopChain(s, i) /\ since' = Lost(since, i) /\ now' = now
  BY <1>2 DEF DisableTimer, OneStep
<1>4. DOMAIN r = Fields /\ r.reload = timer[i].reload /\ r.is_counting = timer[i].is_counting
  BY <1>1 DEF Fields
<1> HIDE DEF r
<1>5. DOMAIN s = Timers /\ s[i] = r /\ \A k \in Timers \ {i} : s[k] = timer[k]
  BY <1>1
<1> HIDE DEF s
<1>6. Shaped(s) /\ \A k \in Timers : s[k].reload \in 0 .. CounterMax - 1
  BY <1>1, <1>4, <1>5 DEF Shaped, TimersInv
<1>7. Shaped(timer') /\ \A k \in Timers : SameRegisters(s[k], timer'[k])
  BY <1>3, <1>6, StopChainFacts
<1>8. \A k \in Timers : timer'[k].reload \in 0 .. CounterMax - 1
  BY <1>6, <1>7 DEF SameRegisters
<1>9. Chained(timer')
  BY <1>1, <1>3, <1>4, <1>5, <1>6, ChangedStops
<1>10. DOMAIN since' = Timers
  BY <1>1, <1>3, LostFacts
<1>11. ASSUME NEW k \in Timers, since'[k] # NotExact
       PROVE  ExactAt(timer', since', k)
  <2>1. ExactAt(timer, since, k)
    BY DEF TimersInv
  <2>2. /\ k # i /\ ~ InChain(timer, i, k) /\ since[k] # NotExact
        /\ ExactAt(timer, since', k)
    BY <1>1, <1>3, <1>11, <2>1, LostKept
  <2>3. ExactAt(s, since', k)
    BY <1>5, <1>11, <2>2, ChangedExact
  <2>4. ~ InChain(s, i, k)
    <3>1. \A j \in Timers : j > i => SameRegisters(timer[j], s[j])
      BY <1>5, TimersFacts DEF SameRegisters
    <3> QED BY <2>2, <3>1, SameChain
  <2> QED BY <1>3, <1>6, <1>11, <2>2, <2>3, <2>4, StoppedExact
<1>12. \A k \in Timers : ExactAt(timer', since', k)
  BY <1>11 DEF ExactAt
<1> QED BY <1>1, <1>3, <1>7, <1>8, <1>9, <1>10, <1>12 DEF TimersInv

LEMMA WriteReloadStep ==
  ASSUME TimersInv, NEW i \in Timers, NEW reload \in Reloads, WriteReload(i, reload)
  PROVE  TimersInv'
<1> DEFINE r == [timer[i] EXCEPT !.reload = reload]
           t == [timer EXCEPT ![i] = r]
<1>1. /\ DOMAIN timer = Timers /\ \A k \in Timers : DOMAIN timer[k] = Fields
      /\ DOMAIN since = Timers /\ Chained(timer) /\ now \in 0 .. MaxTime
      /\ \A k \in Timers : timer[k].reload \in 0 .. CounterMax - 1
      /\ \A k \in Timers : ExactAt(timer, since, k)
  BY DEF TimersInv, Shaped
<1>2. t = [timer EXCEPT ![i].reload = reload]
  BY <1>1
<1>3. /\ timer' = IF timer[i].enable THEN UpdatePeriod(t, i) ELSE t
      /\ since' = IF timer[i].enable THEN Lost(since, i) ELSE since
      /\ now' = now
  BY <1>2 DEF WriteReload, OneStep
<1>4. /\ DOMAIN r = Fields /\ r.reload = reload /\ r.enable = timer[i].enable
      /\ r.count_up = timer[i].count_up /\ r.is_counting = timer[i].is_counting
  BY <1>1 DEF Fields
<1> HIDE DEF r
<1>5. DOMAIN t = Timers /\ t[i] = r /\ \A k \in Timers \ {i} : t[k] = timer[k]
  BY <1>1
<1> HIDE DEF t
<1>6. CASE ~ timer[i].enable
  <2>1. timer' = t /\ since' = since
    BY <1>3, <1>6
  <2>2. Shaped(t) /\ Chained(t) /\ \A k \in Timers : t[k].reload \in 0 .. CounterMax - 1
    <3>1. Shaped(t) /\ \A k \in Timers : t[k].reload \in 0 .. CounterMax - 1
      BY <1>1, <1>4, <1>5, TimersAssumption DEF Shaped
    <3>2. \A k \in Timers : /\ t[k].enable = timer[k].enable /\ t[k].count_up = timer[k].count_up
                            /\ t[k].is_counting = timer[k].is_counting
      BY <1>4, <1>5
    <3>3. \A k \in Timers : k # 0 => k - 1 \in Timers
      BY TimersFacts
    <3> QED BY <1>1, <3>1, <3>2, <3>3, TimersFacts DEF Chained, Counted
  <2>3. ASSUME NEW k \in Timers, since[k] # NotExact
        PROVE  ExactAt(t, since, k)
    <3>1. CASE ~ (k = i + 1 /\ Counted(timer[k], k)) /\ k # i
      <4>1. Counted(timer[k], k) => k - 1 \in Timers /\ k - 1 # i
        BY <1>1, <2>3, <3>1, ExactApart
      <4> QED BY <1>1, <1>5, <3>1, <4>1, ExactKept
    <3>2. k # i
      <4>1. ExactAt(timer, since, k)
        BY <1>1
      <4>2. timer[k].enable
        BY <2>3, <4>1 DEF ExactAt, Follows, Fresh, CountsFrom
      <4> QED BY <1>6, <4>2
    <3>3. CASE k = i + 1 /\ Counted(timer[k], k)
      <4>1. k - 1 = i /\ t[k] = timer[k] /\ t[i].enable = timer[i].enable
        BY <1>4, <1>5, <3>2, <3>3, TimersFacts
      <4>2. ExactAt(timer, since, k)
        BY <1>1
      <4>3. Follows(timer, since, k)
        BY <2>3, <3>3, <4>2 DEF ExactAt
      <4>4. Follows(t, since, k)
        BY <1>6, <4>1, <4>3 DEF Follows
      <4> QED BY <3>3, <4>1, <4>4 DEF ExactAt
    <3> QED BY <3>1, <3>2, <3>3
  <2> QED BY <1>1, <1>3, <2>1, <2>2, <2>3 DEF TimersInv, ExactAt
<1>7. CASE timer[i].enable
  <2> DEFINE s == WithMax(t, i)
             behind(k) == k > i /\ \A j \in i + 1 .. k : s[j].count_up
             next(k) == [s[k] EXCEPT !.period = PeriodsFrom(s, i)[k], !.left = LeftsFrom(s, i)[k]]
             u == UpdatePeriod(t, i)
  <2>1. timer' = u /\ since' = Lost(since, i)
    BY <1>3, <1>7
  <2>2. /\ DOMAIN u = Timers
        /\ \A k \in Timers : u[k] = IF behind(k) THEN next(k) ELSE s[k]
    BY DEF UpdatePeriod
  <2>3. /\ DOMAIN s = Timers /\ \A k \in Timers \ {i} : s[k] = t[k]
        /\ DOMAIN s[i] = Fields /\ s[i].reload = reload /\ s[i].enable = timer[i].enable
        /\ s[i].count_up = timer[i].count_up /\ s[i].is_counting = timer[i].is_counting
    BY <1>4, <1>5 DEF WithMax, Fields
  <2> HIDE DEF s, u
  <2>4. \A k \in Timers :
          /\ DOMAIN s[k] = Fields /\ s[k].enable = timer[k].enable
          /\ s[k].count_up = timer[k].count_up /\ s[k].is_counting = timer[k].is_counting
          /\ s[k].reload \in 0 .. CounterMax - 1
    BY <1>1, <1>5, <2>3, TimersAssumption
  <2>5. \A k \in Timers :
          /\ DOMAIN next(k) = Fields /\ next(k).enable = s[k].enable
          /\ next(k).count_up = s[k].count_up /\ next(k).is_counting = s[k].is_counting
          /\ next(k).reload = s[k].reload /\ next(k).prescaler = s[k].prescaler
          /\ next(k).base = s[k].base /\ next(k).counter = s[k].counter
          /\ next(k).max = s[k].max
    BY <2>4 DEF Fields
  <2> HIDE DEF next
  <2>6. /\ Shaped(u) /\ \A k \in Timers : u[k].reload \in 0 .. CounterMax - 1
        /\ \A k \in Timers : /\ u[k].enable = timer[k].enable /\ u[k].count_up = timer[k].count_up
                             /\ u[k].is_counting = timer[k].is_counting
    <3> HIDE DEF behind
    <3> QED BY <2>2, <2>4, <2>5 DEF Shaped
  <2>7. Chained(u)
    BY <1>1, <2>6, TimersFacts DEF Chained, Counted
  <2>8. ASSUME NEW k \in Timers, since'[k] # NotExact
        PROVE  ExactAt(u, since', k)
    <3>1. /\ k # i /\ ~ InChain(timer, i, k) /\ since[k] # NotExact
          /\ ExactAt(timer, since', k)
      BY <1>1, <2>1, <2>8, LostKept
    <3>2. ~ (k = i + 1 /\ Counted(timer[k], k))
      BY <2>8, <3>1, ExactNext
    <3>3. s[k] = timer[k]
      BY <1>5, <2>3, <3>1
    <3>4. CASE ~ Counted(timer[k], k)
      <4>1. ~ behind(k)
        <5>1. k > i => k \in i + 1 .. k /\ k > 0
          BY TimersFacts
        <5> QED BY <3>3, <3>4, <5>1 DEF Counted
      <4>2. u[k] = timer[k]
        BY <2>2, <3>3, <4>1
      <4> QED BY <3>1, <3>4, <4>2, ExactKept
    <3>5. CASE Counted(timer[k], k)
      <4>1. k - 1 \in Timers /\ k - 1 # i /\ k > 0
        BY <2>8, <3>1, <3>2, <3>5, ExactApart DEF Counted
      <4>2. s[k - 1] = timer[k - 1]
        BY <1>5, <2>3, <4>1
      <4>3. Follows(timer, since', k)
        BY <2>8, <3>1, <3>5 DEF ExactAt
      <4>4. CASE timer[k - 1].enable
        <5>1. ~ Counted(timer[k - 1], k - 1)
          BY <4>3, <4>4 DEF Follows
        <5>2. ~ behind(k) /\ ~ behind(k - 1)
          <6>1. k > i => k - 1 > i /\ k - 1 \in i + 1 .. k /\ k - 1 \in i + 1 .. k - 1 /\ k - 1 > 0
            BY <4>1, TimersFacts
          <6>2. k - 1 > i => k > i
            BY TimersFacts
          <6> QED BY <4>2, <5>1, <6>1, <6>2 DEF Counted
        <5>3. u[k] = timer[k] /\ u[k - 1] = timer[k - 1]
          BY <2>2, <3>3, <4>1, <4>2, <5>2
        <5> QED BY <3>1, <5>3, ExactKept
      <4>5. CASE ~ timer[k - 1].enable
        <5>1. /\ u[k].enable = timer[k].enable /\ u[k].count_up = timer[k].count_up
              /\ u[k].is_counting = timer[k].is_counting /\ u[k].reload = timer[k].reload
              /\ u[k].prescaler = timer[k].prescaler /\ u[k].base = timer[k].base
              /\ u[k].counter = timer[k].counter /\ u[k].max = timer[k].max
          <6> HIDE DEF behind
          <6> QED BY <2>2, <2>5, <3>3
        <5>2. ~ u[k - 1].enable
          BY <2>6, <4>1, <4>5
        <5>3. Follows(u, since', k)
          BY <4>3, <4>5, <5>1, <5>2 DEF Follows, Fresh
        <5>4. Counted(u[k], k)
          BY <3>5, <5>1 DEF Counted
        <5> QED BY <5>3, <5>4 DEF ExactAt
      <4> QED BY <4>4, <4>5
    <3> QED BY <3>4, <3>5
  <2>9. DOMAIN since' = Timers
    BY <1>1, <2>1, LostFacts
  <2>10. \A k \in Timers : ExactAt(u, since', k)
    BY <2>8 DEF ExactAt
  <2> QED BY <1>1, <1>3, <2>1, <2>6, <2>7, <2>9, <2>10 DEF TimersInv
<1> QED BY <1>6, <1>7

\* The change of the registers of timer i that comes before its chain starts or stops.
LEMMA ChangedRegisters ==
  ASSUME TimersInv, NEW i \in Timers, NEW s, DOMAIN s = Timers, DOMAIN s[i] = Fields,
         \A j \in Timers \ {i} : s[j] = timer[j], s[i].reload = timer[i].reload
  PROVE  /\ Shaped(s) /\ \A k \in Timers : s[k].reload \in 0 .. CounterMax - 1
         /\ \A k \in Timers, j \in Timers :
              j >= i => (InChain(s, j, k) <=> InChain(timer, j, k))
         /\ \A k \in Timers : \A e : k # i /\ ~ InChain(timer, i, k)
                /\ ExactAt(timer, e, k) /\ e[k] # NotExact => ExactAt(s, e, k)
<1>1. Shaped(s) /\ \A k \in Timers : s[k].reload \in 0 .. CounterMax - 1
  BY DEF TimersInv, Shaped
<1>2. ASSUME NEW k \in Timers, NEW j \in Timers, j >= i
      PROVE  InChain(s, j, k) <=> InChain(timer, j, k)
  <2>1. \A h \in Timers : h > j => SameRegisters(timer[h], s[h])
    BY <1>2, TimersFacts DEF SameRegisters
  <2> QED BY <2>1, SameChain
<1> QED BY <1>1, <1>2, ChangedExact

LEMMA EnableFreeStep ==
  ASSUME TimersInv, NEW i \in Timers, NEW r, DOMAIN r = Fields, r.enable,
         ~ Counted(r, i), r.reload = timer[i].reload,
         r.is_counting = timer[i].is_counting,
         timer' = StartChain([timer EXCEPT ![i] = r], i), now' = now,
         since' = IF timer[i].enable THEN Lost(since, i) ELSE [since EXCEPT ![i] = now],
         ~ timer[i].enable => CountsFrom(r, now) /\ r.refreshed = now
  PROVE  TimersInv'
<1> DEFINE s == [timer EXCEPT ![i] = r]
<1>1. /\ DOMAIN timer = Timers /\ DOMAIN since = Timers /\ Chained(timer) /\ now \in 0 .. MaxTime
      /\ \A k \in Timers : ExactAt(timer, since, k)
  BY DEF TimersInv, Shaped
<1>2. DOMAIN s = Timers /\ s[i] = r /\ \A k \in Timers \ {i} : s[k] = timer[k]
  BY <1>1
<1>3. timer' = StartChain(s, i)
  OBVIOUS
<1> HIDE DEF s
<1>4. /\ Shaped(s) /\ \A k \in Timers : s[k].reload \in 0 .. CounterMax - 1
      /\ \A k \in Timers : InChain(s, i, k) <=> InChain(timer, i, k)
      /\ \A k \in Timers : \A e : k # i /\ ~ InChain(timer, i, k)
                /\ ExactAt(timer, e, k) /\ e[k] # NotExact => ExactAt(s, e, k)
  BY <1>2, ChangedRegisters, TimersFacts
<1>5. /\ Shaped(timer') /\ \A k \in Timers : SameRegisters(s[k], timer'[k])
  BY <1>3, <1>4, StartChainFacts
<1>6. \A k \in Timers : timer'[k].reload \in 0 .. CounterMax - 1
  BY <1>4, <1>5 DEF SameRegisters
<1>7. Chained(timer')
  <2>1. ASSUME NEW k \in Timers, s[k].is_counting
        PROVE  s[k].enable /\ (Counted(s[k], k) => s[k - 1].is_counting)
    <3>1. CASE k = i
      BY <1>2, <3>1
    <3>2. CASE k # i
      <4>1. timer[k].enable /\ (Counted(timer[k], k) => timer[k - 1].is_counting) /\ s[k] = timer[k]
        BY <1>1, <1>2, <2>1, <3>2 DEF Chained
      <4>2. Counted(timer[k], k) => k - 1 \in Timers
        BY TimersFacts DEF Counted
      <4> QED BY <1>2, <4>1, <4>2
    <3> QED BY <3>1, <3>2
  <2>2. Chained(s)
    BY <2>1 DEF Chained
  <2> QED BY <1>2, <1>3, <1>4, <2>2, StartChained
<1>8. DOMAIN since' = Timers
  BY <1>1, LostFacts
<1>9. ASSUME NEW k \in Timers, since'[k] # NotExact
      PROVE  ExactAt(timer', since', k)
  <2>1. CASE timer[i].enable
    <3>1. since' = Lost(since, i)
      BY <2>1
    <3>2. k # i /\ ~ InChain(timer, i, k) /\ ExactAt(timer, since', k)
      <4>1. ExactAt(timer, since, k) /\ DOMAIN since = Timers /\ Lost(since, i)[k] # NotExact
        BY <1>1, <1>9, <3>1
      <4>2. k # i /\ ~ InChain(timer, i, k) /\ ExactAt(timer, Lost(since, i), k)
        BY <4>1, LostKept
      <4> QED BY <3>1, <4>2
    <3>3. ExactAt(s, since', k)
      BY <1>4, <1>9, <3>2
    <3>4. Shaped(s) /\ s[i].enable /\ ~ Counted(s[i], i)
      BY <1>2, <1>4
    <3> QED BY <1>3, <1>9, <3>3, <3>4, StartedExact
  <2>2. CASE ~ timer[i].enable
    <3>1. /\ since' = [since EXCEPT ![i] = now] /\ CountsFrom(r, now) /\ r.refreshed = now
          /\ since'[i] = now
      BY <1>1, <2>2
    <3>2. CASE k = i
      <4>1. CountsFrom(timer'[k], since'[k]) /\ timer'[k].is_counting
        BY <1>2, <1>3, <1>4, <3>1, <3>2, StartedRoot
      <4>2. ~ Counted(timer'[k], k)
        BY <1>2, <1>5, <3>2 DEF SameRegisters, Counted
      <4> QED BY <4>1, <4>2 DEF ExactAt
    <3>3. CASE k # i /\ k = i + 1 /\ Counted(timer[k], k)
      <4>1. k - 1 = i /\ s[k] = timer[k] /\ since'[k] = since[k]
        BY <1>1, <1>2, <3>1, <3>3, TimersFacts
      <4>2. Follows(timer, since, k)
        BY <1>1, <1>9, <3>3, <4>1 DEF ExactAt
      <4>3. Fresh(s[k]) /\ since'[k] = 0 /\ s[k].counter = 0
        BY <2>2, <4>1, <4>2 DEF Follows
      <4>4. InChain(s, i, k)
        BY <1>1, <1>4, <1>9, <3>3, <4>1, ExactNext
      <4>5. Laps(s[i], since'[i]) - since'[k] = 0
        <5>1. Laps(r, now) = (now - now) \div r.max /\ r.max \in Nat \ {0}
          BY <3>1, CountsFromFacts DEF Laps
        <5>2. now - now = 0
          BY <1>1
        <5>3. 0 \div r.max = 0
          BY <5>1
        <5> QED BY <1>2, <3>1, <4>3, <5>1, <5>2, <5>3
      <4>6. since'[i] # NotExact
        BY <1>1, <3>1 DEF NotExact
      <4>7. CountsLaps(s[k], Laps(s[i], since'[i]) - since'[k]) /\ since'[k] \in Nat
        BY <4>3, <4>5 DEF CountsLaps
      <4>8. Shaped(s) /\ ~ Counted(s[i], i) /\ CountsFrom(s[i], since'[i]) /\ Fresh(s[k])
        BY <1>2, <1>4, <3>1, <4>3
      <4> QED BY <1>3, <3>3, <4>4, <4>6, <4>7, <4>8, StartedNext
    <3>4. CASE k # i /\ ~ (k = i + 1 /\ Counted(timer[k], k))
      <4>1. since'[k] = since[k]
        BY <1>1, <3>1, <3>4
      <4>2. /\ ~ InChain(timer, i, k)
            /\ Counted(timer[k], k) => k - 1 \in Timers /\ k - 1 # i
        BY <1>1, <1>9, <3>4, <4>1, ExactApart
      <4>3. Counted(timer[k], k) => since'[k - 1] = since[k - 1]
        BY <1>1, <3>1, <4>2
      <4>4. ExactAt(timer, since', k)
        BY <1>1, <4>1, <4>3, ExactKept
      <4>5. ExactAt(s, since', k)
        BY <1>4, <1>9, <3>4, <4>2, <4>4
      <4>6. Shaped(s) /\ s[i].enable /\ ~ Counted(s[i], i)
        BY <1>2, <1>4
      <4> QED BY <1>3, <1>9, <4>5, <4>6, StartedExact
    <3> QED BY <3>2, <3>3, <3>4
  <2> QED BY <2>1, <2>2
<1>10. \A k \in Timers : ExactAt(timer', since', k)
  BY <1>9 DEF ExactAt
<1> QED BY <1>1, <1>5, <1>6, <1>7, <1>8, <1>10 DEF TimersInv

\* A timer that counts up belongs to the chain of the one before it.
LEMMA JoinedChain ==
  ASSUME NEW t, NEW i \in Timers, i # 0, NEW s, s[i].count_up,
         \A j \in Timers \ {i} : s[j] = t[j]
  PROVE  /\ RootOf(s, i) = RootOf(t, i - 1)
         /\ \A h \in Timers, k \in Timers : k # i /\ InChain(s, h, k) =>
              InChain(t, h, k) \/ InChain(t, i, k)
<1>1. i \in Nat /\ 0 .. i \subseteq Timers /\ i - 1 \in Timers
  BY TimersFacts
<1>2. RootOf(s, i) = RootOf(t, i - 1)
  <2> DEFINE S == {k \in 0 .. i : k = 0 \/ ~ s[k].count_up}
             T == {k \in 0 .. i - 1 : k = 0 \/ ~ t[k].count_up}
  <2>1. ASSUME NEW k
        PROVE  k \in S <=> k \in T
    <3>1. k \in 0 .. i - 1 => k \in 0 .. i /\ k # i /\ s[k] = t[k]
      BY <1>1
    <3>2. k \in 0 .. i /\ k # i => k \in 0 .. i - 1
      BY <1>1
    <3> QED BY <3>1, <3>2
  <2>2. S = T
    BY <2>1
  <2> QED BY <2>2 DEF RootOf
<1>3. ASSUME NEW h \in Timers, NEW k \in Timers, k # i, InChain(s, h, k)
      PROVE  InChain(t, h, k) \/ InChain(t, i, k)
  <2>1. k > h /\ \A j \in h + 1 .. k : s[j].enable /\ s[j].count_up
    BY <1>3 DEF InChain
  <2>2. h \in Nat /\ k \in Nat /\ 0 .. k \subseteq Timers
    BY TimersFacts
  <2>3. CASE h < i /\ i < k
    <3>1. \A j \in i + 1 .. k : j \in h + 1 .. k /\ j \in Timers \ {i}
      BY <1>1, <2>2, <2>3
    <3> QED BY <2>1, <2>3, <3>1 DEF InChain
  <2>4. CASE ~ (h < i /\ i < k)
    <3>1. \A j \in h + 1 .. k : j \in Timers \ {i}
      BY <1>1, <1>3, <2>2, <2>4
    <3> QED BY <2>1, <3>1 DEF InChain
  <2> QED BY <2>3, <2>4
<1> QED BY <1>2, <1>3

\* What stays exact when timer i is enabled to count up.
LEMMA CountedKept ==
  ASSUME NEW i \in Timers, NEW e, DOMAIN e = Timers, NEW k \in Timers, k # i,
         ExactAt(timer, e, k), NEW f, \A j \in Timers \ {i} : f[j] = Lost(e, i)[j],
         f[k] # NotExact
  PROVE  /\ ~ InChain(timer, i, k) /\ e[k] # NotExact /\ f[k] = e[k]
         /\ ExactAt(timer, f, k)
<1>1. f[k] = Lost(e, i)[k]
  OBVIOUS
<1>2. /\ ~ InChain(timer, i, k) /\ Lost(e, i)[k] = e[k] /\ e[k] # NotExact
      /\ Counted(timer[k], k) => k - 1 \in Timers /\ k - 1 # i
      /\ ExactAt(timer, Lost(e, i), k)
  BY <1>1, LostKept
<1>3. ExactAt(timer, f, k)
  BY <1>1, <1>2, ExactKept
<1> QED BY <1>1, <1>2, <1>3

LEMMA EnableStopsStep ==
  ASSUME TimersInv, NEW i \in Timers, i # 0, NEW r, DOMAIN r = Fields, r.enable, r.count_up,
         r.reload = timer[i].reload, r.max = CounterMax - r.reload,
         r.is_counting = timer[i].is_counting, ~ timer[i - 1].is_counting,
         timer' = StopChain([timer EXCEPT ![i] = r], i), now' = now,
         NEW x, since' = [Lost(since, i) EXCEPT ![i] = x],
         x # NotExact => /\ r.prescaler = 1 /\ r.base = r.reload /\ r.counter = 0
                         /\ x = OverflowsBefore(i)
  PROVE  TimersInv'
<1> DEFINE s == [timer EXCEPT ![i] = r]
<1>1. /\ DOMAIN timer = Timers /\ DOMAIN since = Timers /\ Chained(timer) /\ now \in 0 .. MaxTime
      /\ \A k \in Timers : ExactAt(timer, since, k)
      /\ timer[i].reload \in 0 .. CounterMax - 1
  BY DEF TimersInv, Shaped
<1>2. DOMAIN s = Timers /\ s[i] = r /\ \A k \in Timers \ {i} : s[k] = timer[k]
  BY <1>1
<1>3. timer' = StopChain(s, i)
  OBVIOUS
<1> HIDE DEF s
<1>4. /\ Shaped(s) /\ \A k \in Timers : s[k].reload \in 0 .. CounterMax - 1
      /\ \A k \in Timers : InChain(s, i, k) <=> InChain(timer, i, k)
      /\ \A k \in Timers : \A e : k # i /\ ~ InChain(timer, i, k)
                /\ ExactAt(timer, e, k) /\ e[k] # NotExact => ExactAt(s, e, k)
  BY <1>2, ChangedRegisters, TimersFacts
<1>5. /\ Shaped(timer') /\ \A k \in Timers : SameRegisters(s[k], timer'[k])
      /\ ~ timer'[i].is_counting /\ timer'[i].base = s[i].base
      /\ timer'[i].counter = s[i].counter /\ timer'[i].max = s[i].max
  <2> DEFINE u == StopChain(s, i)
  <2>1. Shaped(s)
    BY <1>4
  <2>2. /\ Shaped(u) /\ \A k \in Timers : SameRegisters(s[k], u[k])
        /\ ~ u[i].is_counting /\ u[i].base = s[i].base
        /\ u[i].counter = s[i].counter /\ u[i].max = s[i].max
    BY <2>1, StopChainFacts
  <2> HIDE DEF u
  <2> QED BY <1>3, <2>2 DEF u
<1>6. \A k \in Timers : timer'[k].reload \in 0 .. CounterMax - 1
  BY <1>4, <1>5 DEF SameRegisters
<1>7. Chained(timer')
  BY <1>1, <1>2, <1>3, <1>4, ChangedStops
<1>8. DOMAIN since' = Timers /\ since'[i] = x
  BY <1>1, LostFacts
<1>9. ASSUME NEW k \in Timers, since'[k] # NotExact
      PROVE  ExactAt(timer', since', k)
  <2>1. CASE k # i
    <3>1. ExactAt(timer, since, k) /\ DOMAIN since = Timers
      BY <1>1
    <3> DEFINE f == [Lost(since, i) EXCEPT ![i] = x]
    <3>0. f = since'
      OBVIOUS
    <3>2. f[k] # NotExact /\ \A j \in Timers \ {i} : f[j] = Lost(since, i)[j]
      BY <1>1, <1>9, LostFacts
    <3> HIDE DEF f
    <3>3. ~ InChain(timer, i, k) /\ ExactAt(timer, f, k)
      BY <2>1, <3>1, <3>2, CountedKept
    <3>4. ExactAt(s, f, k) /\ ~ InChain(s, i, k) /\ Shaped(s)
      BY <1>4, <2>1, <3>2, <3>3
    <3>5. ExactAt(StopChain(s, i), f, k)
      BY <2>1, <3>2, <3>4, StoppedExact
    <3> QED BY <1>3, <3>0, <3>5
  <2>2. CASE k = i
    <3>1. /\ x # NotExact /\ r.prescaler = 1 /\ r.base = r.reload /\ r.counter = 0
          /\ x = OverflowsBefore(i)
      BY <1>8, <1>9, <2>2
    <3>2. i - 1 \in Timers /\ i - 1 # i /\ i > 0
      BY TimersFacts
    <3>3. ~ timer[i - 1].enable
      <4>1. CASE FreeExact(i - 1)
        <5>1. ~ Counted(timer[i - 1], i - 1) /\ since[i - 1] # NotExact
          BY <4>1 DEF FreeExact
        <5>2. ExactAt(timer, since, i - 1)
          BY <1>1, <3>2
        <5> QED BY <5>1, <5>2 DEF ExactAt
      <4>2. CASE ~ FreeExact(i - 1)
        BY <3>1, <4>2 DEF OverflowsBefore
      <4> QED BY <4>1, <4>2
    <3>4. x = 0
      BY <3>1, <3>3 DEF OverflowsBefore
    <3>5. ~ timer'[i - 1].enable
      BY <1>2, <1>5, <3>2, <3>3 DEF SameRegisters
    <3>6. Fresh(timer'[i]) /\ timer'[i].counter = 0 /\ timer'[i].count_up
      BY <1>1, <1>2, <1>5, <3>1 DEF Fresh, SameRegisters
    <3>7. Follows(timer', since', i)
      BY <1>5, <1>8, <3>4, <3>5, <3>6 DEF Follows
    <3> QED BY <2>2, <3>2, <3>6, <3>7 DEF ExactAt, Counted
  <2> QED BY <2>1, <2>2
<1>10. \A k \in Timers : ExactAt(timer', since', k)
  BY <1>9 DEF ExactAt
<1> QED BY <1>1, <1>5, <1>6, <1>7, <1>8, <1>10 DEF TimersInv

LEMMA EnableStartsStep ==
  ASSUME TimersInv, NEW i \in Timers, i # 0, NEW r, DOMAIN r = Fields, r.enable, r.count_up,
         r.reload = timer[i].reload, r.max = CounterMax - r.reload,
         r.is_counting = timer[i].is_counting, timer[i - 1].is_counting,
         NEW s, s = [timer EXCEPT ![i] = r],
         timer' = StartChain(Refreshed(s, i), RootOf(s, i)), now' = now,
         NEW x, since' = [Lost(LookedAt(since, i - 1), i) EXCEPT ![i] = x],
         x # NotExact => /\ r.prescaler = 1 /\ r.base = r.reload /\ r.counter = 0
                         /\ x = OverflowsBefore(i)
  PROVE  TimersInv'
<1> DEFINE root == RootOf(s, i)
           w == Refreshed(s, i)
           e == LookedAt(since, i - 1)
<1>1. /\ DOMAIN timer = Timers /\ DOMAIN since = Timers /\ Chained(timer) /\ now \in 0 .. MaxTime
      /\ \A k \in Timers : ExactAt(timer, since, k)
      /\ timer[i].reload \in 0 .. CounterMax - 1
      /\ i - 1 \in Timers /\ i - 1 # i /\ i > 0 /\ i \in Nat
  BY TimersFacts DEF TimersInv, Shaped
<1>2. DOMAIN s = Timers /\ s[i] = r /\ \A k \in Timers \ {i} : s[k] = timer[k]
  BY <1>1
<1> DEFINE Keeps == \A k \in Timers : \A f : k # i /\ ~ InChain(timer, i, k)
                      /\ ExactAt(timer, f, k) /\ f[k] # NotExact => ExactAt(s, f, k)
<1>3. Shaped(s) /\ (\A k \in Timers : s[k].reload \in 0 .. CounterMax - 1) /\ Keeps
  <2>1. DOMAIN s = Timers /\ DOMAIN s[i] = Fields /\ s[i].reload = timer[i].reload
        /\ \A k \in Timers \ {i} : s[k] = timer[k]
    BY <1>2
  <2> QED BY <2>1, ChangedRegisters
<1> HIDE DEF Keeps
<1>4. /\ root = RootOf(timer, i - 1)
      /\ \A k \in Timers : k # i /\ InChain(s, root, k) =>
           InChain(timer, root, k) \/ InChain(timer, i, k)
  <2>1. root \in Timers
    BY RootFacts
  <2> HIDE DEF root
  <2>2. s[i].count_up
    BY <1>2
  <2>3. /\ RootOf(s, i) = RootOf(timer, i - 1)
        /\ \A h \in Timers, k \in Timers : k # i /\ InChain(s, h, k) =>
             InChain(timer, h, k) \/ InChain(timer, i, k)
    BY <1>2, <2>2, JoinedChain
  <2> QED BY <2>1, <2>3 DEF root
<1>5. /\ root \in Timers /\ root \in 0 .. i - 1 /\ ~ Counted(timer[root], root)
      /\ timer[root].is_counting /\ timer[root].enable /\ s[root] = timer[root]
  <2>1. /\ RootOf(timer, i - 1) \in 0 .. i - 1 /\ RootOf(timer, i - 1) \in Timers
        /\ ~ Counted(timer[RootOf(timer, i - 1)], RootOf(timer, i - 1))
    BY <1>1, RootFacts
  <2>2. i - 1 \in Nat /\ RootOf(timer, i - 1) \in RootOf(timer, i - 1) .. i - 1
    BY <1>1, <2>1
  <2>3. timer[RootOf(timer, i - 1)].is_counting /\ timer[RootOf(timer, i - 1)].enable
    BY <1>1, <2>2, ChainCounts
  <2>4. RootOf(timer, i - 1) # i
    BY <1>1, <2>1
  <2> QED BY <1>2, <1>4, <2>1, <2>3, <2>4
<1>6. /\ Shaped(w) /\ \A k \in Timers : SameCounting(s[k], w[k])
  BY <1>3, RefreshedFacts
<1>7. timer' = StartChain(w, root)
  OBVIOUS
<1>8. DOMAIN e = Timers /\ (Late(i - 1) => e = Lost(since, root)) /\ (~ Late(i - 1) => e = since)
  BY <1>1, <1>4, <1>5, LostFacts DEF LookedAt
<1> HIDE DEF w, root, e
<1>9. w[root].enable /\ ~ Counted(w[root], root)
  BY <1>5, <1>6 DEF SameCounting, SameRegisters, Counted
<1>10. Chained(timer')
  <2>1. ASSUME NEW k \in Timers, s[k].is_counting
        PROVE  s[k].enable /\ (Counted(s[k], k) => s[k - 1].is_counting)
    <3>1. CASE k = i
      BY <1>1, <1>2, <3>1
    <3>2. CASE k # i
      <4>1. timer[k].enable /\ (Counted(timer[k], k) => timer[k - 1].is_counting) /\ s[k] = timer[k]
        BY <1>1, <1>2, <2>1, <3>2 DEF Chained
      <4>2. Counted(timer[k], k) => k - 1 \in Timers
        BY TimersFacts DEF Counted
      <4> QED BY <1>2, <4>1, <4>2
    <3> QED BY <3>1, <3>2
  <2>2. Chained(s)
    BY <2>1 DEF Chained
  <2>3. Chained(w)
    BY <1>6, <2>2, SameChained
  <2> QED BY <1>5, <1>6, <1>7, <1>9, <2>3, StartChained
<1>11. /\ Shaped(timer') /\ \A k \in Timers : SameRegisters(w[k], timer'[k])
  <2> DEFINE u == StartChain(w, root)
  <2>1. Shaped(u) /\ \A k \in Timers : SameRegisters(w[k], u[k])
    BY <1>5, <1>6, StartChainFacts
  <2> HIDE DEF u
  <2> QED BY <1>7, <2>1 DEF u
<1>12. \A k \in Timers : timer'[k].reload \in 0 .. CounterMax - 1
  BY <1>3, <1>6, <1>11 DEF SameCounting, SameRegisters
<1>13. DOMAIN since' = Timers /\ since'[i] = x
  <2>1. DOMAIN Lost(e, i) = Timers
    BY <1>8, LostFacts
  <2> QED BY <2>1 DEF e
<1>14. ASSUME NEW k \in Timers, k # i, since'[k] # NotExact
       PROVE  ExactAt(timer', since', k)
  <2>1. ExactAt(timer, since, k)
    BY <1>1
  <2>2. ExactAt(timer, e, k)
    <3>1. CASE Late(i - 1)
      <4>1. CASE e[k] # NotExact
        BY <1>1, <1>5, <1>8, <2>1, <3>1, <4>1, LostKept
      <4>2. CASE e[k] = NotExact
        BY <4>2 DEF ExactAt
      <4> QED BY <4>1, <4>2
    <3>2. CASE ~ Late(i - 1)
      BY <1>8, <2>1, <3>2
    <3> QED BY <3>1, <3>2
  <2>3. ~ InChain(timer, i, k) /\ e[k] # NotExact /\ since'[k] = e[k] /\ ExactAt(timer, since', k)
    <3> DEFINE f == [Lost(e, i) EXCEPT ![i] = x]
    <3>1. f = since'
      BY DEF e
    <3>2. f[k] # NotExact /\ \A j \in Timers \ {i} : f[j] = Lost(e, i)[j]
      BY <1>8, <1>14, <3>1, LostFacts
    <3> HIDE DEF f
    <3>3. ~ InChain(timer, i, k) /\ e[k] # NotExact /\ f[k] = e[k] /\ ExactAt(timer, f, k)
      BY <1>8, <1>14, <2>2, <3>2, CountedKept
    <3> QED BY <3>1, <3>3
  <2>4. ExactAt(s, since', k)
    BY <1>3, <1>14, <2>3 DEF Keeps
  <2>5. s[root].refreshed <= now \/ (k # root /\ ~ InChain(s, root, k))
    <3>1. CASE Late(i - 1)
      <4>1. Lost(since, root)[k] # NotExact
        BY <1>8, <2>3, <3>1
      <4>2. k # root /\ ~ InChain(timer, root, k)
        BY <1>1, <1>5, <2>1, <4>1, LostKept
      <4> QED BY <1>4, <1>14, <2>3, <4>2
    <3>2. CASE ~ Late(i - 1)
      <4>1. ~ (now < s[root].refreshed)
        BY <1>4, <1>5, <3>2 DEF Late
      <4>2. ASSUME k = root \/ InChain(s, root, k)
            PROVE  s[root].refreshed \in Int
        <5>1. ~ Counted(s[root], root) /\ s[root].enable
          BY <1>5
        <5>2. CASE k = root
          BY <1>14, <2>4, <5>1, <5>2 DEF ExactAt, CountsFrom
        <5>3. CASE k # root
          <6>1. k = root + 1 /\ Counted(s[k], k)
            BY <1>5, <1>14, <2>4, <4>2, <5>3, ExactApart
          <6>2. k - 1 = root
            BY <1>5, <6>1, TimersFacts
          <6> QED BY <1>14, <2>4, <5>1, <6>1, <6>2 DEF ExactAt, Follows, CountsFrom
        <5> QED BY <5>2, <5>3
      <4>3. now \in Int
        BY <1>1, TimersAssumption
      <4> QED BY <4>1, <4>2, <4>3
    <3> QED BY <3>1, <3>2
  <2>6. ExactAt(w, since', k)
    <3>1. s[root].enable
      BY <1>5
    <3> QED BY <1>1, <1>3, <1>14, <2>4, <2>5, <3>1, RefreshedExact DEF w, root
  <2> QED BY <1>5, <1>6, <1>7, <1>9, <1>14, <2>6, StartedExact
<1>15. ASSUME x # NotExact
       PROVE  ExactAt(timer', since', i)
  <2> DEFINE from == since[root]
             o == Overflows(timer[root], now - timer[root].refreshed)
  <2>1. /\ r.prescaler = 1 /\ r.base = r.reload /\ r.counter = 0 /\ x = OverflowsBefore(i)
    BY <1>15
  <2>2. timer[i - 1].enable
    BY <1>1 DEF Chained
  <2>3. /\ FreeExact(i - 1) /\ timer[i - 1].refreshed <= now /\ x = TimesOverflowed(i - 1)
        /\ Overflows(timer[i - 1], now - timer[i - 1].refreshed) = 0
    BY <1>15, <2>1, <2>2 DEF OverflowsBefore
  <2>4. root = i - 1
    <3>1. ~ Counted(timer[i - 1], i - 1)
      BY <2>3 DEF FreeExact
    <3>2. \A k \in RootOf(timer, i - 1) + 1 .. i - 1 : Counted(timer[k], k)
      BY <1>1, RootFacts
    <3>3. root < i - 1 => i - 1 \in root + 1 .. i - 1
      BY <1>1, <1>5
    <3>4. ~ (root < i - 1)
      BY <1>4, <3>1, <3>2, <3>3
    <3> QED BY <1>1, <1>5, <3>4
  <2>5. /\ from # NotExact /\ CountsFrom(timer[root], from) /\ o = 0
        /\ timer[root].refreshed <= now /\ x = (now - from) \div Lap(timer[root])
    <3>1. ExactAt(timer, since, root)
      BY <1>1, <1>5
    <3> QED BY <1>5, <2>3, <2>4, <3>1 DEF ExactAt, FreeExact, TimesOverflowed
  <2>6. InChain(s, root, root + 1) /\ root + 1 = i
    <3>1. root + 1 = i /\ \A j \in root + 1 .. i : j = i
      BY <1>1, <2>4
    <3>2. i > root
      BY <1>1, <1>5
    <3> QED BY <1>2, <3>1, <3>2 DEF InChain
  <2>7. /\ CountsFrom(w[root], from) /\ w[root].refreshed = now /\ w[i] = r
    <3>1. CountsFrom(s[root], from) /\ s[root].refreshed <= now
          /\ Overflows(s[root], now - s[root].refreshed) = 0
      BY <1>5, <2>5
    <3>2. root + 1 \in Timers /\ InChain(s, root, root + 1)
      BY <2>6
    <3>3. CountsFrom(w[root], from) /\ w[root].refreshed = now
      BY <1>1, <1>3, <3>1, RefreshedCounts DEF w, root
    <3>4. w[i] = s[i]
      <4>1. Shaped(s) /\ now \in 0 .. MaxTime /\ s[i].enable /\ s[i].count_up
        BY <1>1, <1>2, <1>3
      <4>2. root = RootOf(s, i) /\ w = Refreshed(s, i) /\ i = root + 1
        BY <2>6 DEF root, w
      <4>3. CountsFrom(s[root], from) /\ PassesNothing(s[root])
        BY <3>1 DEF PassesNothing
      <4> HIDE DEF from, o
      <4> QED BY <4>1, <4>2, <4>3, RefreshedNext
    <3> QED BY <1>2, <2>6, <3>3, <3>4
  <2>8. Laps(w[root], from) = x /\ x \in Nat
    <3>1. w[root].max = Lap(timer[root])
      <4>1. w[root].reload = timer[root].reload /\ w[root].prescaler = timer[root].prescaler
        BY <1>5, <1>6 DEF SameCounting, SameRegisters
      <4> QED BY <2>7, <4>1 DEF CountsFrom, Lap
    <3>2. Laps(w[root], from) \in Nat
      BY <2>7, CountsFromFacts
    <3> QED BY <2>5, <2>7, <3>1, <3>2 DEF Laps
  <2>9. since'[root] = from
    <3>1. ~ Late(i - 1)
      <4>1. timer[root].refreshed \in Int /\ now \in Int
        BY <1>1, <2>5, TimersAssumption DEF CountsFrom
      <4> QED BY <1>4, <2>5, <4>1 DEF Late
    <3>2. e = since
      BY <1>8, <3>1
    <3>3. ~ InChain(timer, i, root) /\ root # i
      BY <1>1, <1>5 DEF InChain
    <3>4. Lost(e, i)[root] = from /\ DOMAIN Lost(e, i) = Timers
      BY <1>1, <1>5, <3>2, <3>3, LostFacts
    <3>5. since' = [Lost(e, i) EXCEPT ![i] = x]
      BY DEF e
    <3> QED BY <1>5, <3>3, <3>4, <3>5
  <2>10. Fresh(w[i])
    BY <1>1, <2>1, <2>7 DEF Fresh
  <2>11. InChain(w, root, i)
    <3>1. \A j \in Timers : j > root => SameRegisters(s[j], w[j])
      BY <1>6 DEF SameCounting
    <3> QED BY <1>5, <2>6, <3>1, SameChain
  <2>12. CountsLaps(w[i], Laps(w[root], since'[root]) - since'[i])
    <3>1. Laps(w[root], since'[root]) - since'[i] = 0
      BY <1>13, <2>8, <2>9
    <3> QED BY <2>1, <2>7, <3>1 DEF CountsLaps
  <2> HIDE DEF from
  <2>13. CountsFrom(w[root], since'[root]) /\ since'[root] # NotExact /\ since'[i] \in Nat
    BY <1>13, <2>5, <2>7, <2>8, <2>9
  <2>14. i = root + 1
    BY <2>6
  <2>15. Shaped(w) /\ root \in Timers /\ ~ Counted(w[root], root)
    BY <1>5, <1>6, <1>9
  <2>16. PICK f : f = since'
    OBVIOUS
  <2>17. /\ CountsFrom(w[root], f[root]) /\ f[root] # NotExact /\ f[i] \in Nat
         /\ CountsLaps(w[i], Laps(w[root], f[root]) - f[i])
    BY <2>12, <2>13, <2>16
  <2>18. ExactAt(StartChain(w, root), f, i)
    BY <2>10, <2>11, <2>14, <2>15, <2>17, StartedNext
  <2> QED BY <1>7, <2>16, <2>18
<1>16. \A k \in Timers : ExactAt(timer', since', k)
  <2>1. ASSUME NEW k \in Timers, since'[k] # NotExact
        PROVE  ExactAt(timer', since', k)
    BY <1>13, <1>14, <1>15, <2>1
  <2> QED BY <2>1 DEF ExactAt
<1> QED BY <1>1, <1>10, <1>11, <1>12, <1>13, <1>16 DEF TimersInv

LEMMA EnableTimerStep ==
  ASSUME TimersInv, NEW i \in Timers, NEW count_up \in BOOLEAN, NEW prescaler \in Prescalers,
         EnableTimer(i, count_up, prescaler)
  PROVE  TimersInv'
<1> DEFINE q == [timer[i] EXCEPT !.count_up = count_up, !.prescaler = prescaler]
           t == [timer EXCEPT ![i] = q]
           real == GetRealCounter(timer[i])
<1>1. /\ DOMAIN timer = Timers /\ DOMAIN timer[i] = Fields /\ now \in 0 .. MaxTime
      /\ timer[i].reload \in 0 .. CounterMax - 1
  BY DEF TimersInv, Shaped
<1>2. t = [timer EXCEPT ![i].count_up = count_up, ![i].prescaler = prescaler]
  BY <1>1 DEF Fields
<1>4. /\ DOMAIN q = Fields /\ q.reload = timer[i].reload /\ q.enable = timer[i].enable
      /\ q.is_counting = timer[i].is_counting /\ q.count_up = count_up
      /\ q.prescaler = prescaler
  BY <1>1 DEF Fields
<1> HIDE DEF q
<1>5. DOMAIN t = Timers /\ t[i] = q /\ \A k \in Timers \ {i} : t[k] = timer[k]
  BY <1>1
<1>6. \A r : [t EXCEPT ![i] = r] = [timer EXCEPT ![i] = r]
  BY <1>1
<1> HIDE DEF t
<1>3. /\ timer' = IF Counted(t[i], i) THEN EnableCounted(t, i, real) ELSE EnableFree(t, i, real)
      /\ since' = SinceEnabled(i, count_up, prescaler) /\ now' = now
  BY <1>2 DEF EnableTimer, OneStep
<1> HIDE DEF real
<1>7. CASE ~ Counted(t[i], i)
  <2> DEFINE max == (CounterMax - t[i].reload) * t[i].prescaler
             counter == IF t[i].enable THEN (real * t[i].prescaler) + (now % t[i].prescaler) ELSE 0
             base == IF t[i].enable THEN q.base ELSE t[i].reload
             left == Wrap(max - counter)
             r == [q EXCEPT !.max = max, !.period = max, !.counter = counter, !.base = base,
                            !.left = left, !.refreshed = now, !.enable = TRUE]
             s == [t EXCEPT ![i].max = max, ![i].period = max, ![i].counter = counter,
                            ![i].base = IF t[i].enable THEN @ ELSE t[i].reload,
                            ![i].left = left, ![i].refreshed = now, ![i].enable = TRUE]
  <2>1. timer' = StartChain(s, i)
    BY <1>3, <1>7 DEF EnableFree
  <2>2. s = [t EXCEPT ![i] = r]
    <3> HIDE DEF max, counter, left
    <3> QED BY <1>4, <1>5 DEF Fields
  <2>3. max \in Nat \ {0} /\ max < U64 /\ max = (CounterMax - q.reload) * q.prescaler
    BY <1>1, <1>4, <1>5, MaxFacts
  <2>4. ~ timer[i].enable => counter = 0 /\ left = max /\ base = q.reload
    <3> HIDE DEF max
    <3>1. ~ timer[i].enable => counter = 0 /\ base = q.reload
      BY <1>4, <1>5
    <3>2. Wrap(max) = max
      <4>1. max \in 0 .. U64 - 1
        BY <2>3, TimersAssumption
      <4> QED BY <4>1, WrapFacts
    <3>3. max - 0 = max
      BY <2>3
    <3> QED BY <3>1, <3>2, <3>3
  <2> HIDE DEF max, counter, base, left, s
  <2>5. /\ DOMAIN r = Fields /\ r.enable /\ r.reload = q.reload /\ r.count_up = q.count_up
        /\ r.is_counting = q.is_counting /\ r.prescaler = q.prescaler /\ r.max = max
        /\ r.period = max /\ r.counter = counter /\ r.base = base /\ r.left = left
        /\ r.refreshed = now
    BY <1>4 DEF Fields
  <2> HIDE DEF r
  <2>6. ~ Counted(r, i)
    BY <1>5, <1>7, <2>5 DEF Counted
  <2>7. timer' = StartChain([timer EXCEPT ![i] = r], i)
    BY <1>6, <2>1, <2>2
  <2>8. since' = IF timer[i].enable THEN Lost(since, i) ELSE [since EXCEPT ![i] = now]
    BY <1>3, <1>4, <1>5, <1>7 DEF SinceEnabled, Counted
  <2>9. ASSUME ~ timer[i].enable
        PROVE  CountsFrom(r, now) /\ r.refreshed = now
    <3>1. now \in Nat /\ now <= now /\ now - now = 0
      BY <1>1, TimersAssumption
    <3>2. (now - now) % max = 0
      <4>1. 0 % max = 0
        BY <2>3
      <4> QED BY <3>1, <4>1
    <3>3. max - 0 = max
      BY <2>3
    <3> QED BY <1>1, <1>4, <2>3, <2>4, <2>5, <2>9, <3>1, <3>2, <3>3 DEF CountsFrom
  <2>10. r.reload = timer[i].reload /\ r.is_counting = timer[i].is_counting
    BY <1>4, <2>5
  <2> QED BY <1>3, <2>5, <2>6, <2>7, <2>8, <2>9, <2>10, EnableFreeStep
<1>8. CASE Counted(t[i], i)
  <2> DEFINE max == CounterMax - t[i].reload
             period == Wrap((CounterMax - t[i].reload) * t[i - 1].period)
             counter == IF t[i].enable THEN real ELSE 0
             base == IF t[i].enable THEN q.base ELSE t[i].reload
             r == [q EXCEPT !.max = max, !.period = period, !.counter = counter, !.base = base,
                            !.enable = TRUE]
             s == [t EXCEPT ![i].max = max, ![i].period = period, ![i].counter = counter,
                            ![i].base = IF t[i].enable THEN @ ELSE t[i].reload,
                            ![i].enable = TRUE]
             x == IF timer[i].enable \/ prescaler # 1 THEN NotExact ELSE OverflowsBefore(i)
  <2>1. timer' = IF t[i - 1].is_counting THEN StartChain(Refreshed(s, i), RootOf(s, i))
                 ELSE StopChain(s, i)
    BY <1>3, <1>8 DEF EnableCounted
  <2>2. s = [t EXCEPT ![i] = r]
    <3> HIDE DEF max, period, counter
    <3> QED BY <1>4, <1>5 DEF Fields
  <2>3. max = CounterMax - q.reload
    BY <1>5
  <2>4. ~ timer[i].enable => counter = 0 /\ base = q.reload
    BY <1>4, <1>5
  <2> HIDE DEF max, period, counter, base, s
  <2>5. /\ DOMAIN r = Fields /\ r.enable /\ r.reload = q.reload /\ r.count_up = q.count_up
        /\ r.is_counting = q.is_counting /\ r.prescaler = q.prescaler /\ r.max = max
        /\ r.counter = counter /\ r.base = base
    BY <1>4 DEF Fields
  <2> HIDE DEF r
  <2>6. i # 0 /\ r.count_up /\ count_up /\ i > 0
    <3>1. q.count_up /\ i > 0
      BY <1>5, <1>8 DEF Counted
    <3>2. r.count_up
      BY <2>5, <3>1
    <3>3. count_up
      BY <1>4, <3>1, Zenon
    <3> QED BY <3>1, <3>2, <3>3, TimersFacts
  <2>7. t[i - 1] = timer[i - 1]
    <3>1. i - 1 \in Timers /\ i - 1 # i
      BY <2>6, TimersFacts
    <3> QED BY <1>5, <3>1
  <2>8. s = [timer EXCEPT ![i] = r]
    BY <1>6, <2>2
  <2>9. since' = [Lost(IF timer[i - 1].is_counting THEN LookedAt(since, i - 1) ELSE since, i)
                    EXCEPT ![i] = x]
    BY <1>3, <2>6 DEF SinceEnabled
  <2>10. x # NotExact => /\ r.prescaler = 1 /\ r.base = r.reload /\ r.counter = 0
                         /\ x = OverflowsBefore(i)
    BY <1>4, <2>4, <2>5
  <2> HIDE DEF x
  <2>11. /\ r.reload = timer[i].reload /\ r.max = CounterMax - r.reload
         /\ r.is_counting = timer[i].is_counting
    BY <1>4, <2>3, <2>5
  <2>12. PICK y : y = x
    OBVIOUS
  <2>13. y # NotExact => /\ r.prescaler = 1 /\ r.base = r.reload /\ r.counter = 0
                         /\ y = OverflowsBefore(i)
    BY <2>10, <2>12
  <2>14. CASE timer[i - 1].is_counting
    <3>1. PICK u : u = s
      OBVIOUS
    <3>2. u = [timer EXCEPT ![i] = r] /\ timer' = StartChain(Refreshed(u, i), RootOf(u, i))
      BY <2>1, <2>7, <2>8, <2>14, <3>1
    <3>3. since' = [Lost(LookedAt(since, i - 1), i) EXCEPT ![i] = y]
      BY <2>9, <2>12, <2>14
    <3> QED BY <1>3, <2>5, <2>6, <2>11, <2>13, <2>14, <3>2, <3>3, EnableStartsStep
  <2>15. CASE ~ timer[i - 1].is_counting
    <3>1. timer' = StopChain([timer EXCEPT ![i] = r], i)
      BY <2>1, <2>7, <2>8, <2>15
    <3>2. since' = [Lost(since, i) EXCEPT ![i] = y]
      BY <2>9, <2>12, <2>15
    <3> QED BY <1>3, <2>5, <2>6, <2>11, <2>13, <2>15, <3>1, <3>2, EnableStopsStep
  <2> QED BY <2>14, <2>15
<1> QED BY <1>7, <1>8

\* The invariant that it takes to say what the counters show: timers count only with their
\* chain, and have counted exactly as long as their registers stand.
THEOREM TimersInvariant == TimersSpec => []TimersInv
<1>1. TimersInit => TimersInv
  BY TimersInitInv
<1>2. TimersInv /\ [TimersNext]_timersVars => TimersInv'
  <2> SUFFICES ASSUME TimersInv, [TimersNext]_timersVars PROVE TimersInv'
    OBVIOUS
  <2>1. CASE TimeJumps
    BY <2>1, TimeJumpsStep
  <2>2. ASSUME NEW i \in Timers, NEW count_up \in BOOLEAN, NEW prescaler \in Prescalers,
               EnableTimer(i, count_up, prescaler)
        PROVE  TimersInv'
    BY <2>2, EnableTimerStep
  <2>3. ASSUME NEW i \in Timers, NEW count_up \in BOOLEAN,
               DisableTimer(i, count_up, timer[i].prescaler)
        PROVE  TimersInv'
    <3>1. PICK prescaler : prescaler = timer[i].prescaler
      OBVIOUS
    <3>2. DisableTimer(i, count_up, prescaler)
      BY <2>3, <3>1
    <3> QED BY <3>2, DisableTimerStep
  <2>4. ASSUME NEW i \in Timers, NEW reload \in Reloads, WriteReload(i, reload)
        PROVE  TimersInv'
    BY <2>4, WriteReloadStep
  <2>5. ASSUME NEW i \in Timers, ReadCounter(i)
        PROVE  TimersInv'
    BY <2>5, ReadCounterStep
  <2>6. CASE UNCHANGED timersVars
    BY <2>6 DEF timersVars, TimersInv, Chained, ExactAt, Follows, Shaped
  <2> QED BY <2>1, <2>2, <2>3, <2>4, <2>5, <2>6 DEF TimersNext
<1> QED BY <1>1, <1>2, PTL DEF TimersSpec

\* What a timer that counts the cycles shows.
LEMMA FreeShows ==
  ASSUME TimersInv, NEW i \in Timers, since[i] # NotExact, ~ Counted(timer[i], i),
         timer[i].refreshed <= now
  PROVE  Shown(i) = timer[i].reload + (((now - since[i]) \div timer[i].prescaler)
                                         % (CounterMax - timer[i].reload))
<1> DEFINE r == timer[i]
           u == Refreshed(timer, i)[i]
           x == now - since[i]
           p == r.prescaler
           m == CounterMax - r.reload
           ticks == (x \div p) % m
<1>1. /\ Shaped(timer) /\ now \in 0 .. MaxTime /\ now \in Nat
      /\ CountsFrom(r, since[i]) /\ r.is_counting
  <2>1. ExactAt(timer, since, i)
    BY DEF TimersInv
  <2> QED BY <2>1, TimersAssumption DEF TimersInv, ExactAt
<1>2. RootOf(timer, i) = i
  <2>1. RootOf(timer, i) \in 0 .. i /\ \A k \in RootOf(timer, i) + 1 .. i : Counted(timer[k], k)
    BY RootFacts
  <2>2. i \in Nat
    BY TimersFacts
  <2>3. RootOf(timer, i) < i => i \in RootOf(timer, i) + 1 .. i
    BY <2>1, <2>2
  <2> QED BY <2>1, <2>2, <2>3
<1>3. CountsFrom(u, since[i]) /\ u.refreshed = now
  BY <1>1, <1>2, RefreshedCounts
<1>4. u.prescaler = p /\ u.reload = r.reload
  BY <1>1, RefreshedFacts DEF SameCounting, SameRegisters
<1>5. Shown(i) = GetRealCounter(u)
  BY <1>1 DEF Shown
<1> HIDE DEF r, u
<1>6. /\ p \in Nat \ {0} /\ r.reload \in 0 .. CounterMax - 1 /\ x \in Nat
      /\ u.base = r.reload /\ u.counter = x % (m * p)
  <2>1. p \in Nat \ {0} /\ r.reload \in 0 .. CounterMax - 1
    BY <1>1, TimersAssumption DEF CountsFrom
  <2>2. u.base = r.reload /\ u.max = m * p /\ u.counter = (u.refreshed - since[i]) % u.max
    BY <1>3, <1>4 DEF CountsFrom
  <2>3. x \in Nat
    BY <1>3, CountsFromFacts
  <2> HIDE DEF p, m
  <2> QED BY <1>3, <2>1, <2>2, <2>3
<1>7. m \in Nat \ {0} /\ CounterMax \in Nat \ {0}
  BY <1>6, TimersAssumption
<1> HIDE DEF x, p
<1>8. u.counter \div u.prescaler = ticks
  <2> HIDE DEF m
  <2>1. (x % (m * p)) \div p = (x \div p) % m
    BY <1>6, <1>7, DivOfMod
  <2> QED BY <1>4, <1>6, <2>1 DEF p
<1>9. ticks \in 0 .. m - 1
  <2>1. x \div p \in Int
    BY <1>6, Division
  <2> HIDE DEF m
  <2> QED BY <1>7, <2>1, Division
<1> HIDE DEF ticks
<1>10. r.reload + ticks \in 0 .. CounterMax - 1
  BY <1>6, <1>7, <1>9
<1>11. GetRealCounter(u) = r.reload + ticks
  BY <1>6, <1>7, <1>8, <1>10 DEF GetRealCounter
<1> QED BY <1>5, <1>11 DEF ticks, x, p, m, r

\* What a timer shows that counts the overflows of one that counts the cycles.
LEMMA CountedShows ==
  ASSUME TimersInv, NEW i \in Timers, since[i] # NotExact, Counted(timer[i], i),
         timer[i - 1].enable, timer[i - 1].refreshed <= now,
         TimesOverflowed(i - 1) - since[i] < CounterMax - timer[i].reload
  PROVE  Shown(i) = timer[i].reload + (TimesOverflowed(i - 1) - since[i])
<1> DEFINE h == i - 1
           from == since[h]
           c == Laps(timer[h], from) - since[i]
           u == Refreshed(timer, i)
           o == Overflows(timer[h], now - timer[h].refreshed)
           count == TimesOverflowed(h) - since[i]
<1>1. /\ h \in Timers /\ h + 1 = i /\ i \in Nat /\ i > 0
  BY TimersFacts DEF Counted
<1>2. /\ Shaped(timer) /\ now \in 0 .. MaxTime /\ Follows(timer, since, i)
  <2>1. ExactAt(timer, since, i)
    BY DEF TimersInv
  <2> QED BY <2>1 DEF TimersInv, ExactAt
<1>3. /\ Fresh(timer[i]) /\ since[i] \in Nat /\ ~ Counted(timer[h], h)
      /\ CountsFrom(timer[h], from) /\ CountsLaps(timer[i], c) /\ Waits(timer[i], c)
  BY <1>2 DEF Follows
<1>4. Shown(i) = GetRealCounter(u[i])
  BY <1>3 DEF Shown, Waits
<1>5. RootOf(timer, i) = h
  <2>1. h + 1 \in Timers /\ Counted(timer[h + 1], h + 1)
    BY <1>1
  <2> HIDE DEF h
  <2>2. RootOf(timer, h + 1) = h
    BY <1>1, <1>3, <2>1, RootOfNext
  <2> QED BY <1>1, <2>2
<1>6. \A k \in Timers : SameCounting(timer[k], u[k])
  BY <1>2, RefreshedFacts
<1>7. InChain(timer, h, i)
  <2>1. i > h /\ \A j \in h + 1 .. i : j = i
    BY <1>1
  <2> QED BY <1>3, <2>1 DEF InChain, Fresh
<1> HIDE DEF h, c, from
<1>8. timer[h].refreshed <= now
  BY DEF h
<1>9. /\ CountsFrom(u[h], from) /\ u[h].refreshed = now /\ o \in Nat
      /\ Laps(u[h], from) = Laps(timer[h], from) + o
      /\ Fresh(u[i]) /\ CountsLaps(u[i], c + o)
  <2>1. h + 1 \in Timers /\ InChain(timer, h, h + 1)
    BY <1>1, <1>7
  <2>2. /\ CountsFrom(u[h], from) /\ u[h].refreshed = now /\ o \in Nat
        /\ Laps(u[h], from) = Laps(timer[h], from) + o
        /\ Fresh(u[h + 1]) /\ CountsLaps(u[h + 1], c + o)
    BY <1>1, <1>2, <1>3, <1>5, <1>8, <2>1, RefreshedCounts
  <2> QED BY <1>1, <2>2
<1> HIDE DEF o, u
<1>10. c + o = count
  <2>1. u[h].max = Lap(timer[h])
    BY <1>1, <1>6, <1>9 DEF CountsFrom, Lap, SameCounting, SameRegisters
  <2>2. Laps(u[h], from) = TimesOverflowed(h)
    BY <1>9, <2>1 DEF Laps, TimesOverflowed, from
  <2>3. Laps(timer[h], from) \in Nat
    BY <1>3, CountsFromFacts
  <2> QED BY <1>3, <1>9, <2>2, <2>3 DEF c
<1> HIDE DEF count
<1>11. /\ u[i].reload = timer[i].reload /\ u[i].base = timer[i].reload /\ u[i].prescaler = 1
       /\ timer[i].reload \in 0 .. CounterMax - 1 /\ u[i].max = CounterMax - timer[i].reload
  BY <1>6, <1>9 DEF Fresh, SameCounting, SameRegisters
<1>12. count \in Nat /\ count < CounterMax - timer[i].reload /\ u[i].counter = count
  <2>1. count < CounterMax - timer[i].reload
    BY DEF count, h
  <2> QED BY <1>9, <1>10, <1>11, <2>1 DEF CountsLaps
<1>13. GetRealCounter(u[i]) = timer[i].reload + count
  <2>1. timer[i].reload + count \in 0 .. CounterMax - 1 /\ count \div 1 = count
    BY <1>11, <1>12, TimersAssumption
  <2> QED BY <1>11, <1>12, <2>1, TimersAssumption DEF GetRealCounter
<1> QED BY <1>4, <1>13 DEF count, h

\* A timer that counts the cycles shows what has passed since it was enabled, and one that
\* counts its overflows shows, until it overflows itself, how often it has overflowed since
\* both are enabled: for every length of the chains, wherever the time jumps in between,
\* whenever anything is read and whatever is done to the other timers, but not while the
\* time is behind that of the last look (timers.cpp, UpdateCounter and AddToCounter).
THEOREM TimersCountTime == TimersSpec => []CountsElapsedTime
<1>1. ASSUME TimersInv, NEW i \in Timers, since[i] # NotExact, Counted(timer[i], i),
             ~ timer[i - 1].enable
      PROVE  Shown(i) = timer[i].reload
  <2>1. Follows(timer, since, i)
    BY <1>1 DEF TimersInv, ExactAt
  <2>2. /\ Fresh(timer[i]) /\ timer[i].counter = 0 /\ ~ timer[i].is_counting
    BY <1>1, <2>1 DEF Follows
  <2>3. Shown(i) = GetRealCounter(timer[i])
    BY <2>2 DEF Shown
  <2>4. /\ timer[i].reload + 0 \div 1 = timer[i].reload
        /\ timer[i].reload % CounterMax = timer[i].reload
    BY <2>2, TimersAssumption DEF Fresh
  <2> QED BY <2>2, <2>3, <2>4 DEF GetRealCounter, Fresh
<1>2. TimersInv => CountsElapsedTime
  <2> SUFFICES ASSUME TimersInv, NEW i \in Timers, since[i] # NotExact
               PROVE  LET r == timer[i]
                          range == CounterMax - r.reload
                      IN IF Counted(r, i)
                         THEN LET prev == timer[i - 1]
                                  count == IF prev.enable THEN TimesOverflowed(i - 1) - since[i]
                                           ELSE 0
                              IN (prev.enable => prev.refreshed <= now) /\ count < range
                                 => Shown(i) = r.reload + count
                         ELSE r.refreshed <= now
                              => Shown(i) = r.reload
                                   + (((now - since[i]) \div r.prescaler) % range)
    BY DEF CountsElapsedTime
  <2>1. CASE ~ Counted(timer[i], i)
    BY <2>1, FreeShows
  <2>2. CASE Counted(timer[i], i) /\ timer[i - 1].enable
    BY <2>2, CountedShows
  <2>3. CASE Counted(timer[i], i) /\ ~ timer[i - 1].enable
    <3>1. Shown(i) = timer[i].reload /\ timer[i].reload \in Int
      BY <1>1, <2>3 DEF TimersInv
    <3>2. timer[i].reload + 0 = timer[i].reload
      BY <3>1
    <3> QED BY <2>3, <3>1, <3>2
  <2> QED BY <2>1, <2>2, <2>3
<1> QED BY <1>2, TimersInvariant, PTL

\* What the run explores is the one or the other.
LEMMA CoreRefines == CoreSpec => GbaSpec /\ TimersSpec
<1>1. CoreInit => GbaInit /\ TimersInit
  BY DEF CoreInit
<1>2. [CoreNext]_coreVars => [GbaNext]_gbaVars /\ [TimersNext]_timersVars
  BY DEF CoreNext, coreVars, gbaVars, timersVars
<1> QED BY <1>1, <1>2, PTL DEF CoreSpec, GbaSpec, TimersSpec
=============================================================================
