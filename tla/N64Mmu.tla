------------------------------- MODULE N64Mmu -------------------------------
(***************************************************************************)
(* The VR4300's address translation (mmu.cpp): the segments of the six     *)
(* combinations of operating mode and addressing mode, the TLB with its    *)
(* page masks, address spaces and regions, the TLB instructions, and what  *)
(* a failed translation leaves in COP0 for the handler.                    *)
(*                                                                         *)
(* An address is [area, page]: the part of the address space that the      *)
(* switches of the translation functions tell apart, and a page number in  *)
(* it.  The offset in a page is left to the caller.  A page number is      *)
(* counted in 4 KB pages, a pair in two of them, as EntryHi.VPN2 does.     *)
(***************************************************************************)
EXTENDS Integers, FiniteSetsExt

CONSTANTS
  Entries,        \* the number of TLB entries (32 in the code)
  Addresses,      \* the virtual addresses the program uses
  LowAreas,       \* the areas that their low words alone would lie in
  PageMasks,      \* values of PageMask: its lowest two bits, 0 to 3
  EntryLos,       \* pairs of values of EntryLo0 and EntryLo1
  Asids,          \* values of EntryHi.ASID
  Modes,          \* the values of Status: [ksu, extended], the latter for KX, SX, UX
  Wired,          \* the value of Wired
  MaxWrites       \* bound: how many TLB entries are written

Ksu == {"kernel", "supervisor", "user"}

\* The areas of the address space: those whose addresses are sign-extended
\* 32-bit values, those of 64-bit modes only, and what no mode maps.
Word == {"useg", "sseg", "kseg3", "kseg0", "kseg1"}
Area == Word \cup {"xuseg", "xsseg", "xkphys", "xkphysUncached", "xkseg", "error"}

ASSUME MmuAssumption ==
  /\ Entries \in Nat \ {0} /\ Wired \in Nat /\ MaxWrites \in Nat
  /\ PageMasks \subseteq 0 .. 3 /\ Asids \subseteq 0 .. 255
  /\ Addresses \subseteq [area : Area, page : Nat] /\ LowAreas \subseteq Word
  /\ \A lo \in EntryLos : \A i \in 1 .. 2 :
        lo[i] \in [pfn : Nat, v : BOOLEAN, d : BOOLEAN, g : BOOLEAN]
  /\ Modes \subseteq [ksu : Ksu, extended : SUBSET Ksu]

VARIABLES
  tlb,            \* tlb_entries
  entryHi, index, \* COP0 registers; the others are operands of the writes
  status,         \* ksu, exl and the bits kx, sx and ux of Status
  addressing,     \* addressing_mode, operating_mode: what SetVaddrToPaddrFuncs
  operating,      \* has derived from Status
  fault,          \* the exception being handled, and what failed
  writes          \* how many entries have been written

mmuVars == <<tlb, entryHi, index, status, addressing, operating, fault, writes>>

Slots == 0 .. Entries - 1
NoSlot == Entries          \* a probe that found nothing: Index.P = 1
NoFault == [kind |-> "None"]

-----------------------------------------------------------------------------
(* The address space. *)

\* Bits 62 and 63 of an address.
Region(area) ==
  CASE area \in {"useg", "xuseg"} -> 0
    [] area = "xsseg" -> 1
    [] area \in {"xkphys", "xkphysUncached"} -> 2
    [] OTHER -> 3

\* The bits above the page that EntryHi.VPN2 holds too (up to bit 39).
Prefix(area) == IF area \in {"useg", "xsseg", "xkseg"} THEN "low" ELSE area

\* What the translation function of each mode does with each area.
User32(area) == IF area = "useg" THEN "mapped" ELSE "error"
User64(area) == IF area \in {"useg", "xuseg"} THEN "mapped" ELSE "error"
Supervisor32(area) == IF area \in {"useg", "sseg"} THEN "mapped" ELSE "error"
Supervisor64(area) ==
  IF area \in {"useg", "xuseg", "xsseg", "sseg"} THEN "mapped" ELSE "error"
Kernel32(area) ==
  CASE area = "kseg0" -> "cached" [] area = "kseg1" -> "uncached"
    [] OTHER -> "mapped"
Kernel64(area) ==
  CASE area \in {"useg", "xuseg", "xsseg", "xkseg"} -> "mapped"
    [] area = "xkphys" -> "cached" [] area = "xkphysUncached" -> "uncached"
    [] area \in Word -> Kernel32(area)
    [] OTHER -> "error"

\* vaddr_to_paddr_read_func, vaddr_to_paddr_write_func.
Segment(area) ==
  CASE operating = "user" /\ addressing = "Word" -> User32(area)
    [] operating = "user" /\ addressing = "Dword" -> User64(area)
    [] operating = "supervisor" /\ addressing = "Word" -> Supervisor32(area)
    [] operating = "supervisor" /\ addressing = "Dword" -> Supervisor64(area)
    [] operating = "kernel" /\ addressing = "Word" -> Kernel32(area)
    [] OTHER -> Kernel64(area)

-----------------------------------------------------------------------------
(* The TLB. *)

\* An entry that has not been written: InitializeMMU sets VPN2, ASID and the
\* global bit, and leaves the masks of the translation at 0.
Untouched ==
  [hi |-> [r |-> 0, prefix |-> "ones", pair |-> 0, asid |-> 255],
   lo |-> [i \in 0 .. 1 |-> [pfn |-> 0, v |-> FALSE, d |-> FALSE, g |-> FALSE]],
   global |-> TRUE, pairs |-> 1, computed |-> FALSE]

\* Each pair of bits in PageMask counts as 00 or 11, by its upper bit.
Pairs(mask) == IF mask >= 2 THEN 4 ELSE 1

\* TlbEntry::Write: the entry made from the COP0 registers.
Floor(n, m) == (n \div m) * m
MaskedHi(hi, pairs) == [hi EXCEPT !.pair = Floor(@, pairs)]
Written(hi, lo, pageMask) ==
  [hi |-> MaskedHi(hi, Pairs(pageMask)), lo |-> [i \in 0 .. 1 |-> lo[i + 1]],
   global |-> lo[1].g /\ lo[2].g, pairs |-> Pairs(pageMask), computed |-> TRUE]

\* The conditions under which an entry translates an address.
MatchesPage(entry, addr) ==
  entry.computed =>
     /\ entry.hi.prefix = Prefix(addr.area)
     /\ entry.hi.pair = Floor(addr.page \div 2, entry.pairs)
Translates(entry, addr) ==
  /\ MatchesPage(entry, addr)
  /\ entry.global \/ entry.hi.asid = entryHi.asid
  /\ Region(addr.area) = entry.hi.r

\* The TLB is searched from its first slot on.
First(slots) == IF slots # {} THEN Min(slots) ELSE NoSlot
Hit(addr) == First({s \in Slots : Translates(tlb[s], addr)})

Half(entry, addr) == (addr.page \div entry.pairs) % 2
Frame(entry, addr) ==
  (addr.page % entry.pairs) + Floor(entry.lo[Half(entry, addr)].pfn, entry.pairs)

\* VirtualToPhysicalAddressTlb.
Fails(kind, slot) == [kind |-> kind, slot |-> slot]
Miss == IF addressing = "Word" THEN "TlbMiss" ELSE "XtlbMiss"
TlbTranslate(addr, op) ==
  LET slot == Hit(addr)
      entry == tlb[slot]
      lo == entry.lo[Half(entry, addr)]
  IN  CASE slot = NoSlot -> Fails(Miss, NoSlot)
        [] slot # NoSlot /\ ~lo.v -> Fails("TlbInvalid", slot)
        [] slot # NoSlot /\ lo.v /\ op = "Write" /\ ~lo.d ->
             Fails("TlbModification", slot)
        [] OTHER -> [kind |-> "Ok", frame |-> Frame(entry, addr),
                     cached |-> FALSE]

\* The vaddr_to_paddr functions, as Devirtualize and cache call them.
Devirtualize(addr, op) ==
  CASE Segment(addr.area) = "error" -> Fails("AddressError", NoSlot)
    [] Segment(addr.area) = "mapped" -> TlbTranslate(addr, op)
    [] OTHER -> [kind |-> "Ok", frame |-> addr.page,
                 cached |-> Segment(addr.area) = "cached"]

\* ReadVirtual and WriteVirtual also want a sign-extended address in 32-bit mode.
Translate(addr, op) ==
  IF addressing = "Word" /\ addr.area \notin Word
  THEN Fails("AddressError", NoSlot) ELSE Devirtualize(addr, op)

-----------------------------------------------------------------------------
(* Modes and exceptions. *)

IsKernel(st) == st.ksu = "kernel" \/ st.exl
Operating(st) == IF IsKernel(st) THEN "kernel" ELSE st.ksu
Addressing(st) == IF Operating(st) \in st.extended THEN "Dword" ELSE "Word"
SetVaddrToPaddrFuncs(st) ==
  /\ operating' = Operating(st)
  /\ addressing' = Addressing(st)

Hi(r, addr, asid) ==
  [r |-> r, prefix |-> Prefix(addr.area), pair |-> addr.page \div 2,
   asid |-> asid]

\* Only an address error and an XTLB miss also set the region of EntryHi.
RegionAfterFault(kind, addr) ==
  IF kind \in {"AddressError", "XtlbMiss"} THEN Region(addr.area) ELSE entryHi.r

\* HandleException, then the registers of the particular exception.
Raise(addr, result) ==
  /\ status' = [status EXCEPT !.exl = TRUE]
  /\ IF status.exl THEN UNCHANGED <<operating, addressing>>
                   ELSE SetVaddrToPaddrFuncs(status')
  /\ entryHi' = Hi(RegionAfterFault(result.kind, addr), addr, entryHi.asid)
  /\ fault' = [kind |-> result.kind, addr |-> addr, slot |-> result.slot,
               stale |-> entryHi'.r # Region(addr.area)]

\* A load, store or fetch whose translation fails; a CACHE instruction or the
\* lookup of a block, too, unless the address is one of Lookup.
Access(addr, op) ==
  /\ Translate(addr, op).kind # "Ok"
  /\ Raise(addr, Translate(addr, op))
  /\ UNCHANGED <<tlb, index, writes>>

\* The CACHE instruction and the lookup want no sign-extended address: the
\* 32-bit functions go by the low word of any other, which lies in the area
\* low, and the kernel's translates nothing else.
Lookup(addr, low) ==
  /\ addressing = "Word" /\ addr.area \notin Word
  /\ LET seen == IF operating = "kernel" THEN [addr EXCEPT !.area = low] ELSE addr
         result == IF Segment(low) = "mapped" THEN TlbTranslate(seen, "Read")
                   ELSE Fails("AddressError", NoSlot)
     IN  /\ Segment(low) \in {"mapped", "error"}
         /\ result.kind # "Ok"
         /\ Raise(seen, result)
  /\ UNCHANGED <<tlb, index, writes>>

-----------------------------------------------------------------------------
(* The COP0 instructions, which only the kernel may use here: CU0 is clear. *)
Cop0 == operating = "kernel"
Untold == fault' = NoFault   \* the program has moved on from the exception

\* A COP0 instruction of another mode, a system call, an interrupt.
OtherException ==
  /\ ~status.exl
  /\ status' = [status EXCEPT !.exl = TRUE]
  /\ SetVaddrToPaddrFuncs(status')
  /\ Untold
  /\ UNCHANGED <<tlb, entryHi, index, writes>>

Mtc0EntryHi(addr, asid) ==
  /\ Cop0
  /\ entryHi' = Hi(Region(addr.area), addr, asid)
  /\ Untold
  /\ UNCHANGED <<tlb, index, status, operating, addressing, writes>>

ProbesExactly(entry) ==
  /\ entry.hi.prefix = entryHi.prefix
  /\ entry.hi.pair = entryHi.pair
  /\ entry.global \/ entry.hi.asid = entryHi.asid
  /\ entry.hi.r = entryHi.r

\* tlbp compares whole pairs under the mask of the entry.
Probes(entry) ==
  /\ entry.hi.prefix = entryHi.prefix
  /\ Floor(entry.hi.pair, entry.pairs) = Floor(entryHi.pair, entry.pairs)
  /\ entry.global \/ entry.hi.asid = entryHi.asid
  /\ entry.hi.r = entryHi.r
Probe == First({s \in Slots : Probes(tlb[s])})

Tlbp ==
  /\ Cop0
  /\ index' = IF Probe = NoSlot THEN 0 ELSE Probe
  /\ UNCHANGED <<tlb, entryHi, status, operating, addressing, fault, writes>>

\* TlbEntry::Read, as far as EntryHi goes: EntryLo and PageMask are operands.
Tlbr ==
  /\ Cop0
  /\ entryHi' = tlb[index].hi
  /\ Untold
  /\ UNCHANGED <<tlb, index, status, operating, addressing, writes>>

WriteEntry(slot, lo, pageMask) ==
  /\ Cop0 /\ writes < MaxWrites
  /\ tlb' = [tlb EXCEPT ![slot] = Written(entryHi, lo, pageMask)]
  /\ writes' = writes + 1
  /\ Untold
  /\ UNCHANGED <<entryHi, status, operating, addressing>>

\* mtc0 of EntryLo0, EntryLo1 and PageMask, and of Index unless it was probed.
Tlbwi(slot, lo, pageMask) ==
  /\ WriteEntry(slot, lo, pageMask)
  /\ index' = slot

\* The random entry is one from Wired on, or any when Wired is out of range.
Tlbwr(lo, pageMask) ==
  /\ \E slot \in IF Wired \in Slots THEN Wired .. Entries - 1 ELSE Slots :
        WriteEntry(slot, lo, pageMask)
  /\ UNCHANGED index

\* mtc0 Status, by a program in kernel mode outside a handler; ERET.
Mtc0Status(mode) ==
  /\ Cop0 /\ ~status.exl
  /\ status' = [exl |-> FALSE, ksu |-> mode.ksu, extended |-> mode.extended]
  /\ SetVaddrToPaddrFuncs(status')
  /\ Untold
  /\ UNCHANGED <<tlb, entryHi, index, writes>>

Eret ==
  /\ Cop0 /\ status.exl
  /\ status' = [status EXCEPT !.exl = FALSE]
  /\ SetVaddrToPaddrFuncs(status')
  /\ Untold
  /\ UNCHANGED <<tlb, entryHi, index, writes>>

-----------------------------------------------------------------------------
\* What an operating system's first loop of TLBWI leaves: entries that match no
\* mapped address.
Cleared ==
  [Untouched EXCEPT !.hi = [r |-> 3, prefix |-> "kseg0", pair |-> 0, asid |-> 0],
                    !.global = FALSE, !.computed = TRUE]

MmuInit ==
  /\ tlb \in {[s \in Slots |-> Untouched], [s \in Slots |-> Cleared]}
  /\ entryHi = [r |-> 0, prefix |-> "low", pair |-> 0, asid |-> 0]
  /\ index = 0 /\ writes = 0
  /\ status = [ksu |-> "kernel", exl |-> FALSE, extended |-> {}]
  /\ operating = "kernel" /\ addressing = "Word"
  /\ fault = NoFault

MmuNext ==
  \/ \E addr \in Addresses, op \in {"Read", "Write"} : Access(addr, op)
  \/ \E addr \in Addresses, low \in LowAreas : Lookup(addr, low)
  \/ \E addr \in Addresses, asid \in Asids : Mtc0EntryHi(addr, asid)
  \/ Tlbp \/ Tlbr
  \/ \E slot \in Slots, lo \in EntryLos, pageMask \in PageMasks :
        Tlbwi(slot, lo, pageMask)
  \/ \E lo \in EntryLos, pageMask \in PageMasks : Tlbwr(lo, pageMask)
  \/ OtherException \/ Eret
  \/ \E mode \in Modes : Mtc0Status(mode)

MmuSpec == MmuInit /\ [][MmuNext]_mmuVars

-----------------------------------------------------------------------------
(* A handler probes the TLB with the EntryHi that the exception left: after  *)
(* an invalid or unmodifiable page it must find the entry that refused the   *)
(* access, and after a miss none, so that a refill never makes a second      *)
(* entry for one page.  EntryHi's region is stale after the exceptions that  *)
(* do not set it, and an entry not yet written matches every address but no  *)
(* probe; both are findings of the README.                                   *)
ProbeFindsFault ==
  (fault.kind \in {"TlbInvalid", "TlbModification", "TlbMiss", "XtlbMiss"}
     /\ ~fault.stale /\ \A s \in Slots : tlb[s].computed)
    => Probe = fault.slot
=============================================================================
