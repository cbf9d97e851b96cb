---------------------------- MODULE MCN64Memory ----------------------------
(***************************************************************************)
(* Model checking of the translation and of the copies of code, which meet *)
(* in a translation's result only: a mapped address is never cached.  A    *)
(* behaviour exercises one of the three, chosen at its start, and for the  *)
(* CPU with two addresses, so that TLC explores the sum of their states    *)
(* instead of the product.                                                 *)
(***************************************************************************)
EXTENDS N64Mmu, N64CodeCache, TLC

\* A program uses two words of a page, or two that share a line of the D-cache.
MCUsed == {{0, 1}, {0, 2}}

\* The values of a word are interchangeable.
MCValues == Permutations(Values)

VARIABLES
  part,   \* what this behaviour exercises
  used    \* the addresses its program uses

memoryVars == <<mmuVars, cpuVars, rspVars, part, used>>

MCAddresses == {[area |-> "useg", page |-> 0], [area |-> "useg", page |-> 5],
                [area |-> "xsseg", page |-> 0]}

EntryLo(v, d, g, pfn) == [pfn |-> pfn, v |-> v, d |-> d, g |-> g]
ReadOnly == EntryLo(TRUE, FALSE, FALSE, 1)
Writable == EntryLo(TRUE, TRUE, TRUE, 1)
Invalid == EntryLo(FALSE, FALSE, TRUE, 0)
MCEntryLos == {<<ReadOnly, Invalid>>, <<Invalid, Writable>>}

Mode(ksu, extended) == [ksu |-> ksu, extended |-> extended]
MCModes == {Mode("kernel", {}), Mode("supervisor", {"supervisor"}), Mode("user", {}),
            Mode("user", {"user"})}

Init ==
  /\ MmuInit /\ CodeInit
  /\ part \in {"translation", "cpu", "rsp"}
  /\ IF part = "cpu" THEN used \in MCUsed ELSE used = {}

Next ==
  /\ UNCHANGED <<part, used>>
  /\ \/ part = "translation" /\ MmuNext /\ UNCHANGED <<cpuVars, rspVars>>
     \/ part = "cpu" /\ CpuSteps(used) /\ UNCHANGED <<mmuVars, rspVars>>
     \/ part = "rsp" /\ RspNext /\ UNCHANGED <<mmuVars, cpuVars>>

Spec == Init /\ [][Next]_memoryVars
=============================================================================
