---------------------------- MODULE N64CodeCache ----------------------------
(***************************************************************************)
(* The memory a program runs from, and the copies of it: the VR4300's data *)
(* and instruction caches (cache.cpp) in front of RDRAM (rdram.cpp), and   *)
(* the compiled blocks that both recompilers keep (vr4300/recompiler.cpp,  *)
(* rsp/recompiler.cpp), in pools that a write to their memory drops.       *)
(*                                                                         *)
(* An address counts words.  A page has Words words; a line of the D-cache *)
(* holds one and a line of the I-cache a page, so that a line's tag is a   *)
(* page.  A pool covers PoolWords words and lies within a page.  A word is *)
(* a value that stands for an instruction; a block is compiled up to the   *)
(* end of its pool.  Besides its code a block records two sets of words,   *)
(* for the properties only: those that were settled when it was compiled,  *)
(* and those that a store or a transfer has written since.                 *)
(***************************************************************************)
EXTENDS Integers, FiniteSets

CONSTANTS
  Pages, Words, PoolWords, ImemWords,
  Values,
  EntryPoints, \* the addresses that the program jumps to
  Undefined    \* stands for a word whose contents the program has left open

ASSUME SizesAssumption ==
  /\ {Pages, Words, PoolWords, ImemWords} \subseteq Nat \ {0}
  /\ EntryPoints \subseteq 0 .. Pages * Words - 1
  /\ Words % PoolWords = 0 /\ ImemWords % PoolWords = 0
  /\ Undefined \notin Values /\ Values # {}

VARIABLES
  rdram,       \* the words of RDRAM
  dCache,      \* the lines of the D-cache: [tag, valid, dirty, data]
  iCache,      \* the line of the I-cache: [tag, valid, data]
  blocks,      \* the VR4300's blocks: address -> [code, settled, written]
  last,        \* the last value the program or a DMA has put at an address
  imem,        \* the words of the RSP's instruction memory
  rspBlocks    \* the RSP's blocks

cpuVars == <<rdram, dCache, iCache, blocks, last>>
rspVars == <<imem, rspBlocks>>

Addrs == 0 .. Pages * Words - 1
Tag(a) == a \div Words
Index(a) == a % Words
NoBlock == [code |-> <<>>, settled |-> {}, written |-> {}]
Block(code, settled) == [code |-> code, settled |-> settled, written |-> {}]

-----------------------------------------------------------------------------
(* Blocks and pools, the same in both recompilers. *)
Pool(a) == a \div PoolWords
PoolEnd(a) == (Pool(a) + 1) * PoolWords - 1

\* Invalidate and InvalidateRange; ResetPool drops every block of a pool.  The
\* upper address of a range is included; the pool after the last one, which it
\* may name, holds no block.
ResetPools(table, dropped) ==
  [a \in DOMAIN table |-> IF Pool(a) \in dropped THEN NoBlock ELSE table[a]]
Invalidate(table, a) == ResetPools(table, {Pool(a)})
InvalidateRange(table, lo, hi) == ResetPools(table, Pool(lo) .. Pool(hi))

\* History: the blocks that a write to these words leaves in the table.
Marked(table, words) ==
  [a \in DOMAIN table |->
     [table[a] EXCEPT !.written = @ \cup (words \cap DOMAIN table[a].code)]]

-----------------------------------------------------------------------------
(* The caches. *)

Holds(line, a) == line.valid /\ line.tag = Tag(a)
Line(a) == dCache[Index(a)]
\* What a cached load finds.
Visible(a) == IF Holds(Line(a), a) THEN Line(a).data ELSE rdram[a]

\* WritebackCacheLine: to the address in the tag.
Victim(a) == Line(a).tag * Words + Index(a)
Writeback(a) == [rdram EXCEPT ![Victim(a)] = Line(a).data]

EvictedForgetful(a) == rdram

\* What is in RDRAM once the line of a cached access to a has been replaced.
Evicted(a) ==
  IF ~Holds(Line(a), a) /\ Line(a).valid /\ Line(a).dirty THEN Writeback(a)
  ELSE rdram

\* FillCacheLine.
Filled(a, memory) ==
  [tag |-> Tag(a), valid |-> TRUE, dirty |-> FALSE, data |-> memory[a]]
FilledPage(a) ==
  [tag |-> Tag(a), valid |-> TRUE,
   data |-> [w \in 0 .. Words - 1 |-> rdram[Tag(a) * Words + w]]]

\* ReadCacheableArea, the data side.
LoadCached(a) ==
  /\ rdram' = Evicted(a)
  /\ dCache' = [dCache EXCEPT ![Index(a)] =
                  IF Holds(@, a) THEN @ ELSE Filled(a, rdram')]
  /\ UNCHANGED <<iCache, blocks, last>>

\* WriteCacheableArea.
StoreCached(a, v) ==
  /\ rdram' = Evicted(a)
  /\ dCache' = [dCache EXCEPT ![Index(a)] =
                  [tag |-> Tag(a), valid |-> TRUE, dirty |-> TRUE, data |-> v]]
  /\ blocks' = Marked(Invalidate(blocks, a), {a})
  /\ last' = [last EXCEPT ![a] = v]
  /\ UNCHANGED iCache

\* A word written past the D-cache is undefined while a line holds it.
PutPast(a, v) == IF Holds(Line(a), a) THEN Undefined ELSE v

\* rdram::Write.
StoreUncached(a, v) ==
  /\ rdram' = [rdram EXCEPT ![a] = v]
  /\ blocks' = Marked(Invalidate(blocks, a), {a})
  /\ last' = [last EXCEPT ![a] = PutPast(a, v)]
  /\ UNCHANGED <<dCache, iCache>>

\* The copies of the PI, the SI and the SP to RDRAM.
DmaToRdram(lo, hi, v) ==
  /\ rdram' = [a \in Addrs |-> IF a \in lo .. hi - 1 THEN v ELSE rdram[a]]
  /\ blocks' = Marked(InvalidateRange(blocks, lo, hi), lo .. hi - 1)
  /\ last' = [a \in Addrs |-> IF a \in lo .. hi - 1 THEN PutPast(a, v) ELSE last[a]]
  /\ UNCHANGED <<dCache, iCache>>

-----------------------------------------------------------------------------
(* The CACHE instruction.  An operation that may lose data leaves the word  *)
(* undefined.  Index_Load_Tag changes no cache.                             *)

KeepsWord == UNCHANGED last
LosesWord(a) == last' = [last EXCEPT ![a] = Undefined]
SetLine(a, line) == dCache' = [dCache EXCEPT ![Index(a)] = line]

IndexInvalidateD(a) ==
  /\ rdram' = IF Line(a).valid /\ Line(a).dirty THEN Writeback(a) ELSE rdram
  /\ SetLine(a, [Line(a) EXCEPT !.valid = FALSE, !.dirty = @ /\ ~Line(a).valid])
  /\ KeepsWord

\* Index_Store_Tag with TagLo = 0, as boot code uses it.
IndexStoreTagD(a) ==
  /\ IF Line(a).valid /\ Line(a).dirty THEN LosesWord(Victim(a)) ELSE KeepsWord
  /\ SetLine(a, [Line(a) EXCEPT !.tag = 0, !.valid = FALSE, !.dirty = FALSE])
  /\ UNCHANGED rdram

CreateDirtyExclusive(a) ==
  /\ rdram' = IF Line(a).dirty /\ Line(a).tag # Tag(a) THEN Writeback(a) ELSE rdram
  /\ SetLine(a, [Line(a) EXCEPT !.tag = Tag(a), !.valid = TRUE, !.dirty = TRUE])
  /\ IF Holds(Line(a), a) THEN KeepsWord ELSE LosesWord(a)

HitInvalidateD(a) ==
  /\ Line(a).tag = Tag(a)
  /\ IF Line(a).valid /\ Line(a).dirty THEN LosesWord(a) ELSE KeepsWord
  /\ SetLine(a, [Line(a) EXCEPT !.valid = FALSE, !.dirty = FALSE])
  /\ UNCHANGED rdram

HitWriteBackD(a, invalidate) ==
  /\ Line(a).tag = Tag(a)
  /\ rdram' = IF Line(a).dirty THEN Writeback(a) ELSE rdram
  /\ SetLine(a, [Line(a) EXCEPT !.valid = @ /\ ~invalidate, !.dirty = FALSE])
  /\ KeepsWord

CacheD(a) ==
  /\ \/ IndexInvalidateD(a) \/ IndexStoreTagD(a) \/ CreateDirtyExclusive(a)
     \/ HitInvalidateD(a) \/ \E invalidate \in BOOLEAN : HitWriteBackD(a, invalidate)
  /\ UNCHANGED <<iCache, blocks>>

InvalidateI(a, hit) ==
  /\ hit => iCache.tag = Tag(a)
  /\ iCache' = [iCache EXCEPT !.valid = FALSE]
  /\ UNCHANGED <<rdram, last>>

\* Index_Store_Tag with TagLo = 0.
IndexStoreTagI ==
  /\ iCache' = [iCache EXCEPT !.tag = 0, !.valid = FALSE]
  /\ UNCHANGED <<rdram, last>>

FillI(a) ==
  /\ iCache' = FilledPage(a)
  /\ UNCHANGED <<rdram, last>>

\* Hit_Write_Back puts the instructions of the line back, valid or not.
HitWriteBackI(a) ==
  /\ iCache.tag = Tag(a)
  /\ rdram' = [b \in Addrs |-> IF Tag(b) = Tag(a) THEN iCache.data[Index(b)] ELSE rdram[b]]
  /\ last' = [b \in Addrs |-> IF rdram'[b] # rdram[b] THEN Undefined ELSE last[b]]
  /\ UNCHANGED iCache

CacheI(a) ==
  /\ \/ \E hit \in BOOLEAN : InvalidateI(a, hit)
     \/ IndexStoreTagI \/ FillI(a) \/ HitWriteBackI(a)
  /\ UNCHANGED <<dCache, blocks>>

-----------------------------------------------------------------------------
(* RunRecompiler: GetBlock, and Compile if there is no block.               *)

\* What FetchInstruction reads through the I-cache, once the line is filled.
Fetched(line, a) == line.data[Index(a)]

\* A word whose copies agree.  Any other is compiled as the I-cache has it,
\* although the program is not entitled to run it yet.
Settled(line, a) == Fetched(line, a) = rdram[a] /\ Visible(a) = rdram[a]
BlockWords(a) == a .. PoolEnd(a)
Compiled(line, a) ==
  Block([w \in BlockWords(a) |-> Fetched(line, w)],
        {w \in BlockWords(a) : Settled(line, w)})

Run(a) ==
  /\ blocks[a] = NoBlock
  /\ iCache' = IF Holds(iCache, a) THEN iCache ELSE FilledPage(a)
  /\ blocks' = [blocks EXCEPT ![a] = Compiled(iCache', a)]
  /\ UNCHANGED <<rdram, dCache, last>>

\* The same through an uncached segment.
RunUncached(a) ==
  /\ blocks[a] = NoBlock
  /\ blocks' = [blocks EXCEPT ![a] =
       Block([w \in BlockWords(a) |-> rdram[w]],
             {w \in BlockWords(a) : Visible(w) = rdram[w]})]
  /\ UNCHANGED <<rdram, dCache, iCache, last>>

-----------------------------------------------------------------------------
(* The RSP: its instruction memory changes by stores of the CPU and by DMA. *)
ImemAddrs == 0 .. ImemWords - 1

RspRun(a) ==
  /\ rspBlocks[a] = NoBlock
  /\ rspBlocks' = [rspBlocks EXCEPT ![a] =
       Block([w \in BlockWords(a) |-> imem[w]], BlockWords(a))]
  /\ UNCHANGED imem

\* rsp::WriteMemoryCpu.
StoreToImem(a, v) ==
  /\ imem' = [imem EXCEPT ![a] = v]
  /\ rspBlocks' = Marked(Invalidate(rspBlocks, a), {a})

DmaDropsToEnd(start, end, full) ==
  IF ~full /\ start < end THEN InvalidateRange(rspBlocks, start, end)
  ELSE InvalidateRange(rspBlocks, start, ImemWords)

\* InitDma: n words from start, around the end of the memory; end is where
\* SP_MEM_ADDR stands afterwards.
DmaDrops(start, end, full) ==
  CASE full -> InvalidateRange(rspBlocks, 0, ImemWords)
    [] ~full /\ start < end -> InvalidateRange(rspBlocks, start, end)
    [] ~full /\ end < start /\ end # 0 ->
         InvalidateRange(InvalidateRange(rspBlocks, 0, end), start, ImemWords)
    [] OTHER -> InvalidateRange(rspBlocks, start, ImemWords)

TransferWords(start, n) == {a \in ImemAddrs : (a - start) % ImemWords < n}
DmaToImem(start, n, v) ==
  /\ imem' = [a \in ImemAddrs |-> IF a \in TransferWords(start, n) THEN v ELSE imem[a]]
  /\ rspBlocks' = Marked(DmaDrops(start, (start + n) % ImemWords, n >= ImemWords),
                         TransferWords(start, n))

-----------------------------------------------------------------------------
CodeInit ==
  /\ \E zero \in Values :
        rdram = [a \in Addrs |-> zero] /\ imem = [a \in ImemAddrs |-> zero]
  /\ dCache = [i \in 0 .. Words - 1 |->
                 [tag |-> 0, valid |-> FALSE, dirty |-> FALSE, data |-> rdram[0]]]
  /\ iCache = [tag |-> 0, valid |-> FALSE, data |-> [w \in 0 .. Words - 1 |-> rdram[0]]]
  /\ blocks = [a \in Addrs |-> NoBlock]
  /\ last = rdram
  /\ rspBlocks = [a \in ImemAddrs |-> NoBlock]

\* The steps of a program that uses these addresses.
CpuSteps(used) ==
  \/ \E a \in used : LoadCached(a) \/ CacheD(a) \/ CacheI(a)
  \/ \E a \in EntryPoints : Run(a) \/ RunUncached(a)
  \/ \E a \in used, v \in Values : StoreCached(a, v) \/ StoreUncached(a, v)
  \/ \E lo \in used, final \in used, v \in Values :
        lo <= final /\ DmaToRdram(lo, final + 1, v)
CpuNext == CpuSteps(Addrs)

RspNext ==
  \/ \E a \in ImemAddrs : RspRun(a) \/ \E v \in Values : StoreToImem(a, v)
  \/ \E start \in ImemAddrs, n \in 1 .. ImemWords + 1, v \in Values : DmaToImem(start, n, v)

\* The CPU and the RSP run in turns; neither changes what the other keeps here.
CodeNext ==
  \/ CpuNext /\ UNCHANGED rspVars
  \/ RspNext /\ UNCHANGED cpuVars
CodeSpec == CodeInit /\ [][CodeNext]_<<cpuVars, rspVars>>

-----------------------------------------------------------------------------
(* Through every eviction and every cache operation a cached load finds what *)
(* was last stored or transferred, unless the program gave the word up or    *)
(* wrote it past the D-cache.                                                *)
LoadsSeeStores == \A a \in Addrs : last[a] # Undefined => Visible(a) = last[a]

(* No stale block is kept.  No word of a block has been stored to, or        *)
(* transferred to, since the block was compiled, settled or not; and the     *)
(* code of a word that was settled then is still the word last put there,    *)
(* through every later store, transfer and cache operation.  Nothing is said *)
(* of the code of a word compiled from a stale line of the I-cache or while  *)
(* a store to it was only in the D-cache: it stays as it was compiled, also  *)
(* after a write-back and an invalidation, which drop no block.              *)
Current(table, memory) ==
  \A a \in DOMAIN table :
     /\ table[a].written = {}
     /\ \A w \in table[a].settled : memory[w] # Undefined => table[a].code[w] = memory[w]
CpuCodeIsCurrent == Current(blocks, last)
RspCodeIsCurrent == Current(rspBlocks, imem)
CodeIsCurrent == CpuCodeIsCurrent /\ RspCodeIsCurrent
=============================================================================
