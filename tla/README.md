# Verification of teesoe

TLA+ models of the emulator's core logic, model-checked with TLC, and proofs
about them checked with TLAPS. The models are written from the C++ under
`src/src`; paths below are relative to it.

## The system

teesoe emulates a Nintendo 64, a Game Boy Advance and (unfinished, not built) a
PlayStation. A frontend (SDL, ImGui) loads a core and calls `Core::Run` on its
own thread; inside a core everything runs on that one thread, so concurrency is
the *emulated* one: a CPU, a signal processor and devices that take turns in
updates of 90 CPU cycles and act on each other through registers, callbacks and
interrupts. Two things are hard. One is what the turns leave visible: an event
added between two updates, a register written while an engine is busy, an
exception taken in the middle of a store, a cached copy that nobody refreshed.
The other is that both N64 processors are written twice, as an interpreter and
as a recompiler to x64, and that the two must do the same.

There are no tests and no design documents in the repository: `README.MD` is a
few lines, so what the program should do is taken from its comments
(`mi.hpp`, `cop0.hpp`, `rsp.cpp`, `pi.cpp`, `cop1.cpp`) and from one engine for
the other.

### Inventory: Nintendo 64

| part | state | operations | talks to | correct when |
|---|---|---|---|---|
| scheduler (`n64/common/scheduler.cpp`) | sorted event list, callbacks to call, overruns | `AddEvent`, `ChangeEventTime`, `RemoveEvent`, `CheckEvents`, `Run` | everyone adds events; calls CPU, RSP, AI in turn | every event fires once, in order, not early and at most an update late |
| CPU core and COP0 (`n64/vr4300/vr4300.cpp`, `cop0.cpp`, `exceptions.cpp`, `interpreter.cpp`) | pc, branch state, Status, Cause, EPC, Count, Compare, edge flag, cached mode | one instruction; exceptions; interrupts; the timer event | MI sets IP2; scheduler fires IP7 | no interrupt missed, resume point kept, cached mode fresh |
| integer and floating-point units (`ipu.cpp`, `cop1.cpp`) | registers, HI, LO, LL bit, FCR31 | every instruction | MMU, exceptions, host FPU | a trap exactly when a cause is enabled; the same as the recompiler |
| CPU recompiler (`recompiler.cpp`, `ipu_x64.cpp`, `cop1_x64.cpp`, `register_allocator.cpp`, `mips/register_allocator_state.hpp`) | pools of blocks, bindings of guest to host registers, host stack | compile, run, invalidate | interpreter's helpers, stores and DMA | the same as the interpreter; no guest value lost; no stale block runs |
| MMU and caches (`mmu.cpp`, `cache.cpp`, `n64/memory/`) | TLB, EntryHi, cached translators, cache lines | translate, TLB instructions, cache operations, loads and stores | COP0, RDRAM, recompiler | the handler finds the entry that refused; a load sees the last store |
| MI (`n64/interface/mi.cpp`) | interrupt and mask registers | raise, clear, write MI_MODE / MI_MASK | devices to CPU | IP2 mirrors the registers |
| SP DMA and registers (`n64/rsp/rsp.cpp`) | lengths, addresses, busy, full, one buffered request, semaphore | register reads and writes by CPU and RSP, `OnDmaFinish` | scheduler, MI, RDRAM, recompilers | one finish per transfer, the transfer that was asked for |
| RSP core (`n64/rsp/interpreter.cpp`, `vu_interpreter.cpp`, `recompiler.cpp`, `ipu_x64.cpp`, `vu_x64.cpp`) | pc, halt, single step, break, vector registers, accumulators | every instruction, twice | SP registers, DMEM | the engines agree; the accumulator is the sum of the products |
| PI and cartridge (`n64/interface/pi.cpp`, `n64/memory/cart.cpp`) | status, addresses, latch, write destination | DMA, single reads and writes, reset | scheduler, MI, RDRAM | busy bits end, writes reach SRAM, address registers move as the program expects |
| VI (`n64/interface/vi.cpp`) | line counter, half-line length | half-line event, VI_V_SYNC, interrupt | scheduler, MI, renderer | exactly one event pending, one interrupt in each field on the line asked for |
| AI (`n64/interface/ai.cpp`) | two-entry DMA queue, sample clock | `Step`, registers | MI, frontend | buffers play in order, the driver is woken |
| SI and PIF (`n64/interface/si.cpp`, `n64/memory/pif.cpp`) | DMA busy bit, PIF RAM, joybus commands, buttons | 64-byte DMA, `RunCommands` | scheduler, MI, input | one finish per DMA, fresh answers |
| RDP queue (`n64/rdp/rdp.cpp`) | DPC registers, command buffer | `LoadExecuteCommands` | RSP or RDRAM, MI, renderer | no command lost, run twice or cut in two |

### Inventory: Game Boy Advance, frontend, rest

| part | state | correct when |
|---|---|---|
| scheduler (`gba/scheduler.cpp`) | global time, events by absolute time, drivers by priority | the most urgent driver runs, and stops in time for the next event |
| timers (`gba/timers.cpp`) | four lazy counters, of cycles or of the previous one's overflows | a counter read has counted the time, or the overflows, since it was enabled |
| DMA (`gba/dma.cpp`) | four channels: addresses, count, increments, suspended and repeat flags | a suspended channel goes on where it stopped; each unit once, in order, to its address |
| interrupts, keypad (`gba/irq.cpp`, `gba/keypad.cpp`) | IE, IF, IME, delayed line | the line settles at IE & IF & IME |
| PPU timing (`gba/ppu/`) | VCOUNT, blanking flags | one chain of scanline events |
| ARM7TDMI, bus, cartridge, APU | registers, memories | instruction semantics: one engine only, nothing to compare it with |
| frontend (`frontend/`) | configuration, loaded core, menus | I/O, synchronous with the core |
| common, `mips/` templates | small helpers | unit tests |

## The modules

| module | models | built on |
|---|---|---|
| `N64Interrupts` | MI, COP0 interrupts and exceptions, the instruction boundary | |
| `N64SpDma`, `N64SpDmaClients` | the SP DMA engine; CPU and RSP sharing it | |
| `N64Scheduler` | the event list; the update loop with the devices that keep time by events | |
| `N64Pi` | PI and cartridge writes | |
| `N64DeviceLines` | the interrupt lines of MI | |
| `AudioQueue` | what the AI promises: an abstract queue | |
| `N64Ai`, `N64Si`, `N64Vi`, `N64Rdp` | the devices | `N64DeviceLines` |
| `N64Devices` | their composition | the four devices |
| `N64Words` | machine integers of a chosen byte width | |
| `N64Ipu`, `N64Cop1` | integer and floating-point instructions in the interpreter | `N64Words` |
| `RegisterAllocatorState` | the register allocator and its wrapper | |
| `X64Emitter` | what emitted operations do | `N64Words`, `RegisterAllocatorState` |
| `N64IpuX64`, `N64Cop1X64` | the code emitted for each instruction | `X64Emitter` |
| `N64CpuLockstep` | both engines side by side | the five above |
| `N64RegisterAllocator` | whole blocks, seen from the allocator | `RegisterAllocatorState` |
| `N64Lanes` | vector registers and SSE by lane | `N64Words` |
| `N64Rsp`, `N64Vu` | the RSP's scalar and vector unit in the interpreter | `N64Words`, `N64Lanes` |
| `N64RspEmitter` | the RSP's part of the emitter | `X64Emitter`, `N64Lanes` |
| `N64RspX64`, `N64VuX64` | the code emitted for its instructions | `N64RspEmitter` |
| `N64RspLockstep` | both engines side by side | the four above |
| `N64Mmu` | address spaces, TLB, its instructions and exceptions | |
| `N64CodeCache` | RDRAM, both caches, IMEM and the compiled blocks | |
| `GbaCore`, `GbaSystem` | events and drivers, interrupts and DMA as functions of the core's state; the main loop with the PPU's events | the second extends the first |
| `GbaTimers` | the timers | |
| `MC*` | values of constants that a configuration cannot write; `MCN64Memory` and `MCGbaCore` also compose the components of a run | |
| `*Proofs` | theorems: `N64CpuProofs` (`N64Interrupts`, and the floating-point unit of the interpreter in `N64CpuLockstep`), `N64SchedulerProofs`, `N64PiProofs`, `N64DevicesProofs` (AI, SI, VI, RDP), `N64MemoryProofs` (`N64Mmu` and `N64CodeCache`), `N64RegisterAllocatorProofs`, `N64RspProofs` (`N64SpDma` with its clients, and the multiplications of `N64Vu` in `N64RspLockstep`), `GbaProofs` (loop and timers) | the modules they are about |

Definitions marked `Faulty` are wrong variants of the definition that follows
them. No specification uses them: each is a plausible defect which, put in the
place of the right definition, makes one of the properties fail.

`PROJECT.json` says for the definitions which lines of the code they model. A helper
whose lines belong to another definition as well is not listed a second time.

### How state and actions correspond to the code

**N64Interrupts.** `cpu` is one record with the registers that decide about
interrupts; each function of the code (`HandleException`, `CheckInterrupts`,
`PerformBranch`, `eret` ...) is an operator from record to record, and an action
composes them in the order of the calls. A step is one turn of `RunInterpreter`'s
loop (`Begin`, the instruction, `Retire`) or one call by a device between two
instructions. A store to a device register may raise an interrupt at once; the
exception is then entered inside the store, as in the code. Addresses are word
numbers that wrap. `ksu` is kernel or not, exception codes are left out.

**N64SpDma.** `InitDma` copies the data at once, so a transfer is an instant
(`transfer` records it) and only `dma_busy` takes time, until the `SpDmaFinish`
event. `wanted`, `queued` and `crossed` are history: what was asked for, and
whether the engine went on from a transfer of the other direction, the case in
which the code takes the wrong buffered length.

**N64SpDmaClients.** Processors follow the order in which programs use the
registers: read SP_SEMAPHORE until 0, wait until not full, write address and
length, release. That order is external to the repository; every register
access in it is an action of the code.

**N64Scheduler.** The phases of `Run` are the values of `phase`: top
of the loop, CPU, callbacks, RSP. `left` is the code's
`cpu_cycles_until_fire`. `owed` is what is truly left, counted down by every CPU
cycle; comparing the two states lateness. `late` marks an event added outside the
CPU's run. `Count` is 64 bits wide and never reduced in the code; the model keeps
it modulo the period and whether it ever got there. `CheckEvents` and the
callbacks are steps of their own, and nothing else happens between them. The loop of
`CheckEvents` takes events from the head until one is not due; the model takes the
prefix that is due, which is the same because the list is sorted (`EventsSorted`). The
model is of the interpreter, where `AdvancePipeline` runs before the instruction
acts: `Costs` are the cycles of one instruction. A recompiled block adds its
cycles in one piece, so a store inside a block sees an older counter; that is not
covered.

**N64Pi.** Neither operation of the PI refuses to start while one is under way,
so events of a kind pile up; as their callbacks are the same function of the
statics, the list is two counters. Two history variables become true when the
program does not wait for a DMA (`dma_careless`) or for a write (`io_careless`, also
when a load, a reset or an aligned DMA gives the write up); what is guaranteed only
to a program that waits is stated under their negation, separately, because the two
operations share the status register. `accepted` is the value the interface last
took for each SRAM word and `next_addr` where the program has the address registers
go. The latch is a value and whether its bytes are swapped.

**N64Ai, AudioQueue.** `Step` is a loop that the scheduler calls; each turn of it
(`StepSample`) is an action, and the driver's stores come between two calls. The
driver is the one the interrupt is made for: it primes the queue, acknowledges,
then stores address and length. `N64Ai` implements `AudioQueue` under the mapping
`queue` ↦ the first `dma_count` entries; the abstract queue is told only what was
queued, in which order it is played and that an address that ended a page carries
into the next. `latch` is history: the address meant for the next length. When the
last buffer ends between the two stores, the address is in entry 1 and the length
goes to entry 0: the address is then lost (see Findings), and `latch` says so.

**N64Si.** RDRAM is two buffers of 64 bytes. `RunJoybusProtocol` is an operator
that parses the 64 bytes as the code does, with its channel counter and its
special bytes; `Play` presses and releases buttons and moves the stick, with the
reset that L, R and Start make. A second DMA is started only while fewer than
`MaxEvents` finish events are pending. `readJoypad` is history: the buttons when
the PIF answered.

**N64Vi, N64Rdp.** The VI's step is the callback whose timing `N64Scheduler`
models. `hits` counts the interrupts in the field while the program leaves the
registers alone (`undisturbed`). The RDP's `cmd_buffer` is the code's array up to
`num_queued_words` in double words, `queue_offset` the next command; `given` and
`enqueued` are history: all that was handed over, all that the renderer got. The
property compares them through `Commands` and `Remainder`, which cut a stream at
once instead of piecewise.

**N64Devices.** The devices share `lines` only, each its own line and none reads
another's; a behaviour therefore exercises one of them, and TLC explores the sum
of the state spaces. `N64Interrupts` says what becomes of a line.

**N64Words, N64Ipu, N64IpuX64, N64CpuLockstep.** The processors' widths are
multiples of a byte, so the models take a byte of `BYTE` bits and keep every
relation between widths: a doubleword of eight bits is to a word of four what 64
bits are to 32. In the interpreter an instruction is a function from state to
state. In the recompiler it is the sequence of assembler calls that the C++
function makes, and `X64Emitter` gives each call its meaning; so a register that is
clobbered, a stack slot not taken back, a flag tested after it was changed or a
binding made on one path only show as they would in the host. A step of
`N64CpuLockstep` runs one instruction in both from one state and keeps what each
leaves; its initial states range over operands, register choices, delay slots,
modes, faults and what the allocator holds when the instruction is emitted.

**N64Cop1, N64Cop1X64.** A number is a sign and a kind (zero, subnormal, normal,
too large for an integer, infinite, quiet and signalling NaN); the result of the
host's operation on valid operands is an input, together with the exceptions the
host raises, so that what is checked is the code around it: validation of operands
and results, flags, flushing, rounding modes, traps, register pairing under
`Status.FR`, conditions, and what the packed host instructions do to the lanes
beside the operands.

The host stack is checked as far as instructions use it: pushes and pops around calls.
The allocator has no non-volatile registers in this instance, so what a prolog saves and
the stack space it takes are not exercised by `StackBalanced`.

**RegisterAllocatorState, N64RegisterAllocator.** `GetGpr`, `Reserve`, `Free`,
flush and call as in the template, on the compile-time bindings and on the host
registers, guest registers and stack that the emitted code changes. A block is any
sequence of up to `MaxSteps` reads, writes, borrowings, calls and branches out.

**N64Rsp, N64Vu, N64RspX64, N64VuX64, N64RspLockstep.** The same for the RSP, with
its second allocator for vectors, DMEM by bytes and the ends of a block.
`Rcp` and `Rsq` stand for the divider's tables and are constants of the model, any
function of a word. What an access to the SP's and DP's registers returns and does
is an input. The accumulator is three lanes, as in the code: `AccumulatorIsSum` reads
them as one number. Where the carry of a rounded product is known to be lost, in a lane
whose low slice is 0, `RspEnginesAgree` leaves out the upper slices and the result of
that lane, and compares all others.

**N64Mmu.** An address is an area of the address space and a page. The six
translation functions are the six cases of `Segment`'s switch; a TLB entry has its
mask, region, ASID, global bit and two pages, and `computed` is false until it is
first written, as the cached masks are then 0. `fault` is what the exception
leaves for the handler, with the entry that refused. `Access` is a load, a store or a
fetch, which look at the sign extension of the address first; `Lookup` is what a cache
operation and the recompiler's `Devirtualize` do, which call the translation at once: of
an address that is not sign-extended the 32-bit functions then use the low word.
`LowAreas` are the areas that such a word falls into.

**N64CodeCache.** A word has up to four copies: RDRAM, a D-cache line, an I-cache
line, a compiled block. `last` is history, the word the program last put there;
`Undefined` is a word that the program gave up by a cache operation or by writing
past the cache. Blocks are compiled to the end of their pool and dropped by pools. A
block keeps its code and two sets of words that are history: `settled`, the words whose
copies agreed when it was compiled, and `written`, those that were stored or transferred
to since. `CodeIsCurrent` says that no block is kept with a written word, settled or
not, and that the code of settled words is what was put there last. It says nothing of
the code of the others: a block compiled between a store and its write-back, or from a
stale line of the I-cache, holds old code, and neither the write-back nor the
invalidation that the program does in between drops it (see Findings).

A line of the D-cache is one word and a line of the I-cache a page; a pool lies within a
page, as in the code, where it has 256 bytes. The line is chosen from the virtual
address by cache operations (`cache.cpp:143`) and from the physical one by accesses
(`cache.cpp:199`); the model has one index, which is right where the two agree in
the bits that choose the line, as in the direct-mapped segments. TagLo is 0 in
Index_Store_Tag, as boot code has it.

**GbaCore, GbaSystem.** All on one record `g`. Times are
relative to the global time. `suspended` are drivers told to stop; `eventRoom` and
`driverRoom` are the capacities of the vectors, on which it depends whether an
iterator survives an insert. `line` is what the CPU was last told. A DMA channel has its
registers (`use`, `count`), its current count and addresses, the increments that
`PerformDma` computes when a copy begins and the flag that the next copy is a
repetition. A unit of a transfer may also be written to IE, IF or IME; that one is
written to the registers of the DMA itself is left out, and a channel that is enabled
has only its enable bit written. What a copy should be is history:
`from`, the unit it starts with, `log`, the units copied since, and `told`, whether the
flag `suspended` has told every call of `PerformDma` since the channel was enabled
rightly whether a copy begins or goes on. The flag can lie in two ways (see
Findings), and `TransferIsExact` speaks of a channel until it does.

**GbaTimers.** A timer is its registers, the lazily refreshed counter and
`is_counting`. `now` is `GetGlobalTime`, and `TimeJumps` sets it to any time: it is not
monotone, as an event added in the middle of a run counts the run's cycles twice
(`gba/scheduler.cpp:31`) and `Run` sets the time back when an event fires
(`gba/scheduler.cpp:129`). `since` is history: the time when a free timer was
enabled, and for one that counts overflows how often the previous one had overflowed
then; it becomes `NotExact` when a register of the chain is written, when the chain
is looked at while the time is behind the last look (the difference is then nearly 2^64),
and in the cases listed under Findings. A timer that counts the overflows of a timer that
counts overflows is never exact, as its previous one is followed only to its first
overflow. No timer asks for interrupts, because the type of the overflow event is never
initialised.

## The runs

| run | configuration | distinct states | checks |
|---|---|---|---|
| interrupts | `MCN64Interrupts` | 272,692 | `PendingMirrorsMi`, `NoMissedInterrupt`, `CachedModeIsFresh`, `ResumePointKept` |
| scheduler | `MCN64Scheduler` | 571,824 | `NoLostOrDoubledEvent`, `EventTimesHonest`, `NothingOverdue`, `TimerEventTracksCount`, `SpDmaFires` |
| scheduler_match | `MCN64SchedulerMatch` | violated | `TimerMatchRaises`, see Findings |
| sp_dma | `MCN64SpDma` | 20,894 | `FinishEventMatchesBusy`, `DirectionIsRequested`, `UncrossedLengthIsRequested`, `PendingIsTakenUp` |
| sp_dma_clients | `MCN64SpDmaClients` | 4,039 | `TransferUsesOwnAddress`, `NoRequestOverwritten`, `OwnerProceeds` |
| pi | `MCN64Pi` | 200,952 | `OneEventEach`, `AcceptedWritesLand`, `AddressesAreThePrograms`, `PollingEnds` |
| devices | `MCN64Devices` | 580,177 | `PlaysLikeAQueue` (refinement), `AudioKeepsPlaying`, `SiEventMatchesBusy`, `AnswerIsFresh`, `OneInterruptPerField`, `StreamIsKept` |
| cpu_lockstep | `MCN64CpuLockstep` | 260,484 | `EnginesAgree`, `FpuTrapsExactly`, `StackBalanced` |
| register_allocator | `MCN64RegisterAllocator` | 177,556 | `GuestsRecoverable`, `BindingsInverse` |
| rsp | `MCN64RspLockstep` | 74,208 | `RspEnginesAgree`, `AccumulatorIsSum` |
| memory | `MCN64Memory` | 745,842 | `ProbeFindsFault`, `LoadsSeeStores`, `CodeIsCurrent` |
| gba | `MCGbaCore` | 4,995,273 | `LineSettles`, `TransferIsExact`, `MostUrgentRuns`, `CountsElapsedTime` |

**Bounds.**

- *Interrupts*: three word addresses suffice for "this instruction", "the one
  before" (delay slots) and "elsewhere"; one is misaligned, so that bad branch and
  return targets occur. A device, the timer and a software interrupt are three
  sources, because the edge-triggered flag can only lose an interrupt when a second
  one arrives; the theorems hold for any number of devices. `ie` and the mode are
  written by the program, which gives coprocessor 0 away with its first write; `exl`
  changes by exceptions and ERET, `erl` is set in the initial state of a cold reset and
  cleared by ERET.
- *SP DMA*: two lengths and two skips, so that a length kept and a length replaced
  differ; the pending slot holds one request, so three requests (running, pending,
  replacing) are all the interplay there is. Addresses are distinguished in the
  run with clients, where each client writes its own.
- *Scheduler*: an update of 3 cycles with instructions of 1 and 4, so that an
  overrun reaches and passes a whole update; half lines of 4 and transfers of 3, so
  that events tie, pass each other and fire together; a timer period of 8 instead of
  2^33, which Count crosses inside an update and between updates. `MaxEvents` bounds
  only how many PI DMAs a program piles up.
- *PI*: two events of a kind (the second is what makes an early end possible), two
  SRAM words and two values (a lost write and a write to the wrong word show),
  two cartridge addresses.
- *Devices*: a page of four samples, so that a buffer ends at its end, inside and
  past it, and buffers of length 0; odd and even `v_sync` with `v_intr` on lines
  that are reached, skipped and beyond the field; one command list for one
  controller and the bytes a program may overwrite; a command of two words, a
  buffer of five and three words of memory, so that a list cuts a command and the
  buffer fills.
- *CPU*: a byte of one bit. Boundary operands of both signs with unequal halves; each
  pattern in which two sources and a destination coincide or are register 0; an
  allocator that is empty, full, holding either source, at either alignment of the
  stack. *RSP*: a byte of two bits, so that a halfword has a sign, a middle and a
  carry; the vector inputs cover every pair of halfwords lane by lane.
- *Allocator*: three host registers for four guests, one of them non-volatile and one
  an argument register, four steps: an eviction, a call and a branch meet.
- *Memory*: two entries, one of them wired, two page sizes, two ASIDs, the three modes,
  supervisor mode with 64-bit addresses and user mode with and without; addresses of three kinds, of which one is not
  sign-extended. Two pages of two words with one I-cache line and a D-cache line for each
  index, so that each fill of the other page evicts; a pool of one page; a behaviour uses
  (`used`) two words of one pool or two words of one line, and jumps to the
  `EntryPoints`. Two values, which are symmetric: nothing distinguishes them but being
  equal. Two pools in IMEM, so that a DMA ends at, before and after a pool and around the
  end.
- *GBA*: two DMA channels, the urgent one started by the CPU or by VBlank, the other one
  repeating at HBlank with its destination loaded again; fixed, falling and rising
  addresses modulo 3; copies of three units, which are cut by a slice of at most four
  cycles and by the other channel; two lines. Three timers with a counter of 3, reload
  values 0 and 1, prescalers 1 and 2, any four times in any order, three writes of
  registers or late looks: enough to enable a timer and the one that counts its
  overflows in either order and to disturb them once; reads are not bounded.

`CHECK_DEADLOCK` is off only where a behaviour ends: after the one instruction of a
lockstep run, after the last step of a block, at the bound on time and writes of the
timers and on writes of the TLB. Elsewhere the emulator never stops by itself.

**Fairness.** `N64SpDma`, `N64SpDmaClients` and `N64Pi` assume weak fairness of
the finish events only, because the scheduler fires every event in its list;
`N64Scheduler` shows that for itself (`SpDmaFires`), assuming only that the loop of
`Run` goes on. In `N64SpDmaClients` each client also goes on, as CPU and RSP get
their turn in every update; a client that finds the semaphore taken may do so for
ever, so `OwnerProceeds` starts from owning it. In `N64Devices` the audio
interface's `Step` is called in every turn of the scheduler's loop (weak fairness),
and a store of the driver that is possible again and again between two calls is
executed (strong fairness, because it is not possible inside `Step`).

Two statements of comments have no run of their own because TLC refutes them:
`ReadsCurrentTransfer` of `N64SpDma` and `SramIsBigEndian` of `N64Pi` are kept in
the modules, and adding one to the INVARIANTS of `MCN64SpDma.cfg` or `MCN64Pi.cfg`
shows its counterexample at once.

## What is proved

The eight `*Proofs` modules are checked by TLAPS to the last leaf, with the SMT, Zenon
and PTL backends only. Their theorems hold for every value of the constants: any
number of devices, clients, registers, entries and timers, lists and streams of any
length, any sizes and times. The assumptions are named in the modules and say what the
code fixes:

| assumption | says | because |
|---|---|---|
| `AddrAssumption`, `InterruptAssumption` | vectors are aligned addresses; sources of interrupts differ | `exceptions.cpp`, `mi.hpp` |
| `SchedulerAssumption` | times, costs and the modulus are positive | `scheduler.hpp`, every instruction takes a cycle |
| `SpDmaAssumption`, `ClientAssumption` | lengths contain 0 and what a finished transfer leaves; clients use addresses of their own | `rsp.cpp` |
| `PiAssumption` | there is a value and a slot that stand for none | history only |
| `ViAssumption` | VI_V_SYNC is neither 0 nor 1 | the code divides by `v_sync / 2` |
| `AiAssumption` | the address space is whole pages, periods are positive | 24 bits, pages of 8 KiB |
| `SiAssumption`, `RdpAssumption` | lists are of bytes; every command has a length | `pif.cpp`, `rdp.cpp` |
| `MmuAssumption`, `SizesAssumption` | sizes are positive, IMEM is whole pools | `mmu.hpp`, `recompiler.hpp` |
| `AllocatorAssumption` | host registers differ from each other, from `rax` and from the pointer to the guest registers; there are two at least | `register_allocator.hpp` |
| `ByteAssumption`, `InputsAssumption`, `ElementsAssumption` | a byte has at most eight bits; a lane is a bit pattern and a condition 0 or all ones; an element has four bits | `vu_interpreter.cpp`, `decoder.cpp` |
| `ControlWordsAssumption`, `HostResultsAssumption` | the fields of a control word; the host raises the five exceptions of IEEE 754 and no other | `cop1.hpp`, `fenv.h` |
| `CoreAssumption`, `GbaAssumption`, `TimersAssumption` | channels are 0 to 3, times are natural, a timer's period fits the 64 bits of the time | `gba/dma.hpp`, `gba/timers.cpp` |

Each inductive invariant was checked by TLC on the instance of its run before it was
proved.

| module | theorem | states |
|---|---|---|
| `N64CpuProofs` | `TypeCorrect` | `TypeOK` |
| | `PendingIsExact` | `PendingMirrorsMi` |
| | `InterruptsAreNotMissed` | `NoMissedInterrupt` |
| | `CachedModeNeverStale` | `CachedModeIsFresh` |
| | `ResumePointIsKept` | `ResumePointKept` (an action property) |
| | `FpuTrapsAreExact` | `FpuTrapsExactly` |
| `N64SchedulerProofs` | `SchedulerTypeCorrect`, `EventsSorted` | types; the list is sorted |
| | `EventsNotLostOrDoubled` | `NoLostOrDoubledEvent` |
| | `EventsOnTime` | `EventTimesHonest` |
| | `NoEventOverdue` | `NothingOverdue` |
| | `TimerTracksCount` | `TimerEventTracksCount` |
| `N64RspProofs` | `EngineTypeCorrect` | `TypeOK` |
| | `OneFinishEventPerTransfer` | `FinishEventMatchesBusy` |
| | `DirectionKept` | `DirectionIsRequested` |
| | `LengthKept` | `UncrossedLengthIsRequested` and `IdleLengthsAgree` |
| | `SemaphoreMutualExclusion` | `SemaphoreExcludes` |
| | `AddressesNotMixedUp` | `TransferUsesOwnAddress` |
| | `RequestsNotOverwritten` | `NoRequestOverwritten` |
| | `AccumulatorHoldsTheSum` | `AccumulatorIsSum` |
| `N64PiProofs` | `PiTypeCorrect` | `TypeOK` |
| | `BusyBitsComeDown` | `BusyHasEvent` |
| | `CompletionsAreReported` | `CompletedIsReported` |
| | `NoEarlyEnd` | `OneEventEach` |
| | `WritesReachSram` | `AcceptedWritesLand` |
| | `AddressesKept` | `AddressesAreThePrograms` |
| `N64DevicesProofs` | `DevicesTypeCorrect` | the type invariants of the four devices |
| | `VideoInterruptsOnce` | `OneInterruptPerField` |
| | `SerialEventsMatch` | `SiEventMatchesBusy` |
| | `AnswersAreFresh` | `AnswerIsFresh` |
| | `StreamsAreKept` | `StreamIsKept` |
| | `AudioRefinesQueue` | `PlaysLikeAQueue` (the refinement of `AudioQueue`) |
| `N64MemoryProofs` | `CodeTypeCorrect`, `TlbTypeCorrect`, `ModesFollowStatus` | types; cached modes are those of Status |
| | `LoadsSeeLastStore` | `LoadsSeeStores` |
| | `NoStaleBlock` | `CodeIsCurrent` |
| | `HandlerFindsFault` | `ProbeFindsFault` |
| `N64RegisterAllocatorProofs` | `AllocatorTypeCorrect` | types; no reservation outlives its instruction |
| | `GuestsAreRecoverable` | `GuestsRecoverable` |
| | `BindingsAreInverse` | `BindingsInverse` |
| `GbaProofs` | `LoopTypeCorrect` | types; neither list of the loop is ever empty |
| | `MostUrgentFirst` | `MostUrgentRuns` |
| | `TransfersAreExact` | `TransferIsExact` |
| | `InterruptLineSettles` | `LineSettles` |
| | `TimersInvariant` | the timers' inductive invariant |
| | `TimersCountTime` | `CountsElapsedTime` |

`IdleLengthsAgree`, `SemaphoreExcludes`, `BusyHasEvent`, `CompletedIsReported`, the type
invariants and the sortedness of the list are proved and listed by no run.

*Interrupts.* None of the four invariants is inductive alone: that no enabled
interrupt waits after an instruction needs the flag of `vr4300.cpp` to be down
before it, which needs every path that raises it to end in `CheckInterrupts` or in an
exception. `IInv` says both of the CPU between two instructions (`Settled`) and
that Cause.IP2 mirrors MI. Each function gets a lemma that says when it leaves a
settled CPU (`HandleExceptionSettles`, `CheckInterruptsSettles`, `RetireSettles` ...),
and `NextSettles` puts them together action by action. `ResumePointKept` speaks of a
step: `PointKept` says of two CPUs that the second goes on where the first would have,
an exception in between or not, and the same functions get a second lemma each
(`ExceptionKeepsPoint`, `RetireKeepsPoint`, `ReturnKeepsPoint` ...).

*Scheduler.* The operations on the list come first: what `AddEvent`, `RemoveEvent` and
`ChangeEventTime` do to a sorted list and to the number of events of a type, and which
events `CheckEvents` takes. `SchedulerInv` adds to the properties where the loop is
(`LoopBounds`: how much of the update is left, owed and overrun in each phase) and, per
event, the bound on its lateness, which differs for events the CPU added and those that
callbacks and the RSP added. Count against the timer's event is a congruence: the distance
to the match is the event's time up to a multiple of the period.

*SP DMA.* `EngineInv`, the conjunction of the engine's properties, is inductive as it
stands. That the two clients do not mix up their addresses is not: `AddressBelongs`
adds whose addresses the registers hold between the two writes, while a request is
pending and after it has started. `ClientsStepIsEngineStep` shows that a step of the
clients is a step of the engine or leaves it alone, so the engine's invariant holds
under the clients without a second proof.

*RSP multiplications.* For the twelve instructions that multiply into the accumulator
(`vmacf`, `vmacu`, `vmadl` ... `vmudh`) the theorem says, for every width of a byte up to the
program's eight bits, every vector, every element and whatever the accumulator held,
that what `vu_interpreter.cpp` leaves is the sum it stands for modulo 2^48, and that the
signed results are its upper part, saturated; the run tries lanes of four bits. The
argument is one of congruences. `Congruent` relates the number that three lanes make up to
an integer; `Carries` are the polynomial identities behind a carry from lane to lane, and
`AddToAcc1Adds`, `AddToAccAdds` and `AddToAccFromMidAdds` say what the carries found by
comparisons add up to. `LowProduct`, `HighProduct`, `MixedProduct`, `DoubledProduct` and
`Rounded` say which slices of a product the SSE multiplications give, signed or not,
doubled or rounded; `UpperPart` that the two upper lanes, read with a sign, are the upper
part of the number. The masks that stand for carries are combined by `and`, which
`N64Words` builds from halves down to one bit and the proof follows up again
(`And2Facts` ... `And16Facts`). `LanesCorrect` puts them together lane by lane, and
`Executed` carries the lanes through the interpreter's step. The invariant adds only that
the operands are among the inputs: an instruction runs once from each initial state.

*PI.* `PiInv` has a part for DMA and one for writes. An accepted write is in SRAM
only after its event, so `LatchHoldsWrite` says where it is before; `EndIsNoted`
does the same for the address registers of a DMA. `WritesGivenUp`,
`WritesUndisturbed` and `DmasUndisturbed` say that a step of one part leaves the
other's invariant true, which leaves one lemma for each action.

*Devices.* `DevicesInv` is the conjunction of one invariant per device, and as each step
belongs to one device, each part is proved alone. The PIF's walk over the command block
and the cutting of a command stream are recursive functions. The induction theorems of
the library cannot be instantiated, so `RecursionOnSize` and `InductionOnSize` prove, by a
least counterexample, that a recursion whose argument gets smaller defines a function, and
what each turn keeps holds at the end; both are stated over sets and functions instead of
operators. The walk runs over RAM that its own answers change: `WalkKeeps` says that it
leaves alone what it has read, so that the answer which the program finds is the one that
the walk gave. For the RDP, `CutInParts` says that cutting a stream in two parts, the
second after the remainder of the first, is cutting it at once. The audio interface's
mapping needs `LatchIsEntry`, where the address that the next length goes with is kept;
`AiRefines` shows step by step that each is a step of the abstract queue or a stutter.

*Memory and blocks.* The copies of a word are related by what the program stored last:
`WordOk` says that a word which the program has a claim to is in its line or, unless that
line is dirty, in RDRAM, and that where it is in both the two agree. `LineChanged` and
`LineFlushed` cover all cache operations. `BlockTable` says that a block starts at its
address and ends with its pool, so that dropping the pool of a word drops every block
that holds it, settled or not (`BlockInMemory`, `DroppedFacts`, `WriteKept`): no written
word is left in any block, and the settled words of those that stay are untouched by
the write. That a settled word's code is what was put there last also needs `WordOk`
when the block is compiled (`CompiledOk`). A DMA to IMEM drops pools by a loop that may
run around the end; `DmaDropsFacts` says that it meets the pool of every word that
changes. For the TLB, `FaultNamesHit` and `ProbeIsHit` say that
the search of the exception and that of TLBP find the same entry, which needs entries to be
aligned as `TLBWI` and `TLBWR` write them.

*Floating-point traps.* An instruction of the unit is a chain of tests, each a call that
may end it. `Going` says of a state in the chain that nothing met so far traps, that every
cause is in the flags and the destination is as it was; `Stopped`, that a cause traps, the
exception is raised and nothing was stored. Each function of `cop1.cpp` leads from `Going`
to one of the two (`SignalGoesOn`, `OutputGoesOn`, `GetAndTestGoesOn` ...), and each
instruction follows its calls (`StoredIsExact`, `ConvertIsExact`, `RoundIsExact`,
`CompareIsExact`). The flushing of a subnormal result signals two exceptions without a
test: `OutputGoesOn` needs that it happens only while both are masked.

*Register allocator.* `AllocatorInv` says of the code emitted so far that a bound guest is
in its host register, that a guest which is not in memory has a dirty binding (`Sound`),
and that bindings and `guest_to_host` fit together (`Links`): a bound guest is always found
under its binding, even when an eviction left other entries stale. Each function of the
template gets a predicate that says what it does (`IsFlushed`, `Destroyed`, `IsBound`,
`Got`, `Cleared`, `Restored`); the loops over the bindings go by `LoopKeeps`. That the
allocator hands out registers which are another guest's is no hypothesis: the theorem's
`~confused` speaks of the instruction at which this first happens, and everything up to
it is covered.

*Game Boy Advance.* `LoopInv` is `Good`, the shape of both lists and of each channel,
with the driver that runs; each function keeps `Good` (`EngageDriverGood`, `CopyUnitGood`,
`EndDmaGood` ...). For the transfers, `Exact` says of a channel whose flag has told the
truth that the units of the log follow each other from the copy's first (`InOrder`), that
the log and the current count make up the whole, and that the current addresses are the
unit that is due; `Aimed`, that a copy which has begun has the increments that its control
register asks for, which is why a copy may go on without computing them. Beginning a copy, going on with
it and copying a unit each keep both.

The timers' `TimersInv` says of each timer that is exact what its counter has counted up
to its last refresh. For a timer that counts the cycles (`CountsFrom`) counter and time
until overflow are quotient and remainder of the time since it was enabled (`AddedCounts`,
`DivOfMod`): counting once over two stretches of time is counting over each. For one that
counts overflows (`Follows`) the counter is the number of overflows of the previous one up to
that same refresh, and `Waits` says that its time until overflow, a number of cycles that
the code compares with a number of overflows, is not too small before it overflows: from
then on nothing can be said. The time does not occur in the invariant but by the refresh,
so that it may jump. A read refreshes from the beginning of the chain: `PassedFrom` is the
recursion of `AddToCounter` down the chain, and the lemmas about it, and about the periods
and times that starting a chain hands down, hold for chains of any length.

**Only model-checked.** Liveness (`SpDmaFires`, `OwnerProceeds`, `PendingIsTakenUp`,
`PollingEnds`, `AudioKeepsPlaying`) is out of the prover's reach, as it has no rule for
ENABLED. The other lockstep properties (`EnginesAgree`, `StackBalanced`,
`RspEnginesAgree`) stay with TLC: that two engines agree is a separate calculation for
each of some 250 instructions, each allocator state and each slot, and that the host stack
is balanced rests on what those calculations give: a divide error of the emitted code
leaves the block in the middle. Every other
invariant and action property that a run checks is a theorem.

## Findings

Where a run or a model found that the code does not do what the code or its comments
say. Only the first has a run that TLC must find violated; TLC refutes the next two
when the property named is added to its configuration.

1. *The timer interrupts once* (`vr4300/cop0.cpp:194`, run `scheduler_match`). The
   event has been erased when `OnCountCompareMatchEvent` asks `ChangeEventTime` to
   move it, so no later match interrupts; `cop0.hpp:125-126` says each one does.
2. *A chained SP DMA takes the other direction's length* (`rsp/rsp.cpp:202`,
   `ReadsCurrentTransfer`): the buffered length is chosen by the direction of the
   transfer that ended; `rsp.cpp:293-294` says both registers are relative to the
   current one.
3. *SRAM is swapped twice* (`interface/pi.cpp:137`, `SramIsBigEndian`): a load clears
   `io_busy` while the finish event of a store is pending, a second store is accepted,
   and the one latch is swapped by both callbacks.
4. *Comments on MI* (`interface/mi.hpp:7-11`): an SP interrupt is also raised when an SP
   DMA ends (`rsp.cpp:229`); the AI's, "when no more samples remain", is raised when a
   buffer ends and another takes over, and when the first is queued (`ai.cpp:88`,
   `ai.cpp:125`), but not when the last one ends.
5. *`scheduler.cpp:31`* "assuming that only the main CPU can cause an event to be added":
   the RSP adds the events of its own DMAs, outside the CPU's run; `late` of
   `N64Scheduler` marks them.

What follows came up while modelling and is kept in the models: as a disjunct of
`Known` in a lockstep module, as a history variable that excludes the case, or by
modelling what the code does.

**VR4300 recompiler against interpreter** (`N64CpuLockstep`, `Known`):

- `ReservedSource`, `FreshBlock`: `next_free` hands out host registers in order,
  whether they are reserved or not (`mips/register_allocator_state.hpp`), so `ddiv`,
  `ldl`, `ldr`, `lwl`, `lwr`, `sc` and `scd` lose an operand in a block's first
  instruction.
- `OverwrittenSource`: `and`, `or`, `xor`, `nor` with rd = rt ≠ rs overwrite rt first;
  `subu` and `dsubu` with all three equal leave a wrong difference.
- `LinkFromSlot`, `JumpInSlot`: `bgezal` tests the branch state with its outcomes
  exchanged; a jump in a slot counts as a branch whether it jumps or not.
- `ZeroWritten`: `jalr`, `cfc1`, `mfc1` and `dmfc1` write register 0.
- `DividendByZero`: the interpreter's `div` by zero looks at 64 bits of rs, the
  recompiler's at 32.
- `ModeUnchecked`: `dmultu`, `lld`, `sd`, `scd`, `sdl` and `sdr` check the 64-bit mode
  in one engine only.
- `CallDropped`: `Call` and `CallWithStackAlignment` emit the call for one
  alignment of the stack only.
- `AddressNotPopped`, `NarrowMask`, `BoundOnOnePath`, `ShiftTooFar`: the partial
  loads and stores leave the address on the stack, mask with a word, bind a guest on
  one path only, and shift past the word.
- `FaultNotCharged`, `StalePc`, `RefusedOperand`: cycles and pc of floating-point
  accesses and operations that raise an exception.
- `NanSense`: the bit that tells which NaNs are invalid is read the other way.
- `OtherLanes`: packed host instructions raise exceptions for what stands in the
  lanes beside the operands.
- `RoundUnfinished`: the tests of operand and result are left out of the rounding
  instructions and their answers read all the same (`cop1_x64.cpp:781`, `807-811`).
- `UndefinedSum`: an `int` sum that overflows; the build does not pass `-fwrapv`.

Not single instructions, so modelled where the models reach them: the branch state
`Perform` is never assigned by the recompiler (`recompiler.cpp:174`), so a block never
performs the branch of the block before; `FlushPc` adds the distance from the block's
start each time; the mode (64-bit, cu1, fr) is looked at when a block is compiled and
blocks are not keyed by it; an eviction leaves the old guest's entry in
`guest_to_host`; `BlockEpilog` never undoes the stack space, pops in binding order
and is followed by a second `ret`; `JitPtr` and `JitPtrOffset` compute a wrong
address (`vr4300/recompiler.hpp:51-86`, `rsp/recompiler.hpp:41-76`), and the models
read `JitPtr(x)` as the variable x.

**RSP recompiler against interpreter** (`N64RspLockstep`, `Known`):
`OverwrittenSource`, `ZeroWritten` and `ReservedArgument`, `ReservedScratch` as above;
`NotTakenInSlot` (a branch that is not taken in a slot: one more instruction before
the jump), `RunsOn` (code runs on after `break`), `StepInSlot` and `StopAtEnd` (the pc
at which the RSP stops) and `WrapMissed` (`ltv` masks an address and compares it with one that is
not). `vmulf` and `vmulu` test the carry of rounding with > 0, so a lane whose low slice
comes to 0 loses its carry: in these lanes (`LostCarry`) the upper slices and the result
are not compared. Besides: vector register 0 is never stored, as guest 0 is taken for the
register that is always 0; `InvalidateRange` indexes a pool past the last for the
address 0x1000; `rbx`, the base of the vectors, is not set up by `BlockProlog`;
`BlockEpilog` returns twice and `BlockEpilogWithJmp` does not restore `vte`; copies of
registers are kept below the stack pointer.

**Memory and compiled blocks.** `InitializeMMU` leaves the masks of TLB entries 0, so
an entry never written matches every address of region 0 (`mmu.cpp:80`);
`TlbMiss`, `TlbInvalid` and `TlbModification` do not set EntryHi's region
(`exceptions.cpp:159-197`, `fault.stale` in the model); wired entries above 31 can be
overwritten by TLBWR (`cop0.hpp:262-274`); `RunRecompiler` uses the block at physical
address 0 when the pc faults (`recompiler.cpp:318-322`); blocks are keyed by physical
and link by virtual address; write-backs and I-cache operations change what the CPU would fetch without `Invalidate`
(`cache.cpp:261`): a block that is compiled while a store to one of its words is only in
the D-cache, or from a stale line of the I-cache, keeps the old code after the program
has written the line back and invalidated the I-cache, as it must before it may jump
there; it takes a jump to the block in between, by an interrupt for instance. Stores and
DMA to SP memory do not drop the CPU's blocks; an operation on the D-cache indexes by the
virtual address (`cache.cpp:143`) and an access by the physical one (`cache.cpp:199`); some
accesses mask an RDRAM address and some do not; `ResetPool` releases a block that is
running; a hit write-back on the I-cache ignores the valid bit.

**Devices.** The address of the last buffer is lost when the AI's queue empties between
the store to AI_DRAM_ADDR and the one to AI_LEN (`ai.cpp:87`); VI_V_SYNC = 1 divides by
zero (`vi.cpp:133`); `RunJoybusProtocol` does not skip the bytes it answers, and bit 0
of the command byte stays set; the RDP's buffer is not compacted while a cut command
waits, so later lists are dropped (`rdp.cpp:74`), and a second list given while
frozen replaces the first; a second SI DMA adds a second finish event.

**Game Boy Advance.** The mask 0x3FF of `irq.cpp:19` hides Dma2, Dma3, keypad and game
pak; `AddEvent` adds elapsed cycles that `Run` adds again, so an IrqChange may overtake
an ImeChange; an iterator is compared after an insert that may have moved the vector;
`SetIRQ` is edge triggered; VCOUNT is
compared with its setting before it wraps (`ppu.cpp:88-114`).

*DMA.* `suspended` says that the loop was told to stop, not that a copy was cut, and
`PerformDma` takes it for the latter (`dma.cpp:125`). It may be set before a copy begins,
by a new first event or by a more urgent channel: the copy then begins with the old
increments and, if it repeats, without loading its count (`told`, first case). It is not
set when a copy merely uses up its cycles: a repeating copy that is cut so begins again,
with its count reloaded and its destination reset (second case). `DoDma` ignores
`suspended`, so a channel runs on until its cycles are used up. A channel engaged at an
HBlank while it is engaged is in the list twice, and `OnDmaDisable` and the end of the copy
take out one entry only: the channel then goes on after it was disabled, or is performed once
more after its end, raising its interrupt again and, if it repeats, copying again.

*Timers.* `AddToCounter` is called with cycles for the first timer of a chain and with a
number of overflows for those after it, but `time_until_overflow` of these is in cycles
(`timers.cpp:323-331`): a timer that counts overflows overflows at a wrong count.
A timer enabled to count up is refreshed after its counter is set
(`timers.cpp:240-248`): an overflow of the previous timer that had not been passed on yet
is counted to it. Its counter is shown divided by the prescaler, which a cascaded timer
should ignore (`timers.cpp:211`), and written again with its enable bit set it keeps a
counter that nobody has refreshed. `GetGlobalTime` jumps ahead when an event is added in the
middle of a run and back when the event fires, so `global_time - time_last_counter_refresh`
may wrap: a counter looked at then counts some 2^64 cycles. A timer's overflow event is
never initialised, which makes it HBlank.

## Not modelled

- *RDP renderer* (parallel-rdp wrapper, Vulkan): pure output.
- *GBA CPU, bus, cartridge, APU*: one engine only, so its semantics has nothing in the
  repository to be compared with; the bus and the APU are tables and mixing.
- *Frontend*: I/O, file dialogs and menus, synchronous with the core.
- *PS1 core*: unfinished and not built.
- *AArch64*: the recompilers have branches for it, but the emitters are x64 only.
- *RSP*: CFC2 and CTC2, the tables of `Rcp` and `Rsq`; how many cycles the RSP gets
  after an overrun of the CPU (`scheduler.cpp:113`).
- *VI*: the registers that describe the picture. *SI*: the PIF's boot handshake and
  challenge, the controller pak. *RDP*: the choice of the command source and the
  RSP as its client.
- *COP0*: in `N64Mmu` ERL and the use of coprocessor 0 in user mode; EntryLo,
  PageMask and Wired are operands and constants.
- *GBA*: keypad interrupts, timer interrupts, sound FIFO DMA; writes to the
  registers of an enabled DMA channel but for disabling it, and a DMA that writes to the DMA's registers.

## Plan

1. The RSP's pacing in `N64Scheduler`, with the overrun of both processors; the RDP's
   command source with the RSP as its client; the GBA timers' interrupts.
2. Proofs: an event queue as an abstract specification that `N64Scheduler` implements; the
   multiplications of `N64VuX64` against those of `N64Vu`, with the lemmas of `N64RspProofs`.
