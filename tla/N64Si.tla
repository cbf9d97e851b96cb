------------------------------- MODULE N64Si -------------------------------
(***************************************************************************)
(* The serial interface (n64/interface/si.cpp) and the PIF behind it       *)
(* (n64/memory/pif.cpp): DMA of the 64 bytes of PIF RAM from and to RDRAM, *)
(* the commands that the PIF runs on them and the controller that answers. *)
(*                                                                         *)
(* RDRAM is two adjacent buffers of 64 bytes; the address of the PIF side  *)
(* is that of PIF RAM.  The program has its command list in the first,     *)
(* transfers it, and reads the answer to the second with another DMA.      *)
(***************************************************************************)
EXTENDS N64DeviceLines, Integers, Sequences

CONSTANTS
    Lists,     \* the sequence of command lists of the program, 64 bytes each
    PifWrites, \* what it stores to the last word of PIF RAM
    Axes,      \* the axes of the stick that are moved, of "x" and "y"
    Sticks,    \* the positions they are moved to
    Buttons    \* the buttons that are used, of "a", "s", "l" and "r"

RamSize == 64
CommandByte == RamSize - 1 \* command_byte_index
Byte == 0 .. 255
\* v & mask and v & ~mask, for a mask of one bit.
Bit(mask, v) == (v \div mask) % 2 = 1
Without(mask, v) == IF Bit(mask, v) THEN v - mask ELSE v

ASSUME SiAssumption ==
    /\ Lists \in Seq([0 .. RamSize - 1 -> Byte])
    /\ PifWrites \subseteq Byte /\ Sticks \subseteq Byte
    /\ Axes \subseteq {"x", "y"} /\ Buttons \subseteq {"a", "s", "l", "r"}

VARIABLES
    ram,          \* mem.ram of the PIF, index 0 to 63
    joypad,       \* joypad_status
    list,         \* the index of the list in the first buffer in RDRAM
    answer,       \* the second buffer
    dram_addr,    \* si.dram_addr, 2 when it is past both
    dma_busy, interrupt, \* bits of si.status
    finish_events, \* SiDmaFinish events in the scheduler
    doubled,      \* history: a DMA was started while another was under way
    readJoypad    \* history: the state of the controller when the answer was read,
                  \* <<>> when it does not hold an answer

siStatus == <<dma_busy, interrupt, finish_events, doubled>>
Zeros == [i \in 0 .. RamSize - 1 |-> 0]
NoButtons == [a |-> 0, s |-> 0, l |-> 0, r |-> 0, rst |-> 0, x |-> 0, y |-> 0]

SiInit ==
    /\ lines = {}
    /\ ram = Zeros /\ joypad = NoButtons
    /\ list \in DOMAIN Lists /\ answer = Zeros
    /\ dram_addr = 0
    /\ dma_busy = FALSE /\ interrupt = FALSE
    /\ finish_events = 0 /\ doubled = FALSE
    /\ readJoypad = <<>>

-----------------------------------------------------------------------------
(* The controller.                                                         *)

\* L, R and Start together reset the stick.
OnShoulderOrStartChanged(pad, pressed) ==
    CASE pressed /\ pad.l = 1 /\ pad.r = 1 /\ pad.s = 1 ->
            [pad EXCEPT !.rst = 1, !.s = 0, !.x = 0, !.y = 0]
      [] pressed /\ ~ (pad.l = 1 /\ pad.r = 1 /\ pad.s = 1) -> pad
      [] ~ pressed -> [pad EXCEPT !.rst = 0]

OnButtonAction(control, pressed) ==
    LET pad == [joypad EXCEPT ![control] = IF pressed THEN 1 ELSE 0] IN
    joypad' = IF control \in {"s", "l", "r"}
              THEN OnShoulderOrStartChanged(pad, pressed) ELSE pad

\* joypad_status as the four bytes that a game reads.
JoypadBytes(pad) == <<128 * pad.a + 16 * pad.s,
                      128 * pad.rst + 32 * pad.l + 16 * pad.r, pad.x, pad.y>>

-----------------------------------------------------------------------------
(* The PIF: m is its RAM.                                                  *)

Stored(m, at, bytes) ==
    [i \in DOMAIN m |-> IF i \in at .. at + Len(bytes) - 1 THEN bytes[i - at + 1]
                        ELSE m[i]]

ControllerId == <<5, 0, 1>>

\* Runs one command, whose answer goes to "result".  The accessory, EEPROM and
\* clock commands do nothing yet.
JoybusCommand(m, cmd, result) ==
    CASE cmd \in {0, 255} -> Stored(m, result, ControllerId)
      [] cmd = 1 -> Stored(m, result, JoypadBytes(joypad))
      [] OTHER -> m

\* The walk over the commands, from a channel and an offset on.  It goes on with the
\* byte after the command, where the answer has just been written.
Walks == [m : [0 .. RamSize - 1 -> Byte], channel : 0 .. 5, offset : 0 .. RamSize + 2]

Ended(w) ==
    \/ w.offset >= RamSize \/ w.channel >= 5
    \/ w.m[w.offset] = 254
    \/ w.m[w.offset] \notin {0, 253, 255} /\ w.m[w.offset + 1] = 254

AfterCommand(w, cmd) ==
    [m |-> JoybusCommand(w.m, cmd, w.offset + 2 + (w.m[w.offset] % 64)),
     channel |-> w.channel + (IF cmd \in {0, 1, 255} THEN 1 ELSE 0),
     offset |-> w.offset + 3]

NextOf(w) ==
    CASE w.m[w.offset] \in {0, 253} ->
            [w EXCEPT !.channel = @ + 1, !.offset = @ + 1]
      [] w.m[w.offset] = 255 -> [w EXCEPT !.offset = @ + 1]
      [] OTHER -> AfterCommand(w, w.m[w.offset + 2])

Walk[w \in Walks] == IF Ended(w) THEN w.m ELSE Walk[NextOf(w)]

RunJoybusProtocol(m) == Walk[[m |-> m, channel |-> 0, offset |-> 0]]

\* The bits of the command byte, in the order in which they are served: 1 stays set,
\* 32 sets 128 first, 64 clears the RAM.
RunCommands(m) ==
    LET walked == IF Bit(1, m[CommandByte]) THEN RunJoybusProtocol(m) ELSE m
        served == Without(16, Without(8, Without(2, walked[CommandByte])))
        checked == IF Bit(32, served)
                   THEN Without(32, IF Bit(128, served) THEN served ELSE served + 128)
                   ELSE served
    IN IF Bit(64, checked) THEN Zeros
       ELSE [walked EXCEPT ![CommandByte] = checked]

-----------------------------------------------------------------------------
(* The serial interface.                                                   *)

StartDma ==
    /\ dma_busy' = TRUE
    /\ finish_events' = finish_events + 1
    /\ doubled' = ((doubled /\ finish_events > 0) \/ dma_busy)
    /\ dram_addr' = dram_addr + 1
    /\ UNCHANGED <<lines, joypad, interrupt>>

\* Faulty: the answer is what the list was answered when it was written.
StalePifToRdram ==
    /\ answer' = ram
    /\ readJoypad' = JoypadBytes(joypad)
    /\ UNCHANGED <<ram, list>>
    /\ StartDma

\* InitDma<PifToRdram>: the PIF runs the commands and all is copied at once.
PifToRdram ==
    /\ ram' = RunCommands(ram)
    /\ answer' = ram'
    /\ readJoypad' = JoypadBytes(joypad)
    /\ UNCHANGED list
    /\ StartDma

\* InitDma<RdramToPif>: the word with the command byte is the last one written, and
\* writing it runs the commands.
RdramToPif ==
    /\ ram' = RunCommands(Lists[list])
    /\ readJoypad' = <<>>
    /\ UNCHANGED <<list, answer>>
    /\ StartDma

\* Faulty: the interface stays busy.
OnDmaFinishBusy ==
    /\ finish_events > 0
    /\ finish_events' = finish_events - 1
    /\ interrupt' = TRUE
    /\ RaiseInterrupt("SI")
    /\ UNCHANGED <<ram, joypad, list, answer, dram_addr, dma_busy, doubled, readJoypad>>

OnDmaFinish ==
    /\ finish_events > 0
    /\ finish_events' = finish_events - 1
    /\ interrupt' = TRUE
    /\ dma_busy' = FALSE
    /\ RaiseInterrupt("SI")
    /\ UNCHANGED <<ram, joypad, list, answer, dram_addr, doubled, readJoypad>>

-----------------------------------------------------------------------------
(* The program and the player.                                             *)

MaxEvents == 2 \* bound on the DMAs under way

ReadAnswer ==
    /\ finish_events < MaxEvents
    /\ dram_addr = 1 /\ readJoypad = <<>>
    /\ PifToRdram

SendList == finish_events < MaxEvents /\ dram_addr = 0 /\ RdramToPif

WriteSiDramAddr ==
    /\ dram_addr' \in 0 .. 1
    /\ UNCHANGED <<lines, ram, joypad, list, answer, siStatus, readJoypad>>

WriteStatus ==
    /\ interrupt' = FALSE
    /\ ClearInterrupt("SI")
    /\ UNCHANGED <<ram, joypad, list, answer, dram_addr, dma_busy, finish_events, doubled,
                   readJoypad>>

\* A store to the last word of PIF RAM; of its bytes only the last one matters.
WritePif ==
    /\ \E b \in PifWrites :
        ram' = RunCommands([ram EXCEPT ![60] = 0, ![61] = 0, ![62] = 0, ![63] = b])
    /\ readJoypad' = <<>>
    /\ UNCHANGED <<lines, joypad, list, answer, dram_addr, siStatus>>

Press == \E control \in Buttons : OnButtonAction(control, TRUE)
Release == \E control \in Buttons : OnButtonAction(control, FALSE)
OnJoystickMovement ==
    \E axis \in Axes, v \in Sticks : joypad' = [joypad EXCEPT ![axis] = v]

Play ==
    /\ Press \/ Release \/ OnJoystickMovement
    /\ UNCHANGED <<lines, ram, list, answer, dram_addr, siStatus, readJoypad>>

SiNext ==
    \/ ReadAnswer \/ SendList \/ OnDmaFinish
    \/ WriteSiDramAddr \/ WriteStatus \/ WritePif \/ Play

-----------------------------------------------------------------------------
(* Properties.                                                             *)

\* A program that polls dma_busy comes to an end of it, and when it waits for that
\* end before each DMA every DMA has its own finish event (si.cpp, InitDma and
\* OnDmaFinish; a DMA started during another adds an event to the first one's).
SiEventMatchesBusy ==
    /\ dma_busy => finish_events > 0
    /\ ~ doubled => finish_events = IF dma_busy THEN 1 ELSE 0

\* What a game reads is the controller as it is at the read, not as it was when the
\* command list was written (si.cpp, the call of pif::RunCommands).  Only as long
\* as no button of the first byte is held: see the README on the walk over answers.
IsStateList(m) ==
    /\ \A i \in 1 .. 4 : m[i - 1] = <<255, 1, 4, 1>>[i]
    /\ m[8] = 254 /\ Bit(1, m[CommandByte])

AnswerIsFresh ==
    readJoypad # <<>> /\ readJoypad[1] = 0 /\ IsStateList(answer) =>
        \A i \in 1 .. 4 : answer[i + 3] = readJoypad[i]

=============================================================================
