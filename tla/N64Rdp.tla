------------------------------- MODULE N64Rdp -------------------------------
(***************************************************************************)
(* The command queue of the N64's RDP (n64/rdp/rdp.cpp): lists of commands *)
(* in memory, handed over by DPC_START and DPC_END, copied to a buffer and *)
(* cut into commands for the renderer.  Which memory they come from, RDRAM *)
(* or the RSP's, and the counters of DPC_STATUS are left out.              *)
(*                                                                         *)
(* Addresses and lengths count double words.  A command is of a kind that  *)
(* gives its length; the double words after its first are data, which may  *)
(* look like a command.                                                    *)
(***************************************************************************)
EXTENDS N64DeviceLines, Integers, Sequences

CONSTANTS
    Kinds,    \* the commands: "noop" (opcode below 8), "sync" (0x29) and others
    Length,   \* cmd_word_lengths, in double words
    MemSize,  \* the double words of command memory
    Capacity, \* cmd_buffer_word_capacity in double words
    MaxGiven  \* bound on the double words that are taken over

ASSUME RdpAssumption ==
    /\ {"noop", "sync"} \subseteq Kinds
    /\ Length \in [Kinds -> Nat \ {0}]
    /\ MemSize \in Nat /\ Capacity \in Nat /\ MaxGiven \in Nat

VARIABLES
    memory,   \* what the lists are made of
    start, end, current, start_valid, freeze, busy, \* busy: pipe_busy, start_gclk
    cmd_buffer, \* the double words queued, from index 0 to num_queued_words
    queue_offset, \* queue_word_offset
    given,    \* history: the double words taken over
    enqueued  \* history: the commands given to the renderer, with their data

RdpInit ==
    /\ lines = {}
    /\ memory \in [0 .. MemSize - 1 -> Kinds]
    /\ start = 0 /\ end = 0 /\ current = 0
    /\ start_valid = FALSE /\ freeze = FALSE /\ busy = FALSE
    /\ cmd_buffer = <<>> /\ queue_offset = 0
    /\ given = <<>> /\ enqueued = <<>>

-----------------------------------------------------------------------------
(* Cutting the buffer into commands: "rest" is what has not been cut yet.  *)

WholeCommand(rest) == rest # <<>> /\ Length[Head(rest)] <= Len(rest)
Dropped(rest, n) == SubSeq(rest, n + 1, Len(rest))

\* The commands, and what is left: a command that is not whole stays for the next
\* call.  Commands without effect are skipped.
Cut[rest \in Seq(Kinds)] ==
    IF ~ WholeCommand(rest) THEN [commands |-> <<>>, left |-> rest]
    ELSE LET n == Length[Head(rest)]
             command == IF Head(rest) = "noop" THEN <<>> ELSE <<SubSeq(rest, 1, n)>>
             next == Cut[Dropped(rest, n)]
         IN [commands |-> command \o next.commands, left |-> next.left]

Commands(rest) == Cut[rest].commands
Remainder(rest) == Cut[rest].left

\* Faulty: a command that is cut off by the end of its list is dropped.
ForgetRemainder(all, rest) == cmd_buffer' = <<>> /\ queue_offset' = 0

\* The buffer is emptied when nothing is left of it, and else it is kept whole.
KeepRemainder(all, rest) ==
    IF rest = <<>> THEN cmd_buffer' = <<>> /\ queue_offset' = 0
    ELSE cmd_buffer' = all /\ queue_offset' = Len(all) - Len(rest)

-----------------------------------------------------------------------------
Words(from, to) == [i \in 1 .. to - from |-> memory[from + i - 1]]

\* A list for which there is no room is not taken over, not even in part.
Room(from, to) == Len(cmd_buffer) + (to - from) < Capacity

\* LoadExecuteCommands with DPC_CURRENT = cur and DPC_END = to.
Execute(cur, to) ==
    LET all == cmd_buffer \o Words(cur, to)
        rest == Dropped(all, queue_offset)
        commands == Commands(rest)
        syncs == {i \in DOMAIN commands : Head(commands[i]) = "sync"}
        left == Remainder(rest)
    IN /\ KeepRemainder(all, left)
       /\ enqueued' = enqueued \o commands
       /\ given' = given \o Words(cur, to)
       /\ busy' = (syncs = {})
       /\ IF syncs # {} THEN RaiseInterrupt("DP") ELSE UNCHANGED lines
       /\ current' = to
       /\ start' = IF left # <<>> THEN to ELSE start

LoadExecuteCommands(cur, to) ==
    IF ~ freeze' /\ cur < to /\ Room(cur, to) THEN Execute(cur, to)
    ELSE /\ busy' = (busy \/ ~ freeze')
         /\ current' = cur
         /\ UNCHANGED <<lines, start, cmd_buffer, queue_offset, given, enqueued>>

WriteStart ==
    /\ ~ start_valid
    /\ start' \in 0 .. MemSize
    /\ start_valid' = TRUE
    /\ UNCHANGED <<lines, memory, end, current, freeze, busy, cmd_buffer,
                   queue_offset, given, enqueued>>

\* The first list after a write of DPC_START begins there, later ones go on.
WriteEnd ==
    /\ Len(given) < MaxGiven
    /\ UNCHANGED <<memory, freeze>>
    /\ end' \in 0 .. MemSize
    /\ start_valid' = FALSE
    /\ LoadExecuteCommands(IF start_valid THEN start ELSE current, end')

WriteFreeze ==
    /\ freeze' = TRUE
    /\ UNCHANGED <<lines, memory, start, end, current, start_valid, busy, cmd_buffer,
                   queue_offset, given, enqueued>>

WriteUnfreeze ==
    /\ freeze' = FALSE
    /\ LoadExecuteCommands(current, end)
    /\ UNCHANGED <<memory, end, start_valid>>

RdpNext == WriteStart \/ WriteEnd \/ WriteFreeze \/ WriteUnfreeze

-----------------------------------------------------------------------------
(* Properties.                                                             *)

\* However a stream of commands is cut into lists, even in the middle of a command,
\* the renderer gets the commands of the whole stream, each once and with its data;
\* what it has not got is the command that is not whole yet (rdp.cpp, the partial
\* command of LoadExecuteCommands).
StreamIsKept ==
    /\ enqueued = Commands(given)
    /\ Dropped(cmd_buffer, queue_offset) = Remainder(given)

=============================================================================
