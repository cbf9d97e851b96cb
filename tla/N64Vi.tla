------------------------------- MODULE N64Vi -------------------------------
(***************************************************************************)
(* The counter of the video interface (n64/interface/vi.cpp): half lines,  *)
(* fields and the interrupt at a line that the program chooses.  A step of *)
(* the counter is the callback of the event VINewHalfline, whose timing is *)
(* modelled in N64Scheduler.                                               *)
(***************************************************************************)
EXTENDS N64DeviceLines, Integers

CONSTANTS
    Syncs,      \* what the program writes to VI_V_SYNC
    Interrupts, \* what it writes to VI_V_INTR
    DefaultSync \* default_vsync_ntsc

\* cpu_cycles_per_frame is divided by v_sync >> 1, so that 1 must not be written.
ASSUME ViAssumption ==
    /\ Syncs \subseteq Nat \ {0, 1} /\ DefaultSync \in Nat \ {0, 1}
    /\ Interrupts \subseteq Nat

VARIABLES
    v_current, v_sync, v_intr,
    int_enable, interlaced, \* from vi.ctrl
    hits,       \* history: interrupts raised in the field so far
    undisturbed \* history: the program has left the registers alone in this field

ViInit ==
    /\ lines = {}
    /\ v_current = 0 /\ v_sync = DefaultSync /\ v_intr \in Interrupts
    /\ int_enable = TRUE /\ interlaced = FALSE
    /\ hits = 0 /\ undisturbed = FALSE

-----------------------------------------------------------------------------
\* Faulty: the parity of the line always counts.
ExactMatch(current) == current = v_intr

\* With an odd VI_V_SYNC the lowest bit is masked out.
Matches(current) ==
    IF v_sync % 2 = 0 THEN current = v_intr ELSE current \div 2 = v_intr \div 2

\* The first half line of the field after one of the given parity.
NextField(field) == IF interlaced THEN 1 - field ELSE 0

OnNewHalfline ==
    LET wraps == v_current + 2 >= v_sync IN
    /\ v_current' = IF wraps THEN NextField(v_current % 2) ELSE v_current + 2
    /\ LET raised == int_enable /\ Matches(v_current') IN
        /\ IF raised THEN RaiseInterrupt("VI") ELSE UNCHANGED lines
        /\ hits' = (IF wraps THEN 0 ELSE hits) + (IF raised THEN 1 ELSE 0)
    /\ undisturbed' = (undisturbed \/ wraps)
    /\ UNCHANGED <<v_sync, v_intr, int_enable, interlaced>>

-----------------------------------------------------------------------------
(* The program.                                                            *)

Disturbed == undisturbed' = FALSE

WriteCtrl ==
    /\ int_enable' \in BOOLEAN /\ interlaced' \in BOOLEAN
    /\ Disturbed
    /\ UNCHANGED <<lines, v_current, v_sync, v_intr, hits>>

WriteVIntr ==
    /\ v_intr' \in Interrupts
    /\ Disturbed
    /\ UNCHANGED <<lines, v_current, v_sync, int_enable, interlaced, hits>>

WriteVSync ==
    /\ \E data \in Syncs \cup {0} :
        v_sync' = IF data = 0 THEN DefaultSync ELSE data
    /\ Disturbed
    /\ UNCHANGED <<lines, v_current, v_intr, int_enable, interlaced, hits>>

\* The program's acknowledgement.
WriteVCurrent ==
    /\ ClearInterrupt("VI")
    /\ UNCHANGED <<v_current, v_sync, v_intr, int_enable, interlaced,
                   hits, undisturbed>>

ViNext ==
    \/ OnNewHalfline
    \/ WriteCtrl \/ WriteVIntr \/ WriteVSync \/ WriteVCurrent

-----------------------------------------------------------------------------
(* Properties.                                                             *)

\* The half lines of the field that v_current is in, up to it, and those of them
\* that the program asked to be interrupted at, whatever the lowest bit of an odd
\* VI_V_SYNC.
Field == {line \in 0 .. v_current : line % 2 = v_current % 2}
Asked == {line \in Field :
            \/ line = v_intr
            \/ v_sync % 2 = 1 /\ v_intr \in {2 * (line \div 2), 2 * (line \div 2) + 1}}

\* In a field during which the program leaves the registers alone the interrupt is
\* raised once at the line asked for and never besides, in both fields of an
\* interlaced picture (vi.cpp, CheckVideoInterrupt and its mask).
OneInterruptPerField ==
    undisturbed =>
        /\ hits <= 1
        /\ hits = 1 <=> int_enable /\ Asked # {}

=============================================================================
