----------------------------- MODULE MCGbaCore -----------------------------
(***************************************************************************)
(* Model checking of the GBA core.  Timers that ask for no interrupts      *)
(* share nothing with the main loop but the time it makes pass: a          *)
(* behaviour exercises the one or the other.                               *)
(***************************************************************************)
EXTENDS GbaSystem, GbaTimers

VARIABLE exercised \* what this behaviour exercises

coreVars == <<exercised, gbaVars, timersVars>>

Use(timing, repeat, src_ctrl, dst_ctrl) ==
    [timing |-> timing, repeat |-> repeat, src_addr |-> 0, dst_addr |-> 1,
     src_ctrl |-> src_ctrl, dst_ctrl |-> dst_ctrl]

MCUses == [ch \in Channels |->
    IF ch = 0 THEN {Use("now", FALSE, 2, 0), Use("vblank", FALSE, 1, 0)}
    ELSE {Use("hblank", TRUE, 0, 3)}]

CoreInit == exercised \in {"loop", "timers"} /\ GbaInit /\ TimersInit

CoreNext ==
    \/ exercised = "loop" /\ GbaNext /\ UNCHANGED <<exercised, timersVars>>
    \/ exercised = "timers" /\ TimersNext /\ UNCHANGED <<exercised, gbaVars>>

CoreSpec == CoreInit /\ [][CoreNext]_coreVars
=============================================================================
