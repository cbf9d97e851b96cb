--------------------------- MODULE N64DeviceLines ---------------------------
(***************************************************************************)
(* The lines on which the devices raise interrupts: mi.interrupt of the    *)
(* MIPS interface.  N64Interrupts says what becomes of them.               *)
(***************************************************************************)
VARIABLE lines \* the interrupts raised

RaiseInterrupt(type) == lines' = lines \cup {type}
ClearInterrupt(type) == lines' = lines \ {type}
=============================================================================
