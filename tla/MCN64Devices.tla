---------------------------- MODULE MCN64Devices ----------------------------
(* Values for the constants of N64Devices. *)
EXTENDS N64Devices

\* A PIF command list: ask the first controller for its state.
StateList == <<255, 1, 4, 1, 255, 255, 255, 255, 254>>
MCLists ==
    <<[i \in 0 .. 63 |-> CASE i < Len(StateList) -> StateList[i + 1]
                           [] i = 63 -> 1
                           [] OTHER -> 0]>>

MCLength == [kind \in Kinds |-> IF kind = "triangle" THEN 2 ELSE 1]
=============================================================================
