----------------------------- MODULE N64Devices -----------------------------
(***************************************************************************)
(* The audio, serial and video interfaces and the RDP's command queue on   *)
(* the interrupt lines of the MIPS interface.  The devices share nothing   *)
(* but those lines, each has its own and none reads another's, so that a   *)
(* behaviour exercises one of them while the others stay as they are after *)
(* power-on.                                                               *)
(***************************************************************************)
EXTENDS N64Ai, N64Si, N64Vi, N64Rdp

VARIABLE active \* the device that this behaviour exercises

siOwn == <<ram, joypad, list, answer, dram_addr, siStatus, readJoypad>>
viOwn == <<v_current, v_sync, v_intr, int_enable, interlaced, hits, undisturbed>>
rdpOwn == <<memory, start, end, current, start_valid, freeze, busy, cmd_buffer,
            queue_offset, given, enqueued>>
aiOwn == <<cycles, dac_period, aiRegisters, stepping, driver, latch>>

devicesVars == <<active, lines, aiOwn, siOwn, viOwn, rdpOwn>>

\* What the program writes only matters for the device it writes to.
DevicesInit ==
    /\ active \in {"AI", "SI", "VI", "DP"}
    /\ AiInit /\ SiInit /\ ViInit /\ RdpInit
    /\ active # "AI" => \A p \in Periods : dac_period <= p
    /\ active # "VI" => \A i \in Interrupts : v_intr <= i
    /\ active # "DP" => \A i \in DOMAIN memory : memory[i] = "noop"

Audio(Step) ==
    active = "AI" /\ Step /\ UNCHANGED <<active, siOwn, viOwn, rdpOwn>>

DevicesNext ==
    \/ Audio(AiNext)
    \/ active = "SI" /\ SiNext /\ UNCHANGED <<active, aiOwn, viOwn, rdpOwn>>
    \/ active = "VI" /\ ViNext /\ UNCHANGED <<active, aiOwn, siOwn, rdpOwn>>
    \/ active = "DP" /\ RdpNext /\ UNCHANGED <<active, aiOwn, siOwn, viOwn>>

\* The scheduler's loop runs the CPU and the audio interface in turns: a store of
\* the driver that is possible again and again, between two Steps, is executed.
Fairness ==
    /\ WF_devicesVars(Audio(BeginStep))
    /\ WF_devicesVars(Audio(StepSample))
    /\ WF_devicesVars(Audio(EndStep))
    /\ SF_devicesVars(Audio(GiveAddress))
    /\ SF_devicesVars(Audio(GiveLength))
    /\ SF_devicesVars(Audio(Acknowledge))

DevicesSpec == DevicesInit /\ [][DevicesNext]_devicesVars /\ Fairness

-----------------------------------------------------------------------------
\* Whenever the queue of the audio interface has run empty its driver, which waits
\* for interrupts, fills it again, as long as the CPU and the sampler take turns
\* (ai.cpp, Sample and WriteReg; scheduler.cpp, the loop of Run).
AudioKeepsPlaying == (active = "AI" /\ dma_count = 0) ~> (dma_count > 0)
=============================================================================
