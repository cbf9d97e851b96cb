CONSTANTS
    LastAddr = 2
    \* Word 2 stands for the all-ones value the registers have at power-on.
    Misaligned = {2}
    CommonVector = 1
    RefillVector = 0
    ResetVector = 0
    HleEntry = 0
    InterruptType = {DP}
    DP = DP
    SoftwareIp = {IP0}
    MI = MI
    Timer = Timer
    StatusWritable = {"ie", "user", "cu0"}
    \* The program takes coprocessor 0 from user mode when it first writes Status.
    StatusValues = {{}, {"ie"}, {"user"}, {"ie", "user"}}
    Targets = {0, 2}
SPECIFICATION Spec
INVARIANTS PendingMirrorsMi NoMissedInterrupt CachedModeIsFresh
PROPERTY ResumePointKept
