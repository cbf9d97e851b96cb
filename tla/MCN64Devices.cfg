SPECIFICATION DevicesSpec
CONSTANTS
    Space = 8
    Page = 4
    NoAddr = NoAddr
    Addresses = {0, 2}
    Lengths = {0, 2, 4}
    Periods = {1, 2}
    StepCycles = {2}
    Lists <- MCLists
    PifWrites = {64}
    Axes = {"x"}
    Sticks = {7}
    Buttons = {"s", "l", "r"}
    Syncs = {5, 6, 7}
    Interrupts = {0, 1, 4, 5, 9}
    DefaultSync = 7
    Kinds = {"noop", "sync", "triangle"}
    Length <- MCLength
    MemSize = 3
    Capacity = 5
    MaxGiven = 4
INVARIANTS
    SiEventMatchesBusy
    AnswerIsFresh
    OneInterruptPerField
    StreamIsKept
PROPERTIES
    PlaysLikeAQueue
    AudioKeepsPlaying
