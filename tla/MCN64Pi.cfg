CONSTANTS
    Value = {v1, v2}
    NoValue = NoValue
    Slot = {s1, s2}
    NoSlot = NoSlot
    MaxAddr = 1
    MaxEvents = 2
SPECIFICATION Spec
INVARIANTS OneEventEach AcceptedWritesLand AddressesAreThePrograms
PROPERTY PollingEnds
