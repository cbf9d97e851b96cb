CONSTANTS
    Update = 3
    Costs = {1, 4}
    MaxCost = 4
    Modulus = 8
    Halflines = {4}
    Delays = {3}
    CountValues = {5}
    CompareValues = {6}
    MaxEvents = 2
SPECIFICATION Spec
INVARIANTS NoLostOrDoubledEvent EventTimesHonest NothingOverdue TimerEventTracksCount
PROPERTY SpDmaFires
