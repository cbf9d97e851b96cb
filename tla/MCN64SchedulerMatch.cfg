CONSTANTS
    Update = 3
    Costs = {1, 2}
    MaxCost = 2
    Modulus = 8
    Halflines = {4}
    Delays = {}
    CountValues = {}
    CompareValues = {2, 6}
    MaxEvents = 0
SPECIFICATION Spec
INVARIANT TimerMatchRaises
