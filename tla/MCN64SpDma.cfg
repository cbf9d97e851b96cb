CONSTANTS
    Bytes = {0, 4088}
    Skip = {0, 8}
    Address = {zero, end}
    ZeroAddress = zero
    EndAddress = end
SPECIFICATION Spec
INVARIANTS FinishEventMatchesBusy DirectionIsRequested UncrossedLengthIsRequested
PROPERTY PendingIsTakenUp
