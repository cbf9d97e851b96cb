CONSTANTS
    Bytes = {0, 4088}
    Skip = {0}
    Address = {zero, end, CPU, RSP}
    ZeroAddress = zero
    EndAddress = end
    Client = {CPU, RSP}
SPECIFICATION ClientsSpec
INVARIANT TransferUsesOwnAddress
PROPERTIES NoRequestOverwritten OwnerProceeds
