SPECIFICATION RspSpec
CONSTANTS
  BYTE = 2
  MEM = 32
  Volatile <- MCVolatile
  NonVolatile <- MCNonVolatile
  ArgRegs <- MCArgRegs
  Guests = {0, 1, 2, 31}
  Junk = 173
  VecVolatile <- MCVecVolatile
  VecGuests <- MCVecGuests
  JunkVec <- MCJunkVec
  Rcp <- MCRcp
  Rsq <- MCRsq
  Inputs <- MCInputs
  Allocations <- MCAllocations
  Elements = {0, 5}
INVARIANTS RspEnginesAgree AccumulatorIsSum
CHECK_DEADLOCK FALSE
