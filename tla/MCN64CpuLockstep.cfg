SPECIFICATION CpuSpec
CONSTANTS
  BYTE = 1
  REGION = 5
  Volatile <- MCVolatile
  NonVolatile <- MCNonVolatile
  ArgRegs <- MCArgRegs
  Guests = {0, 1, 2, 31}
  Junk = 173
  Values <- MCValues
  Imms <- MCImms
  Allocations <- MCAllocations
  FpValues <- MCFpValues
  ControlWords <- MCControlWords
  HostResults <- MCHostResults
INVARIANTS EnginesAgree FpuTrapsExactly StackBalanced
CHECK_DEADLOCK FALSE
