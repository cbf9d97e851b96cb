SPECIFICATION Spec
CONSTANTS
  Volatile <- MCVolatile
  NonVolatile <- MCNonVolatile
  ArgRegs <- MCArgRegs
  Guests = {0, 1, 2, 3}
  Junk = 50
  MaxSteps = 4
INVARIANTS GuestsRecoverable BindingsInverse
CHECK_DEADLOCK FALSE
