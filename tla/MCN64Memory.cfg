SPECIFICATION Spec
CONSTANTS
  Entries = 2
  Addresses <- MCAddresses
  LowAreas = {"useg", "kseg0"}
  PageMasks = {1, 2}
  EntryLos <- MCEntryLos
  Asids = {0, 1}
  Modes <- MCModes
  Wired = 1
  MaxWrites = 2
  Pages = 2
  Words = 2
  PoolWords = 2
  ImemWords = 4
  Values = {zero, one}
  EntryPoints = {0}
  Undefined = Undefined
SYMMETRY MCValues
INVARIANTS
  ProbeFindsFault
  LoadsSeeStores
  CodeIsCurrent
CHECK_DEADLOCK FALSE
