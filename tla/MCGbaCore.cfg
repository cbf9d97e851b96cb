SPECIFICATION CoreSpec
CONSTANTS
  Sources = {"HBlank", "Dma0", "Dma3"}
  Served = {"HBlank", "Dma0"}
  IrqDelay = 1
  Channels = {0, 3}
  AddressSpace = 3
  HBlankTime = 3
  FlagTime = 1
  LineTime = 2
  VCountSetting = 1
  PpuSources = {"HBlank"}
  Lines = 2
  VBlankLine = 1
  Costs = {2}
  UnitCost = 2
  Counts = {3}
  Uses <- MCUses
  MaxEvents = 2
  MaxSlice = 4
  MaxDrivers = 3
  LastTimer = 2
  CounterMax = 3
  Prescalers = {1, 2}
  Reloads = {1}
  U64 = 1024
  MaxTime = 3
  MaxSteps = 3
INVARIANTS LineSettles TransferIsExact MostUrgentRuns CountsElapsedTime
CHECK_DEADLOCK FALSE
