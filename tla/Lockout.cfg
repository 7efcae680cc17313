CONSTANTS
  Clients = {ann, bob, cy}
  MaxFailures = 2
  WindowTicks = 2
  LockTicks = 2
  MaxClients = 2
  MaxUnderWay = 2

SPECIFICATION LockoutSpec

INVARIANTS MemoryBounded CountedGuessesBounded
PROPERTIES LockRunsOut
