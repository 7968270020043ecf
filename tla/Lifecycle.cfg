CONSTANTS
  MaxConns = 2
  MaxTicks = 3
  MaxSignals = 2
SPECIFICATION FairSpec
INVARIANTS TypeOK OneTickOneAccept CleanAfterShutdown
PROPERTIES NoTickAfterShutdown ShutdownCompletes TicksGoOn ConnectionsServed
CHECK_DEADLOCK FALSE
