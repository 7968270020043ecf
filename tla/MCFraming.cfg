CONSTANTS
  Base = 3
  Payloads <- SomePayloads
  MAX_PACKET_SIZE = 3
  BufferSize = 6
  MaxWrites = 3
SPECIFICATION FairSpec
INVARIANTS NothingStuck GivesUpForCause
PROPERTIES ChannelKept AllDelivered
CHECK_DEADLOCK FALSE
