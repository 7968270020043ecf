CONSTANTS
  MaxConns = 2
  MaxSends = 1
SPECIFICATION FairSpec
PROPERTY ClosedPeerRemoved
