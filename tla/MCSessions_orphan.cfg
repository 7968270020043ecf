CONSTANTS
  MaxConns = 2
  MaxSends = 3
SPECIFICATION Spec
INVARIANT NewcomerSeesEveryActor
