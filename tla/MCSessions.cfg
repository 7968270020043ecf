CONSTANTS
  MaxConns = 2
  MaxSends = 3
SPECIFICATION FairSpec
INVARIANTS TypeOK CharactersRegistered NoOrphans NoGhostSession RosterComplete NoPhantoms
PROPERTIES PromiseKept LogoutCompletes DepartureSeen
