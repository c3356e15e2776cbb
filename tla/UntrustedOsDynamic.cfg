CONSTANTS
  NumEpc = 6
  Bases = {0}
  Sizes = {8}
  Displacements <- MCPairDisplacements
  Perms <- MCPairPerms
  SrcTcs <- MCPairTcs
  MaxEid = 2
  MaxUpdates = 4
  MaxCssa = 1
SPECIFICATION MCPairSpec
INVARIANT PendingIsAugmented
PROPERTY PermissionsExtendedByOwner
CHECK_DEADLOCK FALSE
