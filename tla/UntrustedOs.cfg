CONSTANTS
  NumEpc = 3
  Bases = {0, 1, 2}
  Sizes = {1, 2, 3, 4}
  Displacements <- MCDisplacements
  Perms <- MCPerms
  SrcTcs <- MCSrcTcs
  MaxEid = 2
  MaxUpdates = 3
  MaxCssa = 2
SPECIFICATION Spec
INVARIANTS
  TypeOK
  OwnedBySecs
  EidsUnique
  PagesMeasuredBeforeInit
  SaveAreaInEnclave
PROPERTIES
  PageIdentityStable
  PagesLive
CHECK_DEADLOCK FALSE
