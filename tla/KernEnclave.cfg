CONSTANTS
  NumEpc = 28
  Keys = {0, 1, 2}
  MaxEnclaves = 3
  CodePages = {1, 2}
  TlsPages = 1
  SsaPages = 2
  StackPages = 1
  HeapPages = 1
  Nssa = 2
SPECIFICATION Spec
INVARIANTS
  TypeOK
  OccupiedIsPrefix
  ReservationSuffices
  TableMatchesEpcm
  KeidIsEid
  PagesInElrange
  CreatedIsEnterable
  RegionsOfNewest
  CreateFaultsOnlyAfterFailure
  SignedIsMeasured
PROPERTIES
  MeasurementFinal
