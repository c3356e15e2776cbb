CONSTANTS
  Enclaves = {e1, e2}
  Measurements <- MCMeasurements
  sha256final <- MCsha256final
  Builds <- MCBuilds
  Sigs <- MCSigs
  Tokens <- MCTokens
  Requests <- MCRequests
  TargetInfos <- MCTargetInfos
  IntelKey = "intel"
  CpuSvn = 1
  Zero = "zero"
  None = None
SYMMETRY EnclaveSymmetry
SPECIFICATION Spec
INVARIANTS
  LaunchersInitialisedByIntel
  ReportForTarget
  SealKeysSeparate
CHECK_DEADLOCK FALSE
