CONSTANTS
  Enclaves = {"challenger", "target", "quote"}
  Measurements <- MCMeasurements
  sha256final <- MCsha256final
  Builds <- MCBuilds
  Sigs <- MCSigs
  Tokens = {}
  Requests = {}
  TargetInfos = {}
  IntelKey = "intel"
  CpuSvn = 1
  Zero = "zero"
  None = None
  Modes = {"intra"}
  Confs <- MCConfs
SPECIFICATION AttestSpec
PROPERTIES
  FailureIsReported
CHECK_DEADLOCK FALSE
