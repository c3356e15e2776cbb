CONSTANTS
  Threads = {t1, t2}
  NoThread = NoThread
  Nssa = 2
  Trampoline = "trampoline"
  Callers <- MCCallers
  Contexts <- MCContexts
  EntryPoint <- MCEntryPoint
  Zero <- MCZero
SYMMETRY ThreadSymmetry
SPECIFICATION CallSpec
INVARIANTS
  TypeOK
  RunsInFirstFreeFrame
PROPERTY CallsNest
