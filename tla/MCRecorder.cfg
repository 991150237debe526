SPECIFICATION RecorderSpec
CONSTANTS
  Procs = {p1, p2}
  NoProc = NoProc
  NoPty = NoPty
INVARIANT HoldsExact
INVARIANT AnalysisAfterExit
INVARIANT EndsReported
INVARIANT CleanExit
PROPERTY HandlersReturn
PROPERTY CrashSurfaces
CHECK_DEADLOCK FALSE
