SPECIFICATION Spec
CONSTANTS
  Types = {quality, upload}
  Folders = {f1}
  Waiters = {w1}
  MaxHistory = 2
  MaxRuns = 4
  NoJob = NoJob
INVARIANT NoDuplicateWork
INVARIANT StoresExact
INVARIANT NoLostWakeup
PROPERTY NoOvertaking
PROPERTY WaitersReturn
PROPERTY ImplementsLine
CHECK_DEADLOCK FALSE
