SPECIFICATION Spec
CONSTANTS
  Types = {"quality", "validation"}
  Folders = {f1, f2}
  Recs = {r1, r2}
  WithMcap = {r1, r2}
  WithStart = {r1, r2}
  WithFrames = {}
  Faults = {"io", "crash", "delete", "rename"}
  None = None
INVARIANT ArtifactsMatch
INVARIANT CompletedMeansDone
INVARIANT ValidationFollowsReport
PROPERTY ReportsSettle
PROPERTY AnalysisEnds
CHECK_DEADLOCK FALSE
