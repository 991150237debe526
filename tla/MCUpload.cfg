SPECIFICATION Spec
CONSTANTS
  Types = {"media", "upload"}
  Folders = {f1, f2}
  Recs = {r1, r2}
  WithMcap = {r2}
  WithStart = {r1}
  WithFrames = {r2}
  Faults = {"io", "crash", "delete", "rename"}
  None = None
INVARIANT CompletedMeansDone
INVARIANT UploadedIsStored
PROPERTY UploadsSettle
PROPERTY VideosSettle
SYMMETRY Symmetry
CONSTRAINT TwoJobs
CHECK_DEADLOCK FALSE
