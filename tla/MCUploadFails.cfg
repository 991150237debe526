SPECIFICATION Spec
CONSTANTS
  Types = {"upload"}
  Folders = {f1}
  Recs = {r1}
  WithMcap = {r1}
  WithStart = {}
  WithFrames = {}
  Faults = {}
  None = None
INVARIANT UploadFailureShown
CHECK_DEADLOCK FALSE
