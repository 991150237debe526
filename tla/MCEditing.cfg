SPECIFICATION Spec
CONSTANTS
  Folders = {f1, f2}
  NoFolder = NoFolder
  Tags = {a}
  NoTag = NoTag
  MaxCalls = 1
  MaxNews = 1
  NoData = NoData
SYMMETRY MCSymmetry
INVARIANT RequestIsChoice
INVARIANT SavedAsShown
INVARIANT MissingWasRemoved
CHECK_DEADLOCK FALSE
