SPECIFICATION Spec
CONSTANTS
  Folders <- MCFolders
  Tasks = {"none", "pick"}
  NoTask = "none"
  AllTasks = AllTasks
  Texts <- MCTexts
  Disks <- MCDisks
  MaxCalls = 1
  NoData = NoData
INVARIANT NoUninvitedDialog
INVARIANT PagerReturns
PROPERTY HiddenOnlyByNews
PROPERTY AnswersNeverSelect
CHECK_DEADLOCK FALSE
