SPECIFICATION Spec
CONSTANTS
  Panels <- MCPanels
  Sessions <- MCSessions
  Unable <- MCUnable
  NoFolder = NoFolder
  MaxCalls = 1
  MaxNews = 1
  NoData = NoData
INVARIANT ReadyIsReal
 
PROPERTY DoneIsShown
CHECK_DEADLOCK FALSE
