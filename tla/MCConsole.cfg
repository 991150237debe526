SPECIFICATION Spec
CONSTANTS
  Topics = {t1}
  Defaults = {t1}
  Delays = {0, 2}
  MaxRecs = 2
  MaxCalls = 2
  NoData = NoData
INVARIANT OneCommand
INVARIANT TimerExact
INVARIANT MonitorFollows
INVARIANT BannerIsTrue
CHECK_DEADLOCK FALSE
