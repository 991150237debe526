SPECIFICATION Spec
CONSTANTS
  a = a
  b = b
  c = c
  t1 = t1
  t2 = t2
  Folders = {a, b, c}
  Topics = {t1, t2}
  Dur <- MCDur
  Losses <- MCLosses
  NoFolder = NoFolder
  NoTopic = NoTopic
  NoKey = NoKey
  NoData = NoData
  Limit = 3
  MinView = 2
  MinRange = 2
  Slack = 1
  Jump = 2
  Buffer = 1
  Grid = 2
INVARIANT ViewInside
INVARIANT RugIsCurrent
PROPERTY PlaybackEnds
