SPECIFICATION Spec
CONSTANTS
  Topics = {t1, t2}
  Importable = {t1}
  Headed = {t1}
  Fixed = {}
  Defaults = {t1}
  StampQuality = TRUE
  Gap = 2
  HzWindow = 1
  LossWindow = 2
  Warmup = 1
  MinSpan = 2
INVARIANT PauseIsForgotten
PROPERTY StallSurfaces
