CONSTANTS
  MaxWidth = 3
  MaxHeight = 3
  MaxSeg = 2
  Values = {0, 1, 2}
  Noise = 2
  WritesFail = TRUE
  Modes <- SameArea
  AllocFails = TRUE
  DrawStale = FALSE
SPECIFICATION DrawSpec
INVARIANTS DrawTypeOK CopyExact ShadowAgrees DrawnShown
