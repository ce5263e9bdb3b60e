SPECIFICATION Spec
CONSTANTS
  g1 = g1
  g2 = g2
  h1 = h1
  real = real
  blank = blank
  Gotos <- OneGoto
  Histories <- OneHistory
  Urls <- BothUrls
  Blank = blank
  MaxNavs = 2
  PipeCap = 2
  SubFrames = TRUE
  None = None
  Failed = Failed
INVARIANT PageSettles
CHECK_DEADLOCK FALSE
