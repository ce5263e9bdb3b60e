SPECIFICATION Spec
CONSTANTS
  g1 = g1
  g2 = g2
  h1 = h1
  real = real
  blank = blank
  Gotos <- OneGoto
  Histories <- Nobody
  Urls <- BothUrls
  Blank = blank
  MaxNavs = 2
  PipeCap = 3
  SubFrames = FALSE
  None = None
  Failed = Failed
INVARIANT LoadReleases
CHECK_DEADLOCK FALSE
