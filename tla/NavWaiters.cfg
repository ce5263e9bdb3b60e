SPECIFICATION RealSpec
SYMMETRY Symmetry
CONSTANTS
  g1 = g1
  g2 = g2
  h1 = h1
  real = real
  blank = blank
  Gotos <- TwoGotos
  Histories <- Nobody
  Urls <- BothUrls
  Blank = blank
  MaxNavs = 2
  PipeCap = 2
  SubFrames = FALSE
  None = None
  Failed = Failed
INVARIANTS
  TypeOK
  ListedIsWaiting
  ReleasedByCommit
  RealLoadReleases
CHECK_DEADLOCK FALSE
