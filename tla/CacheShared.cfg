SPECIFICATION PlainSpec
CONSTANTS
  p1 = p1  p2 = p2  ubo = ubo  v1 = v1  v2 = v2
  Procs <- TwoProcs
  Versions <- OneVersion
  Finds <- Finding
  Addons <- OneAddon
  Others = {}
  None = None
INVARIANT FetchedIsWhole
CHECK_DEADLOCK FALSE
