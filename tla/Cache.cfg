SPECIFICATION BoundedSpec
CONSTANTS
  p1 = p1  p2 = p2  ubo = ubo  v1 = v1  v2 = v2
  Procs <- OneProc
  Versions <- OneVersion
  Finds <- Finding
  Addons <- OneAddon
  Others = {}
  None = None
INVARIANTS FetchedIsReady ReusedIsWhole ActiveIsWhole
PROPERTIES InstallNeverStuck InstallsAtOnce
CHECK_DEADLOCK FALSE
