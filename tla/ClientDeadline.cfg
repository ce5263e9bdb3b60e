SPECIFICATION TimedSpec
CONSTANTS
  c1 = c1  c2 = c2  h1 = h1  s1 = s1
  Calls <- TwoCalls  Inline <- None  NoDeadline <- JustC1  Sends <- None
  PipeCap = 1  MaxEvents = 0
  Nobody = Nobody  NoMsg = NoMsg
PROPERTIES DeadlineBoundsCall
CHECK_DEADLOCK FALSE
