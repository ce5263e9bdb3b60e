SPECIFICATION FairSpec
CONSTANTS
  c1 = c1  c2 = c2  h1 = h1  s1 = s1
  Calls <- CallsAndInline  Inline <- JustH1  NoDeadline <- CallsAndInline  Sends <- None
  PipeCap = 1  MaxEvents = 1
  Nobody = Nobody  NoMsg = NoMsg
INVARIANTS InlineNeverAnswered
PROPERTIES WaitEnds  CloseReleases KeepsFullPromise
CHECK_DEADLOCK FALSE
