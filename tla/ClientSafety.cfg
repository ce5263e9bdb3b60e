SPECIFICATION Spec
CONSTANTS
  c1 = c1  c2 = c2  h1 = h1  s1 = s1
  Calls <- TwoCalls  Inline <- None  NoDeadline <- None  Sends <- JustS1
  PipeCap = 1  MaxEvents = 1
  Nobody = Nobody  NoMsg = NoMsg
SYMMETRY Symmetry
INVARIANTS TypeOK OwnReply WaitingIsAnswerable NoLeakWhileOpen EventsBeforeReply
PROPERTIES KeepsPromise
CHECK_DEADLOCK FALSE
