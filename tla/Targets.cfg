SPECIFICATION FairSpec
CONSTANTS
  o1 = o1
  t1 = t1
  t2 = t2
  Openers <- OneOpener
  OwnDeadline <- Nobody
  Targets <- TwoTargets
  PipeCap = 2
  None = None
  Failed = Failed
INVARIANTS
  TypeOK
  HandedOutIsUsable
  AttachWakesWaiter
  OwnPage
  NoWaiterLeak
  PagesSettle
PROPERTY NewPageReturns
CHECK_DEADLOCK FALSE
