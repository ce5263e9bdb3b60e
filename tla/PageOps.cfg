CONSTANTS
  Ops = {o1, o2}
  MaxDocs = 2
  MaxShifts = 1
  Plans <- MCPlans
  Framed <- MCFramed
  Calm <- Together
  None = None
SPECIFICATION Spec
INVARIANTS
  TypeOK
  KnowsTheDocument
  UndisturbedSucceeds
CHECK_DEADLOCK FALSE
PROPERTY OpReturns
