CONSTANTS
  x1 = x1  x2 = x2  r1 = r1  r2 = r2  a1 = a1  a2 = a2  a3 = a3  d1 = d1
  Routers = {x1, x2}
  Requests = {r1, r2}
  Adders = {a1, a2, a3}
  Dialogs = {d1}
  Matches <- MCMatches
  Handlers <- MCHandlers
  Plays <- MCPlays
  None = None
SPECIFICATION Spec
INVARIANTS
  TypeOK
  RouteDecides
  ScriptsSettle
PROPERTY NothingIsLeftWaiting
CHECK_DEADLOCK FALSE
