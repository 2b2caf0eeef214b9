SPECIFICATION Spec
CONSTANTS
  Hit = {h1, h2}
  Redirect = {r1}
  IP = {ip1, ip2}
  Worker = {w1, w2}
  Periods <- DailyOnly
  Calendars <- Changed
  HitBuffer = 1
  AggBuffer = 1
  StartTime = 1
  MaxTime = 2
  Faulty = TRUE
  Crashing = TRUE
  None = None
INVARIANTS
  StatsTypeOK
  HitInOnePlace
  AggregateBounded
  UniqueWithinCount
  StoppedBeforeDisconnect
PROPERTY NoHitForgotten
SYMMETRY Symmetry
