SPECIFICATION Spec
CONSTANTS
  Hit = {h1}
  Redirect = {r1}
  IP = {ip1}
  Worker = {w1}
  Periods <- DailyOnly
  Calendars <- Regular
  HitBuffer = 1
  AggBuffer = 1
  StartTime = 0
  MaxTime = 0
  Faulty = FALSE
  Crashing = FALSE
  None = None
INVARIANT Drained
