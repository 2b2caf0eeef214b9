SPECIFICATION GuardedSpec
CONSTANTS
  Key = {k1, k2, k3, k4}
  Capacity = 3
  Entry = {e1, e2}
  NoEntry = NoEntry
  Head = Head
  Tail = Tail
  Request = {1, 2, 3, 4, 5, 6}
  IP = {ip1, ip2}
  Limit = 2
  Window = 3
  CleanupInterval = 2
  MaxTime = 6
  None = None
INVARIANTS
  TypeOK
  LinksFollowRecency
  SizeBounded
  KeepsRecent
  RateTypeOK
  TwiceTheLimit
  RefusedOnlyWhenFull
PROPERTY Refinement
SYMMETRY Symmetry
