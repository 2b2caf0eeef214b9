SPECIFICATION RedirectsSpec
CONSTANTS
  n1 = n1
  n2 = n2
  n3 = n3
  Name <- ThreeNames
  SourceInput <- UpperThree
  TargetInput <- UpperThree
  Writer = {w1, w2}
  Id = {i1, i2, i3}
  Status = {"active", "inactive"}
  Type = {"301"}
  Tags = {None, bad}
  BadTags = {bad}
  None = None
  Capacity = 1
  Faults = {"check", "write"}
ACTION_CONSTRAINT WithinTwoOrThree
SYMMETRY Symmetry
INVARIANTS
  TypeOK
  NoLoopUnlessUnchecked
  LiveSourcesDistinct
  AuditTellsStore
