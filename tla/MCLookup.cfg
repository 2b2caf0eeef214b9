SPECIFICATION Spec
CONSTANTS
  n1 = n1
  n2 = n2
  n3 = n3
  Name <- ThreeNames
  SourceInput <- PlainTwo
  TargetInput <- PlainThird
  Host <- PlainTwo
  Writer = {w1}
  Reader = {r1}
  Id = {i1}
  Status = {"active"}
  Type = {"301"}
  Tags = {None, t1}
  BadTags = {}
  None = None
  Capacity = 1
  Faults = {"query", "write"}
  TTL = 1
  Delay = 1
  WarmLimit = 1
INVARIANTS
  LookupTypeOK
  BoundedStaleness
  CoherentUnlessRaced
SYMMETRY Symmetry
