SPECIFICATION WalkSpec
CONSTANTS
  n1 = n1
  n2 = n2
  n3 = n3
  Name <- ThreeNames
  SourceInput <- PlainThree
  TargetInput <- PlainTwo
  Writer = {w1, w2}
  Id = {i1, i2}
  Status = {"active"}
  Type = {"301"}
  Tags = {None}
  BadTags = {}
  None = None
  Capacity = 1
  Faults = {}
VIEW WithoutAuxiliary
PROPERTY Answered
