SPECIFICATION Spec
CONSTANTS
  a = a
  b = b
  c = c
  x = x
  y = y
  None = None
  FlowMap = FlowMap
  FlowSeq = FlowSeq
  Sources <- AllSources
  Fragments <- AllFragments
  NewKeys = {b, c}
  MaxEdits = 2
INVARIANTS
  SourceParses
PROPERTIES
  PlainEditsExact
  CommentsKept
CHECK_DEADLOCK FALSE
