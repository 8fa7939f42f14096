SPECIFICATION Spec
CONSTANTS
  a = a
  b = b
  c = c
  x = x
  y = y
  None = None
  FlowMap = FlowMap
  FlowSeq = FlowSeq
  Sources <- OneIndentless
  Fragments <- AllFragments
  NewKeys = {b, c}
  MaxEdits = 2
PROPERTY EditsExact
CHECK_DEADLOCK FALSE
