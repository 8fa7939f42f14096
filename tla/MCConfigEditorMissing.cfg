SPECIFICATION Spec
CONSTANTS
  a = a
  b = b
  c = c
  x = x
  y = y
  None = None
  FlowMap = FlowMap
  FlowSeq = FlowSeq
  Sources <- OneSingle
  Fragments <- AllFragments
  NewKeys = {b, c}
  MaxEdits = 2
PROPERTY MissingIsRefused
CHECK_DEADLOCK FALSE
