SPECIFICATION AllSpec
CONSTANTS
  OrdinaryKeys = {a, b}
  MergeKey = m
  Keys = {a, b, m}
  InlineLimit = 1
  MaxKeys = 4
  MaxMergeDepth = 2
  MaxMappings = 4
  MaxGraph = 3
  MaxEntries = 4
SYMMETRY Symmetry
INVARIANTS
  MergePrecedence
  RefusedExactly
  PathsAgree
  ViewMatchesLoad
PROPERTY RemembersFirst
CHECK_DEADLOCK FALSE
