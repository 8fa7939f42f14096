SPECIFICATION Spec
CONSTANTS
  Sources <- MCSources
  Fragments <- MCFragments
  Entries <- MCEntries
  NewWords <- MCNewWords
  Depth = 2
  MaxCalls = 2
CHECK_DEADLOCK FALSE
INVARIANTS
  FlowEditsExact
