SPECIFICATION Spec
CONSTANTS
  Streams <- Documents
  MergeKey = "<<"
  Budget = 12
  MaxDepth = 3
  MaxWalk = 40
  Tuples = TRUE
  Rebinding = FALSE
INVARIANTS DeliveredIsExpansion AcceptsExactly ReplayWithinBudget
PROPERTY WorkRunsOut
