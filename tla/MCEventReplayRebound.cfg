SPECIFICATION Spec
CONSTANTS
  Streams <- Documents
  MergeKey = "<<"
  Budget = 12
  MaxDepth = 3
  MaxWalk = 40
  Tuples = FALSE
  Rebinding = TRUE
INVARIANT DeliveredIsExpansion
