SPECIFICATION Spec
CONSTANTS
  DepthLimit = 16
  NestingLimit = 16
  Rank <- WordRank
  Trees <- SortTrees
  Options <- SortOption
INVARIANT
  KeysSorted
