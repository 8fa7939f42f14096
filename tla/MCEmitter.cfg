SPECIFICATION Spec
CONSTANTS
  DepthLimit = 16
  NestingLimit = 16
  Rank <- WordRank
  Trees <- ChosenTrees
  Options <- ChosenOptions
INVARIANTS
  EmittedReadsBack
  RefusedUnreadable
