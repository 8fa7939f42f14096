SPECIFICATION Spec
CONSTANTS
  DepthLimit = 6
  NestingLimit = 6
  Rank <- WordRank
  Trees <- DeepTrees
  Options <- OneOption
INVARIANT
  DeepReadsBack
