SPECIFICATION Spec

CONSTANTS
  Instance = "placed"
  Documents <- ChosenDocuments
  Targets <- ChosenTargets

INVARIANTS
  BorrowedNodesMatchValues

