SPECIFICATION Spec

CONSTANTS
  Instance = "all"
  Documents <- ChosenDocuments
  Targets <- ChosenTargets

INVARIANTS
  CopiesAgree
  NodesAndValuesAgree
  TagsTransparent
  ErrorPathResolves
  EventsAgree
