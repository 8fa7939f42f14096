SPECIFICATION Spec
CONSTANTS
  Names = {a, b}
  NoName = NoName
  Budget = 3
  MaxDepth = 2
  Extra = 1
  MaxTokens = 8
SYMMETRY Symmetry
INVARIANTS
  TypeOK
  LastDeclarationWins
  InProgressExactlyWhileOpen
  AliasKeepsTag
  ExpansionWithinBudget
  WithinDepth
  MetaBelongsToNode
CHECK_DEADLOCK FALSE
