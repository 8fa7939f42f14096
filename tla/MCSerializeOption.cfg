SPECIFICATION Spec

CONSTANTS
  Instance = "optional"
  Data <- ChosenData
  Streamed <- ChosenStreamed
  MaxWrites = 3

INVARIANT OptionalEnumsRoundTrip
