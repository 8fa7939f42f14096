SPECIFICATION Spec

CONSTANTS
  Instance = "all"
  Data <- ChosenData
  Streamed <- ChosenStreamed
  MaxWrites = 3

INVARIANTS
  RoundTrips
  RepresentationUniform
  SerializersAgree
  MappingAsCalled
  WrittenDocumentsApart
