SPECIFICATION FairSpec
CONSTANTS
  MaxLines = 4
  Schema = "YamlVersionDirective"
INVARIANTS
  DocumentsApart
  NothingDropped
  WindowExact
PROPERTIES
  EventsFollowProtocol
  Terminates
