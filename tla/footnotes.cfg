SPECIFICATION FamilySpec
CONSTANTS
  Text <- FootnoteTexts
  Families <- FootnoteFamily
  EmptyText = ""
  Is <- MCIs
  Grows <- MCGrows
  Width <- MCWidth
  Inner <- Payload
  Enter <- MCEnter
  Scan <- MCScan
  Shut <- MCShut
  Plugins <- MCPlugins
  VoidTags = {"br"}
  SingleBlock = TRUE
  MaxBufferBytes = {}
  ResetAfterFinalize = FALSE
  MaxLines = 3
  MaxChunkLines = 3
PROPERTIES
  CommittedStable
CHECK_DEADLOCK FALSE
