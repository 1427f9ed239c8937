SPECIFICATION FamilySpec
CONSTANTS
  Text <- TableTexts
  Families <- TableFamily
  EmptyText = ""
  Is <- MCIs
  Grows <- MCGrows
  Width <- MCWidth
  Inner <- Payload
  Enter <- MCEnter
  Scan <- MCScan
  Shut <- MCShut
  Plugins <- MCPlugins
  VoidTags = {"br"}
  SingleBlock = FALSE
  MaxBufferBytes = {}
  ResetAfterFinalize = TRUE
  MaxLines = 4
  MaxChunkLines = 3
INVARIANTS
  TableStartsAtHeader
