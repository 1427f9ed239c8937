SPECIFICATION FamilySpec
CONSTANTS
  Text <- FootnoteTexts
  Families <- FootnoteFamily
  EmptyText = ""
  Is <- MCIs
  Grows <- MCGrows
  Width <- MCWidth
  Inner <- Payload
  Enter <- MCEnter
  Scan <- MCScan
  Shut <- MCShut
  Plugins <- MCPlugins
  VoidTags = {"br"}
  SingleBlock = TRUE
  MaxBufferBytes = {3}
  ResetAfterFinalize = TRUE
  MaxLines = 4
  MaxChunkLines = 3
INVARIANTS
  NothingLost
