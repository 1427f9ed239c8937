SPECIFICATION FamilySpec
CONSTANTS
  Text <- CompactedTexts
  Families <- CompactedFamilies
  EmptyText = ""
  Is <- MCIs
  Grows <- MCGrows
  Width <- MCWidth
  Inner <- Payload
  Enter <- MCEnter
  Scan <- MCScan
  Shut <- MCShut
  Plugins <- MCPlugins
  VoidTags = {"br"}
  SingleBlock = FALSE
  MaxBufferBytes = {3}
  ResetAfterFinalize = TRUE
  MaxLines = 5
  MaxChunkLines = 3
INVARIANTS
  CommittedText
  BufferIsRest
  CursorInRange
  ChunkingInvariance
  IInv
  HtmlEndsBalanced
  PluginEndsAtMarker
