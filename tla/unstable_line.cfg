SPECIFICATION FamilySpec
CONSTANTS
  Text <- UnstableTexts
  Families <- UnstableFamily
  EmptyText = ""
  Is <- MCIs
  Grows <- MCGrows
  Width <- MCWidth
  Inner <- Payload
  Enter <- MCEnter
  Scan <- MCScan
  Shut <- MCShut
  Plugins <- MCPlugins
  VoidTags = {"br"}
  SingleBlock = FALSE
  MaxBufferBytes = {}
  ResetAfterFinalize = TRUE
  MaxLines = 3
  MaxChunkLines = 3
INVARIANTS
  ChunkingInvariance
