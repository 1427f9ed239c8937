SPECIFICATION FamilySpec
CONSTANTS
  Text <- AllTexts
  Families <- AllFamilies
  EmptyText = ""
  Is <- MCIs
  Grows <- MCGrows
  Width <- MCWidth
  Inner <- Payload
  Enter <- MCEnter
  Scan <- MCScan
  Shut <- MCShut
  Plugins <- MCPlugins
  VoidTags = {"br"}
  SingleBlock = TRUE
  MaxBufferBytes = {}
  ResetAfterFinalize = TRUE
  MaxLines = 4
  MaxChunkLines = 3
INVARIANTS
  NothingLost
  ChunkingInvariance
  ModeOfFirstLine
  EndsWhereItCloses
  IdsIncrease
