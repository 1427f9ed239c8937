SPECIFICATION AnalyzedFamilySpec
CONSTANTS
  Text <- LongFenceTexts
  Families <- LongFenceFamily
  EmptyText = ""
  Is <- MCIs
  Grows <- MCGrows
  Width <- MCWidth
  Inner <- Payload
  Enter <- MCEnter
  Scan <- MCScan
  Shut <- MCShut
  Plugins <- MCPlugins
  VoidTags = {"br"}
  SingleBlock = FALSE
  MaxBufferBytes = {}
  ResetAfterFinalize = TRUE
  MaxLines = 4
  MaxChunkLines = 3
  MaxQueue = 1
  Label = {"r"}
  Uses <- MCUses
  Defines <- MCDefines
  Invalidates = TRUE
  Found <- MCFound
INVARIANTS
  DisplayCloses
