SPECIFICATION AnalyzedFamilySpec
CONSTANTS
  Text <- UpdateTexts
  Families <- UpdateFamily
  EmptyText = ""
  Is <- MCIs
  Grows <- MCGrows
  Width <- MCWidth
  Inner <- Payload
  Enter <- MCEnter
  Scan <- MCScan
  Shut <- MCShut
  Plugins <- MCPlugins
  VoidTags = {"br"}
  SingleBlock = TRUE
  MaxBufferBytes = {}
  ResetAfterFinalize = TRUE
  MaxLines = 4
  MaxChunkLines = 3
  MaxQueue = 2
  Label = {"r"}
  Uses <- MCUses
  Defines <- MCDefines
  Invalidates = TRUE
  Found <- MCFound
INVARIANTS
  SyncTypeOK
  UpdatesSuffice
  CacheKeysDistinct
  ParsedIsFresh
  FlaggedIsKnown
  DisplayIsFresh
  MetaOfCommitted
  HintsRight
