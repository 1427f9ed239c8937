SPECIFICATION AlphabetSpec
CONSTANTS
  Char <- MCChar
  Bytes <- MCBytes
  Alphabets <- MCAlphabets
  Markers <- MCMarkers
  MaxTail = 4
  MaxIdLen = 2
  SingleBlock = TRUE
  MaxBufferBytes = {3}
  EmptyChunks = FALSE
  MaxInput = 7
  MaxChunk = 3
  WordChar <- MCWordChar
  WindowBytes = 6
  Repairs <- AllRepairs
INVARIANTS
  ScanInv
  TextIsNormal
  FootnoteSeen
  FinalizeSkipsNothing
  TextIsKept
  NothingLeftOpen
