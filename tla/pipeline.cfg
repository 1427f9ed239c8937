SPECIFICATION PipelineSpec
CONSTANTS
  Policies = {"Block", "DropNew", "CoalesceLocal"}
  Capacity = 1
  LocalMax = 2
  MaxBytes = 3
  MaxDelay = 2
  Gates = {TRUE, FALSE}
  Cancels = TRUE
  FlushesFirst = TRUE
  MaxDeltas = 3
  MaxChanges = 1
INVARIANTS
  PipelineTypeOK
  AllInPlace
  FlushedInTime
  EndsComplete
PROPERTIES
  InOrderDelivery
  ProducerGoneIsSeen
  SendReturns
CHECK_DEADLOCK FALSE
