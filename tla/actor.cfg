SPECIFICATION ActorSpec
CONSTANTS
  Policies = {"Block", "CoalesceLocal"}
  Capacity = 1
  LocalMax = 2
  MaxBytes = 2
  MaxDelay = 2
  Gates = {TRUE}
  Cancels = FALSE
  FlushesFirst = TRUE
  MaxDeltas = 4
  MaxChanges = 0
  OutCapacity = 1
INVARIANTS
  ActorTypeOK
  MergedCounted
  FinalMeansAll
PROPERTIES
  InOrderUpdates
  FinalUpdateArrives
  ProducerIsReleased
CHECK_DEADLOCK FALSE
