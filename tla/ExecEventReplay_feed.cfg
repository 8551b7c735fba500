SPECIFICATION FairSpec
CONSTANTS
  MaxEpoch = 2
  MaxSequence = 4
  MaxLen = 2
  QueueLimit = 2
  MaxFaults = 1
PROPERTIES NothingPassedOver CatchesUp
CHECK_DEADLOCK FALSE
