SPECIFICATION FairSpec
CONSTANTS
  c1 = c1
  c2 = c2
  s1 = s1
  s2 = s2
  Consumers <- MCConsumers
  Signals <- MCSignals
  NumEntries = 2
  SignalOf <- MCSignalOfOnce
  Intent <- MCIntent
  Poison = {}
  FetchLimit = 2
  MaxFaults = 1
  EntriesOutliveStatus = FALSE
PROPERTY EntriesSettle
CHECK_DEADLOCK FALSE
