SPECIFICATION Spec
CONSTANTS
  c1 = c1
  c2 = c2
  s1 = s1
  s2 = s2
  Consumers <- MCConsumers
  Signals <- MCSignals
  NumEntries = 4
  SignalOf <- MCSignalOf
  Intent <- MCIntent
  Poison = {4}
  FetchLimit = 2
  MaxFaults = 1
  EntriesOutliveStatus = FALSE
SYMMETRY MCSymmetry
INVARIANTS AtMostOneOrder StatusAccounts
PROPERTY AckOnlyDecided
CHECK_DEADLOCK FALSE
