SPECIFICATION FairSpec
CONSTANTS
  Addrs = {a1, a2, a3}
  NoAddr = NoAddr
  MaxReports = 2
  MaxFaults = 2
INVARIANT RecoveryUnderway
PROPERTIES RuntimeOwned Recovers CloseReleases
CHECK_DEADLOCK FALSE
