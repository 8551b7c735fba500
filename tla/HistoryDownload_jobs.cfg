SPECIFICATION FairSpec
CONSTANTS
  j1 = j1
  j2 = j2
  a = a
  b = b
  Jobs <- MCJobs
  Stocks <- MCStocks
  Requests <- MCRequests
  NoJob = NoJob
  NoStock = NoStock
  BatchSize = 2
  MaxAttempts <- MCAttempts
  MaxCrashes = 1
INVARIANTS UnknownNotReplayed CancelStopsCalls ResultsAreEarned
PROPERTIES EveryJobEnds
CHECK_DEADLOCK FALSE
