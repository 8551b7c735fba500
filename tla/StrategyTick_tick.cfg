SPECIFICATION TickSpec
CONSTANTS
  MaxJobs = 2
  Total = 2
  Step = 1
  MaxFaults = 1
  Demands = {sh, list}
  Markets = {sh}
  MaxRequests = 2
INVARIANT PumpAccounts
PROPERTIES MarketServed JobsEnd
