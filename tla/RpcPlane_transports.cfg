SPECIFICATION FairSpec
CONSTANTS
    Calls = {"a", "b"}
    Undated = {"b"}
    QueueLimit = 1
    MaxStops = 1
    None = None
    STOP = STOP
INVARIANT CallsAccounted
PROPERTIES ContractKept WaitingCallServed
CHECK_DEADLOCK FALSE
