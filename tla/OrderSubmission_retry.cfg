SPECIFICATION MCFairSpec
CONSTANTS
  Calls = {1, 2}
  Ids = {1, 2}
  Deals = {x}
  Volumes = {1}
  Prices = {0, 5, 6}
  PriceTypes = {limit}
  Names = {s}
  NoCall = NoCall
  MaxRestarts = 1
  UnjournaledLag = FALSE
INVARIANTS AtMostOneOrder SubmittedWasIssued
PROPERTIES AbandonedNeverRuns EveryCallAnswered
CHECK_DEADLOCK FALSE
