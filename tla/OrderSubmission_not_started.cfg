SPECIFICATION Spec
CONSTANTS
  Calls = {c1}
  Ids = {s1}
  Deals = {x}
  Volumes = {1}
  Prices = {5}
  PriceTypes = {limit}
  Names = {s}
  NoCall = NoCall
  MaxRestarts = 0
  UnjournaledLag = FALSE
INVARIANT NotStartedIsTrue
CHECK_DEADLOCK FALSE
