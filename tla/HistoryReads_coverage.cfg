SPECIFICATION Spec
CONSTANTS
  Callers = {c1, c2}
  Windows = {w1, w2}
  Keys = {w1, w2}
  SplitKeys = {w1}
  MaxAsks = 2
  MaxReads = 2
  MaxFaults = 2
  Days = {1, 2, 3, 4}
  Holidays = {2}
  Clocks <- MCClocks
  Codes = {s1}
  Periods = {"5m"}
  Counts <- MCCounts
  Shapes <- MCShapes
  MaxAnswers = 2
CHECK_DEADLOCK FALSE
INVARIANT CoverageIsTrue
