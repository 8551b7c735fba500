SPECIFICATION Spec
CONSTANTS
  Listeners = {l1}
  MaxEvents = 6
  DequeCap = 2
  ListenerCap = 2
  NotifyCap = 1
  Clients = {c1, c2}
  Codes = {1, 2}
  MaxGroups = 3
  MaxRuns = 3
  Ids = {1, 2}
  Budget = 2
  Downloads = {d1, d2, d3}
  Probers = {p1, p2}
  MaxSwitches = 1
  Cancels = {k1, k2}
  MaxQueue = 1
  Windows = {w1, w2}
  Readers = {r1, r2}
  MaxProbes = 4
  QueueSize = 2
  MaxEmits = 6
  Requests = {q1, q2}
  Symbols = {s1, s2, s3}
  Quota = 2
  MaxInstalls = 3
  MaxSeconds = 3
  Batches = {b1, b2}
  Tags = {t1}
  Deals = {x}
  Volumes = {1}
  Prices = {0, 5, 6}
  PriceTypes = {limit}
  Names = {s}
  MaxItems = 2
  MaxLives = 1
  MaxRaises = 1
  Reads = {m1}
  MaxRuntimes = 2
INVARIANTS EventsAccounted StreamsMatchClients OneDownload  CancelAnswersTrue
           ReportIsOfWindow TelemetryAccounts NothingLeftOpen ActionIsSide InstallRestorable
           BatchIsSafe ClosedIsQuiet
SYMMETRY Symmetry
CHECK_DEADLOCK FALSE
