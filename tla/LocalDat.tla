------------------------------ MODULE LocalDat ------------------------------
(***************************************************************************)
(* qmt_local_dat.py: reading bars from the terminal's DAT files.           *)
(*                                                                         *)
(* A trading day has seven clock values: 0 before the session, 1 its open, *)
(* 2 the last minute of the morning, 3 the lunch break, 4 the first minute *)
(* of the afternoon, 5 the close, 6 after it.  A bar is ten times its day  *)
(* plus its clock, a daily bar ten times its day.  A time of a request is  *)
(* a day with a clock, or a whole day.  A minute file is its records in    *)
(* time order and those among them whose prices make no sense.             *)
(***************************************************************************)
EXTENDS Naturals, FiniteSets

Session == {1, 2, 4, 5}
WholeDay == 9
DayOf(bar) == bar \div 10
ClockOf(bar) == bar % 10

\* _request_bound and the two binary searches: the records of the window.
InWindow(bars, start, end) ==
  {b \in bars : /\ b >= 10 * start.day + (IF start.clock = WholeDay THEN 0 ELSE start.clock)
                /\ b <= 10 * end.day + end.clock}

\* The last n of a set of bars; all of them when n is not positive.
LastOf(bars, n) ==
  IF n <= 0 THEN bars ELSE {b \in bars : Cardinality({c \in bars : c > b}) < n}

\* A day counts when its records are exactly the session's, each with sensible
\* prices; a reader of the closed minutes of today takes any session record.
Usable(block, bad, completeDays) ==
  LET good == block \ bad
      day(b) == {ClockOf(c) : c \in {g \in good : DayOf(g) = DayOf(b)}}
  IN {b \in good : IF completeDays THEN day(b) = Session ELSE ClockOf(b) \in Session}

\* _read_stock: with a count, only the last records are read, twice as many
\* again while the block has too few usable bars.
FirstWindow(count, completeDays) ==
  IF completeDays THEN 2 * (IF count > Cardinality(Session) THEN count ELSE Cardinality(Session))
  ELSE count

ReadTail(range, bad, count, completeDays) ==
  LET rows(window) == Usable(LastOf(range, window), bad, completeDays)
      tail[window \in Nat] ==
        IF Cardinality(rows(window)) < count /\ LastOf(range, window) # range
        THEN tail[2 * window]
        ELSE LastOf(rows(window), count)
  IN tail[FirstWindow(count, completeDays)]

ReadMinutes(file, start, end, count, completeDays) ==
  LET range == InWindow(file.records, start, end)
  IN IF count > 0 THEN ReadTail(range, file.bad, count, completeDays)
     ELSE Usable(range, file.bad, completeDays)

\* _read_daily_stock: a record per day, those without sensible prices skipped.
ReadDaily(file, start, end, count) ==
  LastOf(InWindow(file.records \ file.bad, start, end), count)

=============================================================================
