---------------------------- MODULE HistorySource ----------------------------
(***************************************************************************)
(* routers/market.py: where the answer to a history request comes from.    *)
(* get_history_ex reads a closed window of unadjusted bars from the DAT    *)
(* files and asks over RPC for the codes these do not cover; otherwise the *)
(* binary cache, or RPC alone, answers.  get_minute_tail reads the closed  *)
(* minutes of a day from DAT and asks over RPC for the codes that lack the *)
(* last one.  The answer says of every code whether it covers the window,  *)
(* where it came from and in which unit its volume is.                     *)
(***************************************************************************)
EXTENDS LocalDat, Integers, FiniteSetsExt

CONSTANTS Days,       \* the days of the calendar, numbers from 1
          Holidays,   \* those on which the exchange is closed
          Clocks,     \* clocks of the times asked for, WholeDay among them
          Codes,      \* codes of a request
          Periods,    \* periods asked for
          Counts,     \* counts asked for; -1 is no limit
          Shapes,     \* what a file may hold of a day: [has, bad]
          MaxAnswers  \* answers a behaviour may give

ASSUME CalendarAssumption ==
  /\ Days \subseteq Nat \ {0} /\ Holidays \subseteq Days
  /\ Clocks \subseteq 0..6 \cup {WholeDay} /\ Counts \subseteq Int
  /\ MaxAnswers \in Nat

VARIABLES
  ask,      \* the request: [route, period, start, end, count, cached, dat]
  stage,    \* "idle", "dat", "cache", "rpc", or "answered"
  frame,    \* of each code: [from, bars], from "none", "dat" or "rpc"
  missing,  \* codes to be asked for over RPC
  kept,     \* the binary cache's answer to this request: [there, frame]
  expected, \* the bars of each code's DAT file in the window, read in one go:
            \* those usable, and those of days sound from their open on
  answers   \* answers given

sourceVars == <<ask, stage, frame, missing, kept, expected, answers>>

Times == [day : Days, clock : Clocks]
AtTime(t) == 10 * t.day + t.clock
NoFrames == [c \in Codes |-> [from |-> "none", bars |-> {}]]

-----------------------------------------------------------------------------
(* Coverage.                                                               *)

\* _minute_session_boundary: the minute of the session a time stands for, or
\* none when its day has no such minute.
NoBar == 0

EndBoundary(t) ==
  IF t.clock = 0 THEN NoBar
  ELSE 10 * t.day + (IF t.clock = 3 THEN 2 ELSE IF t.clock > 5 THEN 5 ELSE t.clock)

\* Mutant: a start before the open stands for the end of the morning.
StartBoundaryEarly(t) ==
  IF t.clock = 6 THEN NoBar
  ELSE 10 * t.day + (IF t.clock = 3 THEN 4 ELSE IF t.clock \in {0, WholeDay} THEN 2 ELSE t.clock)

StartBoundary(t) ==
  IF t.clock = 6 THEN NoBar
  ELSE 10 * t.day + (IF t.clock = 3 THEN 4 ELSE IF t.clock \in {0, WholeDay} THEN 1 ELSE t.clock)

\* Only minutes are compared to the minute; any other period to the day.
CoversEnd(bars, end, period) ==
  /\ bars # {}
  /\ IF period = "1m" THEN EndBoundary(end) # NoBar /\ Max(bars) >= EndBoundary(end)
     ELSE DayOf(Max(bars)) >= end.day

CoversStart(bars, start, period) ==
  /\ bars # {}
  /\ IF period = "1m" THEN StartBoundary(start) # NoBar /\ Min(bars) <= StartBoundary(start)
     ELSE DayOf(Min(bars)) <= start.day

\* _confident_closed_window_coverage: a count is a limit, not a claim.
Confident(bars, a) ==
  a.count = -1 /\ CoversStart(bars, a.start, a.period) /\ CoversEnd(bars, a.end, a.period)

Covered(bars, a) ==
  IF a.route = "tail" THEN CoversEnd(bars, a.end, "1m") ELSE Confident(bars, a)

-----------------------------------------------------------------------------
(* Files and the terminal's own data.                                      *)

\* A minute file: one shape for every trading day.
FileOf(shape) ==
  [records |-> {10 * d + k : d \in Days \ Holidays, k \in 0..6} \cap
                 UNION {{10 * d + k : k \in shape[d].has} : d \in Days \ Holidays},
   bad |-> UNION {{10 * d + k : k \in shape[d].bad} : d \in Days \ Holidays}]

\* A daily file has a record for every day of which it has anything.
DailyOf(shape) ==
  [records |-> {10 * d : d \in {e \in Days \ Holidays : shape[e].has # {}}}, bad |-> {}]

DayShapes == [Days \ Holidays -> Shapes]

ReadFile(a, shape) ==
  IF a.period = "1d" THEN ReadDaily(DailyOf(shape), a.start, a.end, a.count)
  ELSE ReadMinutes(FileOf(shape), a.start, a.end, a.count, a.route = "history")

\* The same, with no regard to the count: what is usable of the whole window,
\* and the session of every day that is sound from its open on.
Sound(range, bad, completeDays) ==
  LET good == range \ bad
      open(b) == {ClockOf(g) : g \in {h \in good : DayOf(h) = DayOf(b) /\ ClockOf(h) > 0}}
  IN {b \in good : ClockOf(b) \in Session /\ (completeDays => open(b) = Session)}

InOneGo(a, shape) ==
  LET daily  == InWindow(DailyOf(shape).records, a.start, a.end)
      minute == InWindow(FileOf(shape).records, a.start, a.end)
  IN IF a.period = "1d" THEN [usable |-> daily, sound |-> daily]
     ELSE [usable |-> Usable(minute, FileOf(shape).bad, a.route = "history"),
           sound  |-> Sound(minute, FileOf(shape).bad, a.route = "history")]

\* What the terminal answers for a window: the bars it has of it.
Terminal(a, shape) ==
  IF a.period = "1d" THEN LastOf(InWindow(DailyOf(shape).records, a.start, [a.end EXCEPT !.clock = WholeDay]), a.count)
  ELSE LastOf({b \in InWindow(FileOf(shape).records, a.start, a.end) : ClockOf(b) \in Session}, a.count)

-----------------------------------------------------------------------------
SourceInit ==
  /\ ask = [route |-> "none"] /\ stage = "idle"
  /\ frame = NoFrames /\ missing = {}
  /\ kept = [there |-> FALSE, frame |-> NoFrames]
  /\ expected = [c \in Codes |-> [usable |-> {}, sound |-> {}]]
  /\ answers = 0

\* A request for a closed window.  DAT answers for daily and minute bars when
\* its root is known and the bars are unadjusted (dat); the cache is asked only
\* when the request says so.
DatEligible(a) == a.period \in {"1d", "1m"} /\ a.dat

Ask(a) ==
  /\ stage = "idle"
  /\ AtTime(a.start) <= AtTime(a.end)
  /\ a.route = "tail" => /\ a.period = "1m" /\ a.dat /\ ~a.cached /\ a.count > 0
                         /\ a.start.day = a.end.day /\ a.end.clock # WholeDay /\ a.start.clock # WholeDay
  /\ ask' = a
  /\ stage' = IF DatEligible(a) THEN "dat" ELSE IF a.cached THEN "cache" ELSE "rpc"
  /\ missing' = IF DatEligible(a) THEN {} ELSE Codes
  /\ UNCHANGED <<frame, kept, expected, answers>>

\* The files are read, and every code they do not cover is missing.
ReadDat(shape) ==
  /\ stage = "dat"
  /\ LET bars == [c \in Codes |-> ReadFile(ask, shape[c])]
         gone == {c \in Codes : ~Covered(bars[c], ask)}
     IN /\ frame' = [c \in Codes |-> [from |-> "dat", bars |-> bars[c]]]
        /\ missing' = gone
        /\ stage' = IF gone = {} THEN "answered" ELSE "rpc"
        /\ answers' = IF gone = {} THEN answers + 1 ELSE answers
        /\ expected' = [c \in Codes |-> InOneGo(ask, shape[c])]
  /\ UNCHANGED <<ask, kept>>

ReadKept ==
  /\ stage = "cache"
  /\ \/ /\ kept.there
        /\ frame' = kept.frame /\ stage' = "answered" /\ answers' = answers + 1
     \/ /\ ~kept.there /\ stage' = "rpc" /\ UNCHANGED <<frame, answers>>
  /\ UNCHANGED <<ask, missing, kept, expected>>

\* The RPC answers for the missing codes, or for some of them only.  In
\* get_history_ex its frames are the answer and a covered local frame is
\* added; in get_minute_tail a fetched frame replaces the local one when it
\* has the last minute.  A whole answer is kept when the cache was asked.
Merged(c, fetched) ==
  IF c \notin missing THEN frame[c]
  ELSE IF ask.route = "history" \/ Covered(fetched[c].bars, ask) THEN fetched[c]
  ELSE frame[c]

RpcBrings(got) ==
  /\ stage = "rpc"
  /\ LET fetched == [c \in Codes |-> [from |-> "rpc", bars |-> got[c]]]
     IN /\ frame' = [c \in Codes |-> Merged(c, fetched)]
        /\ kept' = IF ask.cached /\ ~DatEligible(ask) /\ \A c \in Codes : Confident(got[c], ask)
                   THEN [there |-> TRUE, frame |-> fetched] ELSE kept
  /\ stage' = "answered" /\ answers' = answers + 1
  /\ UNCHANGED <<ask, missing, expected>>

\* An RPC error is the whole answer of get_history_ex, the local frames are
\* dropped; get_minute_tail answers with what it has.
RpcErrs ==
  /\ stage = "rpc"
  /\ frame' = IF ask.route = "history" THEN NoFrames ELSE frame
  /\ stage' = "answered" /\ answers' = answers + 1
  /\ UNCHANGED <<ask, missing, kept, expected>>

\* The client is done; it may ask the same again.
AskAgain ==
  /\ stage = "answered" /\ answers < MaxAnswers
  /\ ask.cached /\ ~DatEligible(ask)
  /\ stage' = "cache" /\ frame' = NoFrames
  /\ UNCHANGED <<ask, missing, kept, expected, answers>>

SourceNext ==
  \/ \E route \in {"history", "tail"}, period \in Periods, s, e \in Times, n \in Counts,
        cached, dat \in BOOLEAN :
       Ask([route |-> route, period |-> period, start |-> s, end |-> e, count |-> n,
            cached |-> cached, dat |-> dat])
  \/ \E shape \in [Codes -> DayShapes] : ReadDat(shape)
  \/ ReadKept
  \/ \E shape \in [Codes -> DayShapes] : RpcBrings([c \in Codes |-> Terminal(ask, shape[c])])
  \/ RpcErrs
  \/ AskAgain

-----------------------------------------------------------------------------
(* Properties.                                                             *)

\* The bars of the market in the window of a request.
Needed(a) ==
  IF a.period = "1d"
  THEN {10 * d : d \in {e \in Days \ Holidays : e \in a.start.day..a.end.day}}
  ELSE InWindow({10 * d + k : d \in Days \ Holidays, k \in Session}, a.start, a.end)

Claimed(c) == stage = "answered" /\ ask.route = "history" /\ Confident(frame[c].bars, ask)

\* A minute or daily answer that claims its window has both of its ends: bars
\* can be missing from the middle only.  The claim is made over the lunch
\* break, times outside the session, holidays and the days that the DAT reader
\* drops, and lets an answer be served without RPC and kept for a day.
HolesOnlyInside ==
  \A c \in Codes : Claimed(c) /\ ask.period \in {"1m", "1d"} =>
    \A b \in Needed(ask) \ frame[c].bars :
      \E low, high \in frame[c].bars : low < b /\ b < high

\* A counted read of a DAT file is the last usable bars of the whole window,
\* although it reads the window's tail only, by blocks that may cut a day in
\* two, hold damaged records or records outside the session.  One case is left
\* out: a day with a sound record before its open is dropped by a read of the
\* whole window and taken by one whose block begins after that record, so the
\* answer then depends on the count; it has bars of sound days all the same.
TailIsExact ==
  \A c \in Codes : frame[c].from = "dat" =>
    /\ frame[c].bars \subseteq expected[c].sound
    /\ expected[c].usable = expected[c].sound =>
         frame[c].bars = LastOf(expected[c].usable, ask.count)

\* What the comment in _read_stock has in mind: the block that was read supplies
\* the requested bars.  Not so after a record before the open, see TailIsExact.
TailIsLast ==
  \A c \in Codes : frame[c].from = "dat" => frame[c].bars = LastOf(expected[c].usable, ask.count)

\* The docstring of _confident_closed_window_coverage, market.py:180: coverage
\* is claimed only when the whole requested range is provable.
CoverageIsTrue ==
  \A c \in Codes : Claimed(c) => Needed(ask) \subseteq frame[c].bars

\* A frame that claims the window has both its ends, and one read from the
\* local DAT tail is what the file holds of it (routers/market.py).
ClaimsCover == HolesOnlyInside /\ TailIsExact

=============================================================================
