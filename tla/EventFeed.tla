----------------------------- MODULE EventFeed -----------------------------
(***************************************************************************)
(* What the execution-event stream promises its callback as long as the    *)
(* embedded strategy keeps running: events are delivered in order and once *)
(* each, and an event that is passed over is reported as a replay gap.     *)
(***************************************************************************)
EXTENDS Naturals

CONSTANT MaxSequence  \* bound on the events published

VARIABLES
  published,  \* events published so far, numbered from 1
  position,   \* the last event dealt with
  times,      \* how often the callback got an event
  excused     \* events given up with a gap report

feedVars == <<published, position, times, excused>>

Init ==
  /\ published = 0
  /\ position = 0
  /\ times = [n \in 1 .. MaxSequence |-> 0]
  /\ excused = {}

Publish ==
  /\ published < MaxSequence
  /\ published' = published + 1
  /\ UNCHANGED <<position, times, excused>>

\* Give up position+1 .. from-1 and deliver from .. to.
Advance(from, to) ==
  /\ position < from /\ from <= to /\ to <= published
  /\ position' = to
  /\ times' = [n \in 1 .. MaxSequence |-> IF n \in from .. to THEN times[n] + 1 ELSE times[n]]
  /\ excused' = excused \union (position + 1) .. (from - 1)
  /\ UNCHANGED published

Next == Publish \/ \E from, to \in 1 .. MaxSequence : Advance(from, to)

Spec == Init /\ [][Next]_feedVars

=============================================================================
