---------------------------- MODULE MCHistoryReads ----------------------------
\* What a minute file may hold of a day: the whole session, nothing, all but its
\* first and its last bar, a damaged record, a record in the lunch break, and one
\* before the open.
EXTENDS HistoryReads

MCShapes ==
  {[has |-> Session, bad |-> {}], [has |-> {}, bad |-> {}], [has |-> Session \ {1, 5}, bad |-> {}],
   [has |-> Session, bad |-> {2}], [has |-> Session \cup {3}, bad |-> {}],
   [has |-> Session \cup {0}, bad |-> {}]}

MCClocks == {0, 2, 3, 5, 6, WholeDay}
MCCounts == {-1, 3}

=============================================================================
