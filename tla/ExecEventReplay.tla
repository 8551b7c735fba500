-------------------------- MODULE ExecEventReplay --------------------------
(***************************************************************************)
(* Order and trade events on their way from the embedded strategy to the   *)
(* bridge: the publisher's replay journal (exec_events.py), the lossy PUB  *)
(* socket, the queue of the SUB socket, and the listener thread that       *)
(* repairs what the socket lost through the get_events_since RPC           *)
(* (trading_client.py).  An event is identified by its cursor.  The quotes *)
(* on the same socket move no cursor, but keep recv from timing out.       *)
(***************************************************************************)
EXTENDS Naturals, Sequences

CONSTANTS
  MaxEpoch,     \* bound on strategy processes (MaxEpoch - 1 restarts)
  MaxSequence,  \* bound on the events of one process
  MaxLen,       \* maxlen of the replay journal
  QueueLimit,   \* high-water mark of the SUB socket
  MaxFaults     \* bound on replay calls that raise

ASSUME ReplayAssumption ==
  /\ MaxEpoch \in Nat \ {0}
  /\ MaxSequence \in Nat
  /\ MaxLen \in Nat \ {0}
  /\ QueueLimit \in Nat \ {0}
  /\ MaxFaults \in Nat

VARIABLES
  epoch,      \* the strategy process, as its journal's epoch
  sequence,   \* _sequence of each process's journal; only epoch's is there to read
  listener,   \* closed, connected (not yet replayed) or listening
  queue,      \* cursors waiting in the SUB socket
  cursor,     \* _event_cursor
  gap,        \* _event_replay_gap
  times,      \* how often an event reached the callback
  excused,    \* events undelivered when a gap was reported
  faults,     \* replay calls that raised
  quotes      \* quotes arrive, no second passes without one

vars == <<epoch, sequence, listener, queue, cursor, gap, times, excused, faults, quotes>>

Events == [epoch : 1 .. MaxEpoch, sequence : 1 .. MaxSequence]

\* An empty _event_cursor; its epoch matches no process.
NoCursor == [epoch |-> 0, sequence |-> 0]

TypeOK ==
  /\ epoch \in 1 .. MaxEpoch
  /\ sequence \in [1 .. MaxEpoch -> 0 .. MaxSequence]
  /\ listener \in {"closed", "connected", "listening"}
  /\ queue \in Seq(Events) /\ Len(queue) <= QueueLimit
  /\ cursor \in [epoch : 0 .. MaxEpoch, sequence : 0 .. MaxSequence]
  /\ gap \in BOOLEAN
  /\ times \in [Events -> Nat]
  /\ excused \subseteq Events
  /\ faults \in 0 .. MaxFaults
  /\ quotes \in BOOLEAN

Init ==
  /\ epoch = 1 /\ sequence = [p \in 1 .. MaxEpoch |-> 0]
  /\ listener = "closed" /\ queue = <<>>
  /\ cursor = NoCursor /\ gap = FALSE
  /\ times = [e \in Events |-> 0] /\ excused = {}
  /\ faults = 0 /\ quotes \in BOOLEAN

----------------------------------------------------------------------------
(* The strategy *)

\* publish(): the journal first, then the PUB socket, which drops the event
\* when the subscription is not there yet or its queue is full.
Publish ==
  LET e == [epoch |-> epoch, sequence |-> sequence[epoch] + 1]
  IN /\ sequence[epoch] < MaxSequence
     /\ sequence' = [sequence EXCEPT ![epoch] = e.sequence]
     /\ \/ /\ listener # "closed" /\ Len(queue) < QueueLimit
           /\ queue' = Append(queue, e)
        \/ UNCHANGED queue
     /\ UNCHANGED <<epoch, listener, cursor, gap, times, excused, faults, quotes>>

\* A new strategy process starts a journal of its own.
Restart ==
  /\ epoch < MaxEpoch
  /\ epoch' = epoch + 1
  /\ UNCHANGED <<sequence, listener, queue, cursor, gap, times, excused, faults, quotes>>

\* publish_transient: the terminal's quotes start or pause.  A pause is long enough
\* for recv to time out, a second.
QuoteTraffic ==
  /\ quotes' = ~quotes
  /\ UNCHANGED <<epoch, sequence, listener, queue, cursor, gap, times, excused, faults>>

----------------------------------------------------------------------------
(* get_events_since *)

\* retained_from_sequence: the deque keeps the last MaxLen events.
FirstRetained == IF sequence[epoch] > MaxLen THEN sequence[epoch] - MaxLen + 1 ELSE 1

\* An empty requested epoch stands for the journal's own.
IsGap(from) ==
  \/ from.epoch \notin {0, epoch}
  \/ from.sequence + 1 < FirstRetained
  \/ from.sequence > sequence[epoch]

\* The events a replay returns that the listener does not drop as known.
Replayed(from) ==
  {e \in Events :
     /\ e.epoch = epoch
     /\ e.sequence \in FirstRetained .. sequence[epoch]
     /\ IsGap(from) \/ e.sequence > from.sequence
     /\ from.epoch = epoch => e.sequence > from.sequence}

Published(e) == e.sequence <= sequence[e.epoch]

Count(D) == [e \in Events |-> IF e \in D THEN times[e] + 1 ELSE times[e]]

\* The listener gets D after a replay, and e with it.
Repair(D) ==
  /\ gap' = IsGap(cursor)
  /\ times' = Count(D)
  /\ excused' = IF IsGap(cursor)
                  THEN excused \union {e \in Events \ D : Published(e) /\ times[e] = 0}
                  ELSE excused

\* Mutant: only the replayed events move the cursor.
ReplayEventsOnly ==
  /\ Repair(Replayed(cursor))
  /\ cursor' = IF Replayed(cursor) = {} THEN cursor
                ELSE [epoch |-> epoch, sequence |-> sequence[epoch]]

\* _replay_execution_events: dispatch the events, then take the journal's cursor.
Replay ==
  /\ Repair(Replayed(cursor))
  /\ cursor' = [epoch |-> epoch, sequence |-> sequence[epoch]]

\* An exception leaves the inner loop: the socket and its queue are closed.
ReplayFails ==
  /\ faults < MaxFaults /\ faults' = faults + 1
  /\ listener' = "closed" /\ queue' = <<>>
  /\ UNCHANGED <<epoch, sequence, cursor, gap, times, excused, quotes>>

----------------------------------------------------------------------------
(* The listener thread *)

Connect ==
  /\ listener = "closed"
  /\ listener' = "connected"
  /\ UNCHANGED <<epoch, sequence, queue, cursor, gap, times, excused, faults, quotes>>

ReplayOnConnect ==
  /\ listener = "connected"
  /\ \/ Replay /\ listener' = "listening" /\ UNCHANGED <<epoch, sequence, queue, faults, quotes>>
     \/ ReplayFails

\* recv timed out, no event and no quote having come, and the replay interval is over.
\* _replay_execution_events is the same call as on connect.
PeriodicReplay ==
  /\ listener = "listening" /\ queue = <<>> /\ ~quotes
  /\ \/ Replay /\ UNCHANGED <<epoch, sequence, listener, queue, faults, quotes>>
     \/ ReplayFails

Known(e)   == cursor.epoch = e.epoch /\ e.sequence <= cursor.sequence
Skipped(e) == cursor.epoch = e.epoch /\ e.sequence > cursor.sequence + 1

DropKnown(e) ==
  /\ Known(e)
  /\ UNCHANGED <<cursor, gap, times, excused>>

\* Mutant: no repair of a skipped sequence.
DeliverAnything(e) ==
  /\ ~Known(e)
  /\ times' = Count({e})
  /\ cursor' = e
  /\ UNCHANGED <<gap, excused>>

Deliver(e) ==
  /\ ~Known(e) /\ ~Skipped(e)
  /\ times' = Count({e})
  /\ cursor' = e
  /\ UNCHANGED <<gap, excused>>

\* A skipped sequence is replayed first.  When the journal is that of a new
\* process the event in hand is still dispatched and sets the cursor back.
DeliverRepaired(e) ==
  /\ Skipped(e)
  /\ \/ epoch = e.epoch /\ Replay
     \/ epoch # e.epoch /\ Repair(Replayed(cursor) \union {e}) /\ cursor' = e

\* _dispatch_event of the next live event.
Receive ==
  /\ listener = "listening" /\ queue # <<>>
  /\ \/ /\ LET e == Head(queue) IN DropKnown(e) \/ Deliver(e) \/ DeliverRepaired(e)
        /\ queue' = Tail(queue)
        /\ UNCHANGED <<epoch, sequence, listener, faults, quotes>>
     \/ Skipped(Head(queue)) /\ ReplayFails

Next == Publish \/ Restart \/ QuoteTraffic \/ Connect \/ ReplayOnConnect \/ PeriodicReplay \/ Receive

Spec == Init /\ [][Next]_vars

\* The thread keeps running: it reconnects, receives and replays.  In every pause
\* recv times out; of such pauses without end some are not within the interval of
\* the last replay.
FairSpec ==
  /\ Spec
  /\ WF_vars(Connect) /\ WF_vars(ReplayOnConnect) /\ WF_vars(Receive)
  /\ SF_vars(PeriodicReplay)

----------------------------------------------------------------------------
\* An event of the running process that no later replay will bring.
Passed(e) == e.epoch = epoch /\ e.epoch = cursor.epoch /\ e.sequence <= cursor.sequence

\* No lost, late or duplicated message makes the listener pass over an event
\* that was neither handed to the callback nor part of a reported replay gap.
Unreported(e) == Passed(e) /\ Published(e) /\ times[e] = 0 /\ e \notin excused

NoSilentLoss == \A e \in Events : ~Unreported(e)

\* Within one process's events no step passes over an event silently: only a
\* live event of another process does.
LossOnlyOnCrossing ==
  [][\A e \in Events : ~Unreported(e) /\ Unreported(e)' => cursor'.epoch # cursor.epoch]_vars

\* Once the strategy is quiet and as long as quotes pause now and then, the listener
\* reaches the journal's cursor, even when the last live event was lost.
CaughtUp == cursor = [epoch |-> epoch, sequence |-> sequence[epoch]]

CatchesUp == []<>~quotes => <>[]CaughtUp

\* That it does so whatever the quotes do is what no run lists and TLC refutes.
CatchesUpUnderQuotes == <>[]CaughtUp

\* What the callback sees of the first strategy process.
Feed == INSTANCE EventFeed WITH
  published <- sequence[1],
  position  <- cursor.sequence,
  times     <- [n \in 1 .. MaxSequence |-> times[[epoch |-> 1, sequence |-> n]]],
  excused   <- {e.sequence : e \in excused}

\* Until the strategy is restarted the listener implements the promised feed:
\* every event in order, at most once, and none passed over but in a reported gap.
FeedUntilRestart ==
  Feed!Init /\ [][epoch' = 1 => [Feed!Next]_(Feed!feedVars)]_vars

\* No event is passed over: within one process the listener implements the
\* promised feed, and only a live event of another process can lose one
\* (trading_client.py, _dispatch_event).
NothingPassedOver == []TypeOK /\ LossOnlyOnCrossing /\ FeedUntilRestart

=============================================================================
