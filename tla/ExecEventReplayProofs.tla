------------------------ MODULE ExecEventReplayProofs ------------------------
(***************************************************************************)
(* Proof that the listener passes over no event, for any number of         *)
(* processes, events, dropped messages and failing replays and any length  *)
(* of journal and queue: within one process's events nothing is lost       *)
(* silently, and until the first restart the listener implements the feed  *)
(* of EventFeed.  Neither is inductive: they rest on the cursor never      *)
(* being ahead of the journal it names, and on what the first process's    *)
(* events up to the cursor have come to.                                   *)
(***************************************************************************)
EXTENDS ExecEventReplay, TLAPS

\* A process that has not started has published nothing.
JournalInv == \A p \in 1 .. MaxEpoch : p > epoch => sequence[p] = 0

\* The cursor is never ahead of the journal it names.
CursorInv ==
  /\ cursor.epoch <= epoch
  /\ cursor.epoch = 0 => cursor.sequence = 0
  /\ cursor.epoch # 0 => cursor.sequence <= sequence[cursor.epoch]
  /\ listener = "listening" => cursor.epoch # 0

\* What waits in the socket was published.
QueueInv ==
  \A i \in 1 .. Len(queue) :
    queue[i].epoch <= epoch /\ queue[i].sequence <= sequence[queue[i].epoch]

\* Up to the cursor the first process's events were delivered or given up with
\* a gap, and none after it was.
FirstInv ==
  epoch = 1 =>
    /\ \A e \in excused : e.epoch = 1
    /\ \A e \in Events : e.epoch = 1 =>
         /\ e.sequence <= cursor.sequence => times[e] > 0 \/ e \in excused
         /\ e.sequence > cursor.sequence => times[e] = 0

ReplayInv == TypeOK /\ JournalInv /\ CursorInv /\ QueueInv /\ FirstInv

-----------------------------------------------------------------------------
LEMMA EventFields ==
  /\ MaxEpoch \in Nat /\ MaxSequence \in Nat /\ MaxLen \in Nat /\ MaxLen > 0
  /\ \A e \in Events : /\ e.epoch \in 1 .. MaxEpoch /\ e.sequence \in 1 .. MaxSequence
                       /\ e.epoch \in Nat /\ e.sequence \in Nat
                       /\ e = [epoch |-> e.epoch, sequence |-> e.sequence]
  BY ReplayAssumption DEF Events

LEMMA SameEvent ==
  ASSUME NEW e \in Events, NEW d \in Events, e.epoch = d.epoch, e.sequence = d.sequence
  PROVE  e = d
  BY DEF Events

LEMMA StateTypes ==
  ASSUME TypeOK
  PROVE  /\ epoch \in 1 .. MaxEpoch /\ epoch \in Nat
         /\ sequence[epoch] \in 0 .. MaxSequence /\ sequence[epoch] \in Nat
         /\ cursor.epoch \in 0 .. MaxEpoch /\ cursor.sequence \in 0 .. MaxSequence
         /\ cursor.epoch \in Nat /\ cursor.sequence \in Nat
         /\ cursor = [epoch |-> cursor.epoch, sequence |-> cursor.sequence]
         /\ FirstRetained \in Nat /\ FirstRetained >= 1
         /\ FirstRetained <= sequence[epoch] \/ (FirstRetained = 1 /\ sequence[epoch] = 0)
  BY EventFields DEF TypeOK, FirstRetained

\* The callback gets D.
LEMMA Counted ==
  ASSUME TypeOK, NEW D, times' = Count(D)
  PROVE  /\ times' \in [Events -> Nat]
         /\ \A e \in Events : times'[e] = IF e \in D THEN times[e] + 1 ELSE times[e]
         /\ \A e \in Events : times[e] \in Nat /\ times'[e] \in Nat
  BY DEF TypeOK, Count

\* A replay brings every event after the cursor, or says that it does not.
LEMMA ReplayBrings ==
  ASSUME TypeOK, CursorInv, NEW e \in Events, e.epoch = epoch, Published(e),
         cursor.epoch = epoch => e.sequence > cursor.sequence
  PROVE  e \in Replayed(cursor) \/ (IsGap(cursor) /\ e.sequence < FirstRetained)
<1>1. e.sequence \in Nat /\ e.sequence >= 1 /\ e.sequence <= sequence[epoch]
  BY EventFields DEF Published
<1>2. CASE e.sequence < FirstRetained
  <2>1. CASE cursor.epoch = epoch
    BY <1>1, <1>2, <2>1, StateTypes DEF IsGap
  <2>2. CASE cursor.epoch = 0
    BY <1>1, <1>2, <2>2, StateTypes DEF IsGap, CursorInv
  <2>3. CASE cursor.epoch \notin {0, epoch}
    BY <1>2, <2>3 DEF IsGap
  <2>. QED BY <2>1, <2>2, <2>3
<1>3. CASE e.sequence >= FirstRetained
  <2>1. e.sequence \in FirstRetained .. sequence[epoch]
    BY <1>1, <1>3, StateTypes
  <2>2. IsGap(cursor) \/ e.sequence > cursor.sequence
    BY <1>1, StateTypes DEF IsGap, CursorInv
  <2>. QED BY <2>1, <2>2 DEF Replayed
<1>. QED BY <1>1, <1>2, <1>3, StateTypes

LEMMA ReplayedFields ==
  ASSUME TypeOK, NEW e \in Replayed(cursor)
  PROVE  /\ e \in Events /\ e.epoch = epoch /\ e.sequence <= sequence[epoch]
         /\ e.sequence >= FirstRetained
         /\ cursor.epoch = epoch => e.sequence > cursor.sequence
  BY StateTypes, EventFields DEF Replayed

LEMMA ReplayStart == Init => ReplayInv
<1>. SUFFICES ASSUME Init PROVE ReplayInv
  OBVIOUS
<1>1. TypeOK
  <2>1. NoCursor \in [epoch : 0 .. MaxEpoch, sequence : 0 .. MaxSequence]
    BY ReplayAssumption DEF NoCursor
  <2>2. [e \in Events |-> 0] \in [Events -> Nat]
    OBVIOUS
  <2>3. sequence \in [1 .. MaxEpoch -> 0 .. MaxSequence]
    BY ReplayAssumption DEF Init
  <2>4. queue \in Seq(Events) /\ Len(queue) <= QueueLimit
    BY ReplayAssumption DEF Init
  <2>5. epoch \in 1 .. MaxEpoch /\ faults \in 0 .. MaxFaults /\ quotes \in BOOLEAN
    BY ReplayAssumption DEF Init
  <2>6. cursor \in [epoch : 0 .. MaxEpoch, sequence : 0 .. MaxSequence] /\ times \in [Events -> Nat]
    BY <2>1, <2>2 DEF Init
  <2>7. listener = "closed" /\ gap = FALSE /\ excused = {}
    BY DEF Init
  <2>. QED BY <2>3, <2>4, <2>5, <2>6, <2>7 DEF TypeOK
<1>2. cursor.epoch = 0 /\ cursor.sequence = 0 /\ epoch = 1
  BY DEF Init, NoCursor
<1>3. JournalInv /\ CursorInv /\ QueueInv
  <2>1. JournalInv
    BY DEF Init, JournalInv
  <2>2. CursorInv
    <3>1. listener = "closed"
      BY DEF Init
    <3>. QED BY <1>2, <3>1 DEF CursorInv
  <2>3. QueueInv
    BY DEF Init, QueueInv
  <2>. QED BY <2>1, <2>2, <2>3
<1>4. FirstInv
  BY <1>2, EventFields DEF Init, FirstInv
<1>. QED BY <1>1, <1>3, <1>4 DEF ReplayInv

\* The listener repairs itself by a replay.
LEMMA ReplayKeeps ==
  ASSUME ReplayInv, Replay, UNCHANGED <<epoch, sequence>>,
         listener' \in {"closed", "connected", "listening"}, faults' \in 0 .. MaxFaults,
         quotes' \in BOOLEAN, queue' \in Seq(Events), Len(queue') <= QueueLimit, QueueInv'
  PROVE  ReplayInv'
<1>. USE DEF ReplayInv
<1>1. /\ times' = Count(Replayed(cursor)) /\ gap' = IsGap(cursor)
      /\ cursor' = [epoch |-> epoch, sequence |-> sequence[epoch]]
      /\ excused' = IF IsGap(cursor)
                      THEN excused \union {e \in Events \ Replayed(cursor) : Published(e) /\ times[e] = 0}
                      ELSE excused
  BY DEF Replay, Repair
<1>2. cursor'.epoch = epoch /\ cursor'.sequence = sequence[epoch]
  BY <1>1
<1>3. /\ times' \in [Events -> Nat]
      /\ \A e \in Events : /\ times'[e] = IF e \in Replayed(cursor) THEN times[e] + 1 ELSE times[e]
                           /\ times[e] \in Nat
  BY <1>1, Counted
<1>4. TypeOK'
  <2>1. cursor' \in [epoch : 0 .. MaxEpoch, sequence : 0 .. MaxSequence]
    BY <1>1, StateTypes, EventFields
  <2>2. excused' \subseteq Events /\ gap' \in BOOLEAN
    BY <1>1 DEF TypeOK, IsGap
  <2>. QED BY <1>3, <2>1, <2>2 DEF TypeOK
<1>5. JournalInv'
  BY DEF JournalInv
<1>6. CursorInv'
  BY <1>2, StateTypes DEF CursorInv
<1>7. FirstInv'
  <2>. SUFFICES ASSUME epoch = 1
                PROVE  /\ \A e \in excused' : e.epoch = 1
                       /\ \A e \in Events : e.epoch = 1 =>
                            /\ e.sequence <= sequence[epoch] => times'[e] > 0 \/ e \in excused'
                            /\ e.sequence > sequence[epoch] => times'[e] = 0
    BY <1>2 DEF FirstInv
  <2>1. \A e \in Events : Published(e) => e.epoch = 1
    BY EventFields, SMTT(30) DEF JournalInv, Published
  <2>2. \A e \in excused' : e.epoch = 1
    BY <1>1, <2>1 DEF FirstInv
  <2>3. ASSUME NEW e \in Events, e.epoch = 1, e.sequence > sequence[epoch] PROVE times'[e] = 0
    <3>1. e \notin Replayed(cursor)
      BY <2>3, ReplayedFields, EventFields, StateTypes
    <3>2. e.sequence > cursor.sequence
      BY <2>3, EventFields, StateTypes DEF CursorInv
    <3>. QED BY <1>3, <2>3, <3>1, <3>2 DEF FirstInv
  <2>4. ASSUME NEW e \in Events, e.epoch = 1, e.sequence <= sequence[epoch]
        PROVE  times'[e] > 0 \/ e \in excused'
    <3>1. CASE e.sequence <= cursor.sequence
      BY <1>1, <1>3, <2>4, <3>1 DEF FirstInv
    <3>2. CASE e.sequence > cursor.sequence
      <4>1. e \in Replayed(cursor) \/ IsGap(cursor)
        BY <2>4, <3>2, ReplayBrings DEF Published
      <4>. QED BY <1>1, <1>3, <2>4, <4>1 DEF Published
    <3>. QED BY <3>1, <3>2, EventFields, StateTypes
  <2>. QED BY <2>2, <2>3, <2>4
<1>. QED BY <1>4, <1>5, <1>6, <1>7

\* The listener takes the live event e as its new cursor; D has e, and may have
\* the events of a replay whose journal is another process's.
LEMMA LiveKeeps ==
  ASSUME ReplayInv, NEW e \in Events, NEW D, e \in D,
         times' = Count(D), cursor' = e, gap' \in BOOLEAN, excused' \subseteq Events,
         e.epoch <= epoch, e.sequence <= sequence[e.epoch],
         epoch = 1 => D = {e} /\ excused' = excused /\ cursor.sequence + 1 = e.sequence,
         UNCHANGED <<epoch, sequence, listener, faults, quotes>>,
         queue' \in Seq(Events), Len(queue') <= QueueLimit, QueueInv'
  PROVE  ReplayInv'
<1>. USE DEF ReplayInv
<1>1. /\ times' \in [Events -> Nat]
      /\ \A d \in Events : /\ times'[d] = IF d \in D THEN times[d] + 1 ELSE times[d]
                           /\ times[d] \in Nat
  BY Counted
<1>2. e.epoch \in 1 .. MaxEpoch /\ e.sequence \in 1 .. MaxSequence
  BY EventFields
<1>3. TypeOK'
  <2>1. e \in [epoch : 0 .. MaxEpoch, sequence : 0 .. MaxSequence]
    BY <1>2, EventFields
  <2>. QED BY <1>1, <2>1 DEF TypeOK
<1>4. JournalInv' /\ CursorInv'
  BY <1>2, EventFields DEF JournalInv, CursorInv
<1>5. FirstInv'
  <2>. SUFFICES ASSUME epoch = 1
                PROVE  \A d \in Events : d.epoch = 1 =>
                         /\ d.sequence <= e.sequence => times'[d] > 0 \/ d \in excused
                         /\ d.sequence > e.sequence => times'[d] = 0
    <3>1. epoch' = epoch /\ cursor'.sequence = e.sequence /\ (epoch = 1 => excused' = excused)
      OBVIOUS
    <3>2. epoch = 1 => \A d \in excused : d.epoch = 1
      BY DEF FirstInv
    <3>. QED BY <3>1, <3>2 DEF FirstInv
  <2>. TAKE d \in Events
  <2>. HAVE d.epoch = 1
  <2>1. e.epoch = 1
    BY <1>2, EventFields
  <2>2. CASE d.sequence <= cursor.sequence
    <3>1. times[d] > 0 \/ d \in excused
      BY <2>2 DEF FirstInv
    <3>2. times[d] \in Nat /\ times'[d] \in {times[d], times[d] + 1}
      BY <1>1
    <3>3. d.sequence <= e.sequence /\ d.sequence \in Nat /\ e.sequence \in Nat
      BY <2>2, EventFields, StateTypes
    <3>. QED BY <3>1, <3>2, <3>3
  <2>3. CASE d.sequence = e.sequence
    <3>1. d = e
      BY <2>1, <2>3, SameEvent
    <3>2. times'[d] = times[d] + 1 /\ times[d] \in Nat
      BY <1>1, <3>1
    <3>3. e.sequence \in Nat
      BY EventFields
    <3>. QED BY <2>3, <3>2, <3>3
  <2>4. CASE d.sequence > e.sequence
    <3>1. d # e
      BY <2>4, EventFields
    <3>2. d.sequence > cursor.sequence /\ d.sequence \in Nat /\ e.sequence \in Nat
      BY <2>4, EventFields, StateTypes
    <3>3. times[d] = 0
      BY <3>2 DEF FirstInv
    <3>. QED BY <1>1, <2>4, <3>1, <3>2, <3>3
  <2>. QED BY <2>2, <2>3, <2>4, EventFields, StateTypes
<1>. QED BY <1>3, <1>4, <1>5

\* The next live event was published, and so was what waits behind it.
LEMMA HeadPublished ==
  ASSUME ReplayInv, queue # <<>>, queue' = Tail(queue), UNCHANGED <<epoch, sequence>>
  PROVE  /\ Head(queue) \in Events /\ Published(Head(queue)) /\ Head(queue).epoch <= epoch
         /\ queue' \in Seq(Events) /\ Len(queue') <= QueueLimit /\ QueueInv'
<1>1. queue \in Seq(Events) /\ Len(queue) <= QueueLimit /\ QueueLimit \in Nat
  BY ReplayAssumption DEF ReplayInv, TypeOK
<1>2. /\ Head(queue) = queue[1] /\ 1 \in 1 .. Len(queue) /\ Head(queue) \in Events
      /\ queue' \in Seq(Events) /\ Len(queue') = Len(queue) - 1
      /\ \A i \in 1 .. Len(queue') : queue'[i] = queue[i + 1] /\ i + 1 \in 1 .. Len(queue)
  BY <1>1
<1>3. QueueInv'
  BY <1>2 DEF ReplayInv, QueueInv
<1>. QED BY <1>1, <1>2, <1>3 DEF ReplayInv, QueueInv, Published

\* A live event that is neither known nor beyond a gap is the next one.
LEMMA NextOfFirst ==
  ASSUME ReplayInv, NEW e \in Events, e.epoch <= epoch, epoch = 1,
         listener = "listening", ~Known(e), ~Skipped(e)
  PROVE  cursor.sequence + 1 = e.sequence /\ cursor.epoch = 1 /\ e.epoch = 1
<1>1. e.epoch = 1 /\ cursor.epoch = 1
  BY EventFields, StateTypes DEF ReplayInv, CursorInv
<1>. QED BY <1>1, EventFields, StateTypes DEF ReplayInv, Known, Skipped

LEMMA FailureKeeps == ASSUME ReplayInv, ReplayFails PROVE ReplayInv'
<1>1. queue' = <<>> /\ UNCHANGED <<epoch, sequence, cursor, gap, times, excused, quotes>>
      /\ listener' = "closed" /\ faults < MaxFaults /\ faults' = faults + 1
  BY DEF ReplayFails
<1>2. TypeOK'
  BY <1>1, ReplayAssumption DEF ReplayInv, TypeOK
<1>. QED BY <1>1, <1>2 DEF ReplayInv, JournalInv, CursorInv, QueueInv, FirstInv

\* An event is appended to the queue.
LEMMA Queued ==
  ASSUME NEW q \in Seq(Events), NEW e \in Events
  PROVE  /\ Append(q, e) \in Seq(Events) /\ Len(Append(q, e)) = Len(q) + 1 /\ Len(q) \in Nat
         /\ \A i \in 1 .. Len(q) : Append(q, e)[i] = q[i] /\ q[i] \in Events
         /\ Append(q, e)[Len(q) + 1] = e
  OBVIOUS

LEMMA PublishKeeps == ASSUME ReplayInv, Publish PROVE ReplayInv'
<1>. DEFINE e == [epoch |-> epoch, sequence |-> sequence[epoch] + 1]
<1>. USE DEF ReplayInv
<1>1. /\ sequence[epoch] < MaxSequence
      /\ sequence' = [sequence EXCEPT ![epoch] = sequence[epoch] + 1]
      /\ \/ Len(queue) < QueueLimit /\ queue' = Append(queue, e)
         \/ queue' = queue
      /\ UNCHANGED <<epoch, listener, cursor, gap, times, excused, faults, quotes>>
  BY DEF Publish
<1>2. /\ sequence' \in [1 .. MaxEpoch -> 0 .. MaxSequence]
      /\ \A p \in 1 .. MaxEpoch : /\ sequence[p] \in Nat /\ sequence'[p] \in Nat
                                  /\ sequence[p] <= sequence'[p]
      /\ sequence'[epoch] = sequence[epoch] + 1
      /\ \A p \in 1 .. MaxEpoch : p # epoch => sequence'[p] = sequence[p]
  BY <1>1, StateTypes, EventFields DEF TypeOK
<1>3. e \in Events /\ e.epoch = epoch /\ e.sequence = sequence'[epoch]
  BY <1>1, <1>2, StateTypes, EventFields DEF Events
<1>. HIDE DEF e
<1>4. /\ queue' \in Seq(Events) /\ Len(queue') <= QueueLimit
      /\ \A i \in 1 .. Len(queue') : queue'[i] = e \/ (i \in 1 .. Len(queue) /\ queue'[i] = queue[i])
  <2>1. queue \in Seq(Events) /\ Len(queue) <= QueueLimit /\ QueueLimit \in Nat
    BY ReplayAssumption DEF TypeOK
  <2>2. CASE queue' = queue
    BY <2>1, <2>2
  <2>3. CASE Len(queue) < QueueLimit /\ queue' = Append(queue, e)
    <3>1. /\ queue' \in Seq(Events) /\ Len(queue') = Len(queue) + 1 /\ Len(queue) \in Nat
          /\ \A i \in 1 .. Len(queue) : queue'[i] = queue[i]
          /\ queue'[Len(queue) + 1] = e
      BY <1>3, <2>1, <2>3, Queued
    <3>. QED BY <2>1, <2>3, <3>1
  <2>. QED BY <1>1, <2>2, <2>3
<1>5. TypeOK'
  BY <1>1, <1>2, <1>4 DEF TypeOK
<1>6. JournalInv'
  BY <1>1, <1>2, StateTypes DEF JournalInv
<1>7. CursorInv'
  <2>1. cursor.epoch # 0 => cursor.epoch \in 1 .. MaxEpoch /\ cursor.sequence <= sequence'[cursor.epoch]
    BY <1>2, StateTypes DEF CursorInv
  <2>. QED BY <1>1, <2>1 DEF CursorInv
<1>8. QueueInv'
  <2>. SUFFICES ASSUME NEW i \in 1 .. Len(queue')
                PROVE  queue'[i].epoch <= epoch /\ queue'[i].sequence <= sequence'[queue'[i].epoch]
    BY <1>1 DEF QueueInv
  <2>1. CASE i \in 1 .. Len(queue) /\ queue'[i] = queue[i]
    <3>1. queue[i] \in Events
      BY <2>1 DEF TypeOK
    <3>. QED BY <1>2, <2>1, <3>1, EventFields DEF QueueInv
  <2>2. CASE queue'[i] = e
    BY <1>2, <1>3, <2>2, StateTypes
  <2>. QED BY <1>4, <2>1, <2>2
<1>9. FirstInv'
  BY <1>1 DEF FirstInv
<1>. QED BY <1>5, <1>6, <1>7, <1>8, <1>9

LEMMA ReceiveKeeps == ASSUME ReplayInv, Receive PROVE ReplayInv'
<1>1. CASE ReplayFails
  BY <1>1, FailureKeeps
<1>2. CASE /\ DropKnown(Head(queue)) \/ Deliver(Head(queue)) \/ DeliverRepaired(Head(queue))
           /\ queue' = Tail(queue) /\ UNCHANGED <<epoch, sequence, listener, faults, quotes>>
  <2>. DEFINE e == Head(queue)
  <2>1. listener = "listening" /\ queue # <<>>
    BY DEF Receive
  <2>2. /\ e \in Events /\ Published(e) /\ e.epoch <= epoch
        /\ queue' \in Seq(Events) /\ Len(queue') <= QueueLimit /\ QueueInv'
    BY <1>2, <2>1, HeadPublished
  <2>. HIDE DEF e
  <2>3. CASE DropKnown(e)
    <3>1. UNCHANGED <<cursor, gap, times, excused>>
      BY <2>3 DEF DropKnown
    <3>. QED BY <1>2, <2>2, <3>1 DEF ReplayInv, TypeOK, JournalInv, CursorInv, FirstInv
  <2>4. CASE Deliver(e)
    <3>1. ~Known(e) /\ ~Skipped(e) /\ times' = Count({e}) /\ cursor' = e /\ UNCHANGED <<gap, excused>>
      BY <2>4 DEF Deliver
    <3>2. epoch = 1 => cursor.sequence + 1 = e.sequence
      BY <2>1, <2>2, <3>1, NextOfFirst
    <3>3. gap' \in BOOLEAN /\ excused' \subseteq Events
      BY <3>1 DEF ReplayInv, TypeOK
    <3>. QED BY <1>2, <2>2, <3>1, <3>2, <3>3, LiveKeeps DEF Published
  <2>5. CASE epoch = e.epoch /\ Replay
    <3>1. listener' \in {"closed", "connected", "listening"} /\ faults' \in 0 .. MaxFaults
          /\ quotes' \in BOOLEAN
      BY <1>2 DEF ReplayInv, TypeOK
    <3>. QED BY <1>2, <2>2, <2>5, <3>1, ReplayKeeps
  <2>6. CASE epoch # e.epoch /\ Repair(Replayed(cursor) \union {e}) /\ cursor' = e
    <3>1. epoch # 1
      BY <2>2, <2>6, EventFields
    <3>2. gap' \in BOOLEAN /\ excused' \subseteq Events /\ times' = Count(Replayed(cursor) \union {e})
      BY <2>6 DEF Repair, IsGap, ReplayInv, TypeOK
    <3>. QED BY <1>2, <2>2, <2>6, <3>1, <3>2, LiveKeeps DEF Published
  <2>. QED BY <1>2, <2>3, <2>4, <2>5, <2>6 DEF e, DeliverRepaired
<1>. QED BY <1>1, <1>2 DEF Receive

LEMMA ReplayNext == ReplayInv /\ [Next]_vars => ReplayInv'
<1>. SUFFICES ASSUME ReplayInv, [Next]_vars PROVE ReplayInv'
  OBVIOUS
<1>1. CASE UNCHANGED vars
  BY <1>1 DEF vars, ReplayInv, TypeOK, JournalInv, CursorInv, QueueInv, FirstInv
<1>2. CASE Publish
  BY <1>2, PublishKeeps
<1>3. CASE Restart
  <2>1. epoch < MaxEpoch /\ epoch' = epoch + 1 /\ epoch \in Nat /\ epoch >= 1
    BY <1>3, StateTypes DEF Restart, ReplayInv
  <2>2. UNCHANGED <<sequence, listener, queue, cursor, gap, times, excused, faults, quotes>>
    BY <1>3 DEF Restart
  <2>3. TypeOK'
    BY <2>1, <2>2, EventFields DEF ReplayInv, TypeOK
  <2>4. JournalInv' /\ FirstInv'
    BY <2>1, <2>2 DEF ReplayInv, JournalInv, FirstInv
  <2>5. CursorInv'
    BY <2>1, <2>2, StateTypes DEF ReplayInv, CursorInv
  <2>6. QueueInv'
    <3>1. \A i \in 1 .. Len(queue) : queue[i].epoch \in Nat
      BY EventFields DEF ReplayInv, TypeOK
    <3>. QED BY <2>1, <2>2, <3>1 DEF ReplayInv, QueueInv
  <2>. QED BY <2>3, <2>4, <2>5, <2>6 DEF ReplayInv
<1>4. CASE Connect
  BY <1>4 DEF Connect, ReplayInv, TypeOK, JournalInv, CursorInv, QueueInv, FirstInv
<1>5. CASE ReplayOnConnect \/ PeriodicReplay
  <2>1. CASE ReplayFails
    BY <2>1, FailureKeeps
  <2>2. CASE Replay /\ listener' = "listening" /\ UNCHANGED <<epoch, sequence, queue, faults, quotes>>
    <3>1. /\ faults' \in 0 .. MaxFaults /\ quotes' \in BOOLEAN
          /\ queue' \in Seq(Events) /\ Len(queue') <= QueueLimit /\ QueueInv'
      BY <2>2 DEF ReplayInv, TypeOK, QueueInv
    <3>. QED BY <2>2, <3>1, ReplayKeeps
  <2>. QED BY <1>5, <2>1, <2>2 DEF ReplayOnConnect, PeriodicReplay
<1>6. CASE Receive
  BY <1>6, ReceiveKeeps
<1>7. CASE QuoteTraffic
  BY <1>7 DEF QuoteTraffic, ReplayInv, TypeOK, JournalInv, CursorInv, QueueInv, FirstInv
<1>. QED BY <1>1, <1>2, <1>3, <1>4, <1>5, <1>6, <1>7 DEF Next

-----------------------------------------------------------------------------
(* Losses.                                                                 *)

\* A replay passes over nothing of the process it moves the cursor within.
LEMMA ReplayLosesNothing ==
  ASSUME ReplayInv, Replay, UNCHANGED <<epoch, sequence>>, NEW e \in Events,
         ~Unreported(e), Unreported(e)'
  PROVE  cursor'.epoch # cursor.epoch
<1>. SUFFICES ASSUME cursor'.epoch = cursor.epoch PROVE FALSE
  OBVIOUS
<1>1. /\ times' = Count(Replayed(cursor))
      /\ cursor' = [epoch |-> epoch, sequence |-> sequence[epoch]]
      /\ excused' = IF IsGap(cursor)
                      THEN excused \union {d \in Events \ Replayed(cursor) : Published(d) /\ times[d] = 0}
                      ELSE excused
  BY DEF Replay, Repair
<1>2. times'[e] = (IF e \in Replayed(cursor) THEN times[e] + 1 ELSE times[e]) /\ times[e] \in Nat
  BY <1>1, Counted DEF ReplayInv
<1>3. e.epoch = epoch /\ Published(e) /\ times'[e] = 0 /\ e \notin excused'
  BY DEF Unreported, Passed, Published
<1>4. e \notin Replayed(cursor) /\ times[e] = 0
  BY <1>2, <1>3
<1>5. cursor.epoch = epoch
  BY <1>1
<1>6. e.sequence > cursor.sequence
  BY <1>1, <1>3, <1>4, <1>5, EventFields, StateTypes DEF Unreported, Passed, ReplayInv
<1>7. IsGap(cursor)
  BY <1>3, <1>4, <1>6, ReplayBrings DEF ReplayInv
<1>. QED BY <1>1, <1>3, <1>4, <1>7

\* A step that moves neither the cursor nor its process loses nothing.
LEMMA StillLosesNothing ==
  ASSUME ReplayInv, UNCHANGED <<cursor, times, excused>>, NEW e \in Events,
         ~Unreported(e), Unreported(e)',
         Publish \/ Restart \/ UNCHANGED <<epoch, sequence>>
  PROVE  cursor'.epoch # cursor.epoch
<1>1. CASE UNCHANGED <<epoch, sequence>>
  BY <1>1 DEF Unreported, Passed, Published
<1>2. CASE Publish
  <2>1. epoch' = epoch /\ Passed(e) /\ times[e] = 0 /\ e \notin excused
    BY <1>2 DEF Publish, Unreported, Passed
  <2>2. Published(e)
    BY <2>1, EventFields, StateTypes DEF Passed, Published, ReplayInv, CursorInv
  <2>. QED BY <2>1, <2>2 DEF Unreported
<1>3. CASE Restart
  <2>1. epoch' = epoch + 1 /\ cursor.epoch = epoch'
    BY <1>3 DEF Restart, Unreported, Passed
  <2>. QED BY <2>1, StateTypes DEF ReplayInv, CursorInv
<1>. QED BY <1>1, <1>2, <1>3

\* Neither does the next live event of the same process.
LEMMA DeliverLosesNothing ==
  ASSUME ReplayInv, NEW d \in Events, Deliver(d), UNCHANGED <<epoch, sequence>>,
         NEW e \in Events, ~Unreported(e), Unreported(e)'
  PROVE  cursor'.epoch # cursor.epoch
<1>. SUFFICES ASSUME cursor'.epoch = cursor.epoch PROVE FALSE
  OBVIOUS
<1>1. ~Known(d) /\ ~Skipped(d) /\ times' = Count({d}) /\ cursor' = d /\ excused' = excused
  BY DEF Deliver
<1>2. times'[e] = (IF e \in {d} THEN times[e] + 1 ELSE times[e]) /\ times[e] \in Nat
  BY <1>1, Counted DEF ReplayInv
<1>3. e.epoch = epoch /\ e.epoch = d.epoch /\ e.sequence <= d.sequence
      /\ Published(e) /\ times'[e] = 0 /\ e \notin excused
  BY <1>1 DEF Unreported, Passed, Published
<1>4. e # d /\ times[e] = 0
  BY <1>2, <1>3
<1>5. e.sequence # d.sequence
  BY <1>3, <1>4, SameEvent
<1>6. e.sequence <= cursor.sequence
  BY <1>1, <1>3, <1>5, EventFields, StateTypes DEF Known, Skipped, ReplayInv
<1>. QED BY <1>1, <1>3, <1>4, <1>6 DEF Unreported, Passed

LEMMA LossStep ==
  ASSUME ReplayInv, [Next]_vars, NEW e \in Events, ~Unreported(e), Unreported(e)'
  PROVE  cursor'.epoch # cursor.epoch
<1>1. CASE UNCHANGED <<cursor, times, excused>> /\ (Publish \/ Restart \/ UNCHANGED <<epoch, sequence>>)
  BY <1>1, StillLosesNothing
<1>2. CASE Replay /\ UNCHANGED <<epoch, sequence>>
  BY <1>2, ReplayLosesNothing
<1>3. CASE Receive /\ ~ReplayFails /\ ~Replay
  <2>. DEFINE d == Head(queue)
  <2>1. /\ queue # <<>> /\ queue' = Tail(queue) /\ UNCHANGED <<epoch, sequence>>
        /\ DropKnown(d) \/ Deliver(d) \/ DeliverRepaired(d)
    BY <1>3 DEF Receive
  <2>2. d \in Events
    BY <2>1, HeadPublished
  <2>. HIDE DEF d
  <2>3. CASE DropKnown(d)
    BY <1>1, <2>1, <2>3 DEF DropKnown
  <2>4. CASE Deliver(d)
    BY <2>1, <2>2, <2>4, DeliverLosesNothing
  <2>5. CASE DeliverRepaired(d)
    <3>1. epoch # d.epoch /\ cursor' = d
      BY <1>3, <2>5 DEF DeliverRepaired
    <3>2. e.epoch = epoch /\ e.epoch = d.epoch
      BY <2>1, <3>1 DEF Unreported, Passed
    <3>. QED BY <3>1, <3>2
  <2>. QED BY <2>1, <2>3, <2>4, <2>5
<1>. QED
  BY <1>1, <1>2, <1>3 DEF vars, Next, Publish, Restart, QuoteTraffic, Connect,
     ReplayOnConnect, PeriodicReplay, Receive, ReplayFails, DropKnown, Deliver, DeliverRepaired

-----------------------------------------------------------------------------
(* The feed.                                                               *)

\* The first process's event n.
First(n) == [epoch |-> 1, sequence |-> n]

LEMMA FirstFields ==
  /\ \A n \in 1 .. MaxSequence :
       First(n) \in Events /\ First(n).epoch = 1 /\ First(n).sequence = n
  /\ \A e \in Events : e.epoch = 1 => e = First(e.sequence)
  BY ReplayAssumption DEF First, Events

\* Events up to the cursor keep their count; those the replay brings gain one.
LEMMA FirstReplayed ==
  ASSUME ReplayInv, epoch = 1, NEW n \in 1 .. MaxSequence
  PROVE  First(n) \in Replayed(cursor) <=>
           n >= FirstRetained /\ n > cursor.sequence /\ n <= sequence[1]
<1>1. First(n) \in Events /\ First(n).epoch = 1 /\ First(n).sequence = n
  BY FirstFields
<1>2. cursor.epoch \in {0, 1} /\ (cursor.epoch = 0 => cursor.sequence = 0) /\ n >= 1
  BY StateTypes DEF ReplayInv, CursorInv
<1>. QED BY <1>1, <1>2, StateTypes DEF Replayed, ReplayInv

LEMMA FirstGap ==
  ASSUME ReplayInv, epoch = 1
  PROVE  /\ cursor.sequence <= sequence[1]
         /\ IsGap(cursor) <=> cursor.sequence + 1 < FirstRetained
<1>1. cursor.epoch \in {0, 1} /\ (cursor.epoch = 0 => cursor.sequence = 0)
  BY StateTypes DEF ReplayInv, CursorInv
<1>2. cursor.sequence <= sequence[1]
  BY <1>1, StateTypes DEF ReplayInv, CursorInv
<1>. QED BY <1>1, <1>2, StateTypes DEF IsGap, ReplayInv

\* What a replay gives up is what lies between the cursor and the journal's edge.
LEMMA FirstExcused ==
  ASSUME ReplayInv, epoch = 1, Replay, IsGap(cursor)
  PROVE  {e.sequence : e \in excused'} =
           {e.sequence : e \in excused} \union (cursor.sequence + 1) .. (FirstRetained - 1)
<1>. DEFINE S == {e \in Events \ Replayed(cursor) : Published(e) /\ times[e] = 0}
            R == (cursor.sequence + 1) .. (FirstRetained - 1)
<1>1. excused' = excused \union S
  BY DEF Replay, Repair
<1>2. /\ cursor.sequence \in Nat /\ FirstRetained \in Nat /\ sequence[1] \in Nat
      /\ sequence[1] <= MaxSequence /\ MaxSequence \in Nat
      /\ FirstRetained <= sequence[1] \/ FirstRetained = 1
  BY StateTypes, EventFields DEF ReplayInv
<1>3. ASSUME NEW e \in S PROVE e \in excused \/ e.sequence \in R
  <2>1. e.epoch = 1 /\ e.sequence <= sequence[1] /\ e.sequence \in 1 .. MaxSequence
    BY <1>3, EventFields DEF ReplayInv, JournalInv, Published
  <2>2. CASE e.sequence <= cursor.sequence
    BY <1>3, <2>1, <2>2 DEF ReplayInv, FirstInv
  <2>3. CASE e.sequence > cursor.sequence
    <3>1. e = First(e.sequence) /\ e \notin Replayed(cursor)
      BY <1>3, <2>1, FirstFields
    <3>2. e.sequence < FirstRetained
      BY <1>2, <2>1, <2>3, <3>1, FirstReplayed
    <3>. QED BY <1>2, <2>1, <2>3, <3>2
  <2>. QED BY <1>2, <2>1, <2>2, <2>3
<1>4. ASSUME NEW n \in R PROVE First(n) \in S /\ First(n).sequence = n
  <2>1. n \in 1 .. MaxSequence /\ n > cursor.sequence /\ n < FirstRetained /\ n <= sequence[1]
    BY <1>2, <1>4
  <2>2. First(n) \in Events /\ First(n).epoch = 1 /\ First(n).sequence = n
    BY <2>1, FirstFields
  <2>3. First(n) \notin Replayed(cursor)
    BY <1>2, <2>1, FirstReplayed
  <2>4. times[First(n)] = 0
    BY <2>1, <2>2 DEF ReplayInv, FirstInv
  <2>. QED BY <2>1, <2>2, <2>3, <2>4 DEF Published
<1>5. \A e \in excused' : e.sequence \in {d.sequence : d \in excused} \union R
  BY <1>1, <1>3
<1>6. \A n \in R : n \in {d.sequence : d \in excused'}
  BY <1>1, <1>4
<1>. QED BY <1>1, <1>5, <1>6

\* A replay of the first process's journal advances the feed, or leaves it.
LEMMA FeedReplays ==
  ASSUME ReplayInv, epoch = 1, Replay, UNCHANGED <<epoch, sequence>>
  PROVE  [Feed!Next]_(Feed!feedVars)
<1>. DEFINE low  == IF cursor.sequence + 1 < FirstRetained THEN FirstRetained
                    ELSE cursor.sequence + 1
            high == sequence[1]
<1>1. /\ times' = Count(Replayed(cursor))
      /\ cursor' = [epoch |-> epoch, sequence |-> sequence[epoch]]
      /\ excused' = IF IsGap(cursor)
                      THEN excused \union {e \in Events \ Replayed(cursor) : Published(e) /\ times[e] = 0}
                      ELSE excused
  BY DEF Replay, Repair
<1>2. /\ cursor.sequence \in Nat /\ FirstRetained \in Nat /\ FirstRetained >= 1
      /\ sequence[1] \in Nat /\ sequence[1] <= MaxSequence /\ MaxSequence \in Nat
      /\ FirstRetained <= sequence[1] \/ FirstRetained = 1
      /\ cursor.sequence <= sequence[1]
  BY StateTypes, EventFields, FirstGap DEF ReplayInv
<1>3. cursor'.sequence = sequence[1] /\ sequence' = sequence
  BY <1>1
<1>4. ASSUME NEW n \in 1 .. MaxSequence
      PROVE  times'[First(n)] = IF n >= FirstRetained /\ n > cursor.sequence /\ n <= sequence[1]
                                  THEN times[First(n)] + 1 ELSE times[First(n)]
  BY <1>1, FirstFields, FirstReplayed, Counted DEF ReplayInv
<1>5. CASE cursor.sequence = sequence[1]
  <2>1. excused' = excused
    BY <1>1, <1>2, <1>5, FirstGap
  <2>2. \A n \in 1 .. MaxSequence : times'[First(n)] = times[First(n)]
    BY <1>2, <1>4, <1>5
  <2>3. [n \in 1 .. MaxSequence |-> times'[First(n)]] = [n \in 1 .. MaxSequence |-> times[First(n)]]
    BY <2>2
  <2>4. UNCHANGED Feed!feedVars
    BY <1>3, <1>5, <2>1, <2>3 DEF Feed!feedVars, First
  <2>. QED BY <2>4
<1>6. CASE cursor.sequence < sequence[1]
  <2>1. low \in 1 .. MaxSequence /\ high \in 1 .. MaxSequence
        /\ cursor.sequence < low /\ low <= high /\ high <= sequence[1]
    BY <1>2, <1>6
  <2>2. \A n \in 1 .. MaxSequence :
          times'[First(n)] = IF n \in low .. high THEN times[First(n)] + 1 ELSE times[First(n)]
    BY <1>2, <1>4
  <2>3. {e.sequence : e \in excused'} =
          {e.sequence : e \in excused} \union (cursor.sequence + 1) .. (low - 1)
    <3>1. CASE cursor.sequence + 1 < FirstRetained
      BY <3>1, FirstGap, FirstExcused
    <3>2. CASE ~(cursor.sequence + 1 < FirstRetained)
      <4>1. excused' = excused /\ (cursor.sequence + 1) .. (low - 1) = {}
        BY <1>1, <1>2, <3>2, FirstGap
      <4>. QED BY <4>1
    <3>. QED BY <3>1, <3>2
  <2>. HIDE DEF low, high
  <2>4. Feed!Advance(low, high)
    BY <1>3, <2>1, <2>2, <2>3 DEF Feed!Advance, First, high
  <2>5. Feed!Next
    BY <2>1, <2>4 DEF Feed!Next, Feed!Advance
  <2>. QED BY <2>5
<1>. QED BY <1>2, <1>5, <1>6

\* The next live event advances it by one.
LEMMA FeedDelivers ==
  ASSUME ReplayInv, epoch = 1, NEW e \in Events, Deliver(e), listener = "listening",
         e.epoch <= epoch, Published(e), UNCHANGED <<epoch, sequence>>
  PROVE  Feed!Next
<1>1. ~Known(e) /\ ~Skipped(e) /\ times' = Count({e}) /\ cursor' = e /\ excused' = excused
  BY DEF Deliver
<1>2. cursor.sequence + 1 = e.sequence /\ e.epoch = 1 /\ e = First(e.sequence)
  BY <1>1, NextOfFirst, FirstFields
<1>3. /\ e.sequence \in 1 .. MaxSequence /\ e.sequence <= sequence[1] /\ cursor.sequence \in Nat
      /\ sequence' = sequence
  BY <1>2, EventFields, StateTypes DEF Published, ReplayInv
<1>4. ASSUME NEW n \in 1 .. MaxSequence
      PROVE  times'[First(n)] = IF n \in e.sequence .. e.sequence THEN times[First(n)] + 1
                                ELSE times[First(n)]
  <2>1. First(n) \in Events /\ First(n).sequence = n
    BY FirstFields
  <2>2. First(n) = e <=> n = e.sequence
    BY <1>2, <2>1
  <2>3. times'[First(n)] = IF First(n) \in {e} THEN times[First(n)] + 1 ELSE times[First(n)]
    BY <1>1, <2>1, Counted DEF ReplayInv
  <2>4. n \in e.sequence .. e.sequence <=> n = e.sequence
    BY <1>3
  <2>. QED BY <2>2, <2>3, <2>4
<1>5. (cursor.sequence + 1) .. (e.sequence - 1) = {}
  BY <1>2, <1>3
<1>6. Feed!Advance(e.sequence, e.sequence)
  <2>1. cursor.sequence < e.sequence /\ cursor'.sequence = e.sequence
    BY <1>1, <1>2, <1>3
  <2>2. {d.sequence : d \in excused'} =
          {d.sequence : d \in excused} \union (cursor.sequence + 1) .. (e.sequence - 1)
    BY <1>1, <1>5
  <2>3. [n \in 1 .. MaxSequence |-> times'[First(n)]] =
          [n \in 1 .. MaxSequence |-> IF n \in e.sequence .. e.sequence
             THEN times[First(n)] + 1 ELSE times[First(n)]]
    BY <1>4
  <2>. QED BY <1>3, <2>1, <2>2, <2>3 DEF Feed!Advance, First
<1>. QED BY <1>3, <1>6 DEF Feed!Next

\* Until the strategy is restarted every step of the listener is a step of the
\* feed or leaves it as it is.
LEMMA FeedStep ==
  ASSUME ReplayInv, [Next]_vars, epoch' = 1
  PROVE  [Feed!Next]_(Feed!feedVars)
<1>1. epoch = 1 /\ ~Restart
  BY StateTypes DEF vars, Next, Publish, Restart, QuoteTraffic, Connect, ReplayOnConnect,
     PeriodicReplay, Receive, Replay, ReplayFails, ReplayInv
<1>2. CASE UNCHANGED <<cursor, times, excused, sequence>>
  BY <1>2 DEF Feed!feedVars
<1>3. CASE Publish
  <2>1. /\ sequence[1] < MaxSequence /\ sequence' = [sequence EXCEPT ![1] = sequence[1] + 1]
        /\ UNCHANGED <<cursor, times, excused>>
    BY <1>1, <1>3 DEF Publish
  <2>2. sequence'[1] = sequence[1] + 1
    BY <1>1, <2>1, StateTypes DEF ReplayInv, TypeOK
  <2>3. Feed!Publish
    BY <2>1, <2>2 DEF Feed!Publish
  <2>. QED BY <2>3 DEF Feed!Next
<1>4. CASE Replay /\ UNCHANGED <<epoch, sequence>>
  BY <1>1, <1>4, FeedReplays
<1>5. CASE Receive /\ ~ReplayFails /\ ~Replay
  <2>. DEFINE d == Head(queue)
  <2>1. /\ queue # <<>> /\ queue' = Tail(queue) /\ UNCHANGED <<epoch, sequence>>
        /\ DropKnown(d) \/ Deliver(d) \/ DeliverRepaired(d)
    BY <1>5 DEF Receive
  <2>2. d \in Events /\ Published(d) /\ d.epoch <= epoch
    BY <2>1, HeadPublished
  <2>3. listener = "listening"
    BY <1>5 DEF Receive
  <2>. HIDE DEF d
  <2>4. CASE DropKnown(d)
    BY <1>2, <2>1, <2>4 DEF DropKnown
  <2>5. CASE Deliver(d)
    BY <1>1, <2>1, <2>2, <2>3, <2>5, FeedDelivers
  <2>6. CASE DeliverRepaired(d)
    <3>1. epoch # d.epoch
      BY <1>5, <2>6 DEF DeliverRepaired
    <3>. QED BY <1>1, <2>2, <3>1, EventFields
  <2>. QED BY <2>1, <2>4, <2>5, <2>6
<1>. QED
  BY <1>1, <1>2, <1>3, <1>4, <1>5 DEF vars, Next, QuoteTraffic, Connect, ReplayOnConnect,
     PeriodicReplay, Receive, ReplayFails

LEMMA FeedStart == Init => Feed!Init
<1>. SUFFICES ASSUME Init PROVE Feed!Init
  OBVIOUS
<1>1. sequence[1] = 0 /\ cursor.sequence = 0 /\ excused = {}
  BY ReplayAssumption DEF Init, NoCursor
<1>2. \A n \in 1 .. MaxSequence : times[First(n)] = 0
  BY FirstFields DEF Init
<1>3. [n \in 1 .. MaxSequence |-> times[First(n)]] = [n \in 1 .. MaxSequence |-> 0]
  BY <1>2
<1>. QED BY <1>1, <1>3 DEF Feed!Init, First

-----------------------------------------------------------------------------
\* No event is passed over silently: an event of the running process that the
\* listener leaves behind was given to the callback or reported in a gap, unless
\* a live event of another process moved the cursor; and until the first restart
\* the callback sees the feed that EventFeed promises (trading_client.py,
\* _dispatch_event and _replay_execution_events; exec_events.py,
\* get_events_since).
THEOREM NothingIsPassedOver == Spec => NothingPassedOver
<1>1. ReplayInv => TypeOK
  BY DEF ReplayInv
<1>2. ReplayInv /\ [Next]_vars =>
        [\A e \in Events : ~Unreported(e) /\ Unreported(e)' => cursor'.epoch # cursor.epoch]_vars
  BY LossStep
<1>3. ReplayInv /\ [Next]_vars => [epoch' = 1 => [Feed!Next]_(Feed!feedVars)]_vars
  BY FeedStep
<1>. QED
  BY <1>1, <1>2, <1>3, ReplayStart, ReplayNext, FeedStart, PTL
  DEF Spec, NothingPassedOver, LossOnlyOnCrossing, FeedUntilRestart

=============================================================================
