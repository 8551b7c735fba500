------------------------------ MODULE Telemetry ------------------------------
(***************************************************************************)
(* The telemetry queue (bigqmt_signal_trader/telemetry.py): any thread     *)
(* emits into a bounded queue, one writer thread appends the events to a   *)
(* file, and what is lost (a full queue, a failed write) is counted and    *)
(* reported by a loss event before the next event is written.  A shutdown  *)
(* drains and stops the writer within a limit, and a configure starts over *)
(* after it.                                                               *)
(*                                                                         *)
(* The critical counters move with the plain ones and are left out, so are *)
(* rotation and the content of events.  The limit of a shutdown is a choice*)
(* at every wait.                                                          *)
(***************************************************************************)
EXTENDS Naturals, Sequences, FiniteSets

CONSTANTS QueueSize,   \* queue_size
          MaxEmits     \* events a behaviour tries to emit

VARIABLES
  eventQueue, \* the queue: events and the sentinel
  writer,     \* the writer thread: none, idle, got, loss,
              \* counting, event, dead
  snap,       \* the loss it is reporting
  closer,     \* the thread in shutdown or configure, and where it is
  closing,    \* stop_requested
  emits,      \* attempts
  counters,   \* [emitted, written, failed, dropped, rejected, losses]
  pending,    \* pending_loss: [dropped, failed]
  reported    \* what loss events have told: [dropped, failed]

teleVars == <<eventQueue, writer, snap, closer, closing, emits, counters, pending, reported>>

EVENT == "event"
STOP  == "stop"
NoLoss == [dropped |-> 0, failed |-> 0]
NoCounts == [emitted |-> 0, written |-> 0, failed |-> 0, dropped |-> 0, rejected |-> 0,
             losses |-> 0]

TeleInit ==
  /\ eventQueue = <<>> /\ writer = "none" /\ snap = NoLoss
  /\ closer = "away" /\ closing = FALSE /\ emits = 0
  /\ counters = NoCounts /\ pending = NoLoss /\ reported = NoLoss

InHand == writer \in {"got", "loss", "counting", "event"}

Running == writer = "idle" \/ InHand

\* shutdown holds the lock while it waits to put the sentinel.
LockFree == closer # "putting"

\* emit, under the lock; the first one, or the first after the writer ended,
\* starts a writer with a queue of its own.
EmitEvent ==
  /\ LockFree /\ emits < MaxEmits /\ emits' = emits + 1
  /\ LET queued == IF Running THEN eventQueue ELSE <<>>
     IN IF closing
        THEN counters' = [counters EXCEPT !.rejected = @ + 1]
             /\ UNCHANGED <<eventQueue, writer, pending>>
        ELSE /\ writer' = IF Running THEN writer ELSE "idle"
             /\ IF Len(queued) < QueueSize
                THEN /\ eventQueue' = Append(queued, EVENT)
                     /\ counters' = [counters EXCEPT !.emitted = @ + 1]
                     /\ UNCHANGED pending
                ELSE /\ eventQueue' = queued
                     /\ counters' = [counters EXCEPT !.dropped = @ + 1]
                     /\ pending' = [pending EXCEPT !.dropped = @ + 1]
  /\ UNCHANGED <<snap, closer, closing, reported>>

\* queue.get needs no lock of telemetry's.
GetEvent ==
  /\ writer = "idle" /\ eventQueue # <<>> /\ Head(eventQueue) = EVENT
  /\ eventQueue' = Tail(eventQueue)
  /\ writer' = "got"
  /\ UNCHANGED <<snap, closer, closing, emits, counters, pending, reported>>

\* With loss pending, a loss event goes first.
ReadLoss ==
  /\ writer = "got" /\ LockFree
  /\ snap' = pending
  /\ writer' = IF pending = NoLoss THEN "event" ELSE "loss"
  /\ UNCHANGED <<eventQueue, closer, closing, emits, counters, pending, reported>>

GetStop ==
  /\ writer = "idle" /\ eventQueue # <<>> /\ Head(eventQueue) = STOP
  /\ eventQueue' = Tail(eventQueue)
  /\ writer' = "dead"
  /\ UNCHANGED <<snap, closer, closing, emits, counters, pending, reported>>

\* A write that raises, of the loss event or of the event: the event is lost.
WriteFails ==
  /\ writer \in {"loss", "event"} /\ LockFree
  /\ writer' = "idle"
  /\ counters' = [counters EXCEPT !.failed = @ + 1]
  /\ pending' = [pending EXCEPT !.failed = @ + 1]
  /\ UNCHANGED <<eventQueue, snap, closer, closing, emits, reported>>

\* The loss event is in the file.
WriteLoss ==
  /\ writer = "loss" /\ LockFree
  /\ writer' = "counting"
  /\ counters' = [counters EXCEPT !.written = @ + 1]
  /\ reported' = [dropped |-> reported.dropped + snap.dropped,
                  failed |-> reported.failed + snap.failed]
  /\ UNCHANGED <<eventQueue, snap, closer, closing, emits, pending>>

\* Mutant: the pending loss is cleared, with what was lost meanwhile.
ForgetLoss ==
  /\ writer = "counting" /\ LockFree
  /\ writer' = "event"
  /\ pending' = NoLoss
  /\ counters' = [counters EXCEPT !.losses = @ + 1]
  /\ UNCHANGED <<eventQueue, snap, closer, closing, emits, reported>>

\* Only what was reported is no longer pending.
SubtractLoss ==
  /\ writer = "counting" /\ LockFree
  /\ writer' = "event"
  /\ pending' = [dropped |-> pending.dropped - snap.dropped,
                 failed |-> pending.failed - snap.failed]
  /\ counters' = [counters EXCEPT !.losses = @ + 1]
  /\ UNCHANGED <<eventQueue, snap, closer, closing, emits, reported>>

WriteEvent ==
  /\ writer = "event" /\ LockFree
  /\ writer' = "idle"
  /\ counters' = [counters EXCEPT !.written = @ + 1]
  /\ UNCHANGED <<eventQueue, snap, closer, closing, emits, pending, reported>>

-----------------------------------------------------------------------------
(* shutdown and configure.                                                 *)

BeginShutdown ==
  /\ closer = "away"
  /\ closing' = TRUE
  /\ closer' = "flushing"
  /\ UNCHANGED <<eventQueue, writer, snap, emits, counters, pending, reported>>

\* flush: everything taken and done, or the limit passed; then the lock.
Flushed ==
  /\ closer = "flushing"
  /\ closer' = IF Running THEN "putting" ELSE "joining"
  /\ UNCHANGED <<eventQueue, writer, snap, closing, emits, counters, pending, reported>>

PutStop ==
  /\ closer = "putting"
  /\ \/ Len(eventQueue) < QueueSize /\ eventQueue' = Append(eventQueue, STOP) /\ closer' = "joining"
     \/ Len(eventQueue) >= QueueSize /\ closer' = "timed_out" /\ UNCHANGED eventQueue
  /\ UNCHANGED <<writer, snap, closing, emits, counters, pending, reported>>

\* The join ended, or its limit passed.
Joined ==
  /\ closer = "joining"
  /\ IF Running
     THEN closer' = "timed_out" /\ UNCHANGED <<eventQueue, writer>>
     ELSE closer' = "stopped" /\ eventQueue' = <<>> /\ writer' = "none"
  /\ UNCHANGED <<snap, closing, emits, counters, pending, reported>>

\* A configure that stopped the writer starts over; what was lost and not
\* yet reported is forgotten.  A shutdown leaves emit refused.
Configured ==
  /\ closer = "stopped"
  /\ closer' = "away" /\ closing' = FALSE
  /\ counters' = NoCounts /\ pending' = NoLoss /\ reported' = NoLoss
  /\ UNCHANGED <<eventQueue, writer, snap, emits>>

\* The caller goes on: a timed-out configure changed nothing else.
Returned ==
  /\ closer \in {"stopped", "timed_out"}
  /\ closer' = "away"
  /\ UNCHANGED <<eventQueue, writer, snap, closing, emits, counters, pending, reported>>

TeleNext ==
  \/ EmitEvent \/ GetEvent \/ ReadLoss \/ GetStop \/ WriteFails \/ WriteLoss
  \/ SubtractLoss \/ WriteEvent \/ BeginShutdown \/ Flushed \/ PutStop \/ Joined \/ Configured \/ Returned

-----------------------------------------------------------------------------
EventsIn(q) == Cardinality({i \in 1..Len(q) : q[i] = EVENT})

\* Every event accepted is written, counted as a failed write, queued or in
\* the writer's hand, also across a shutdown that times out and is repeated;
\* and every loss counted has been reported or is still to be, exactly once
\* (in between, it is being subtracted).
TelemetryAccounts ==
  LET queued == EventsIn(eventQueue)
      hand   == IF InHand THEN 1 ELSE 0
      half   == writer = "counting"
      told   == IF half THEN snap ELSE NoLoss
      losses == counters.losses + IF half THEN 1 ELSE 0
  IN /\ counters.emitted + losses = counters.written + counters.failed + queued + hand
     /\ counters.dropped + told.dropped = pending.dropped + reported.dropped
     /\ counters.failed + told.failed = pending.failed + reported.failed

=============================================================================
