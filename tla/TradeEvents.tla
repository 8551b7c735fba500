----------------------------- MODULE TradeEvents -----------------------------
(***************************************************************************)
(* How the bridge passes native trade callbacks on.  A native thread puts  *)
(* an event into a bounded deque (trading/callbacks.py); the event loop    *)
(* drains it into one bounded queue per WebSocket (ws/trade_callback.py)   *)
(* and into the notifier's queue (notify/base.py), whose worker sends to   *)
(* the backends.  Every queue may overflow.                                *)
(*                                                                         *)
(* An event is its number in native order; Gap stands for the message that *)
(* tells a reader to reconcile.  Authentication, formatting and the event  *)
(* filter (applied when the worker has taken an event) are left out.       *)
(***************************************************************************)
EXTENDS Naturals, Sequences, SequencesExt, FiniteSets

CONSTANTS Listeners,   \* WebSocket connections
          MaxEvents,   \* native events of a behaviour
          DequeCap,    \* 1024 in the code
          ListenerCap, \* _TRADE_QUEUE_SIZE
          NotifyCap    \* _NOTIFY_QUEUE_SIZE

ASSUME TradeAssumption ==
  /\ DequeCap \in Nat /\ DequeCap >= 2
  /\ ListenerCap \in Nat \ {0} /\ NotifyCap \in Nat \ {0} /\ MaxEvents \in Nat

Gap  == 0
None == MaxEvents + 1

VARIABLES
  native,    \* events dispatched so far
  events,    \* BridgeTraderCallback._events
  drain,     \* _drain_scheduled
  loop,      \* the event loop: open or closed
  lq,        \* each listener's queue
  conn,      \* each connection
  overflowed,\* listeners that gave up on their backlog
  since,     \* events that were dispatched before each listener connected
  got,       \* events each listener was sent
  nq,        \* the notifier's queue
  inflight,  \* what its worker is sending
  worker,    \* the notifier: running, being stopped, stopped
  cancelled, \* stop() found an event in flight
  count      \* notifications: offered to a running notifier, sent, dropped

feedVars   == <<native, events, drain, loop>>
wsVars     == <<lq, conn, overflowed, since, got>>
notifyVars == <<nq, inflight, worker, cancelled, count>>
tradeVars  == <<feedVars, wsVars, notifyVars>>

TradeInit ==
  /\ native = 0 /\ events = <<>> /\ drain = FALSE /\ loop = "open"
  /\ lq = [l \in Listeners |-> <<>>]
  /\ conn = [l \in Listeners |-> "new"]
  /\ overflowed = {}
  /\ since = [l \in Listeners |-> 0]
  /\ got = [l \in Listeners |-> {}]
  /\ nq = <<>> /\ inflight = None /\ worker = "running" /\ cancelled = FALSE
  /\ count = [offered |-> 0, sent |-> 0, dropped |-> 0]

-----------------------------------------------------------------------------
(* The native thread.                                                      *)

\* deque(maxlen): an append to a full deque drops the oldest item.
Bounded(s) == IF Len(s) > DequeCap THEN Tail(s) ELSE s

\* Mutant: the overflow is left to the deque, without a gap.
PushSilently(e) == Bounded(Append(events, e))

\* On overflow the oldest event makes room for a gap, and the new event for
\* itself at the expense of the second oldest.
Push(e) ==
  IF Len(events) = DequeCap
  THEN Bounded(Append(Append(Tail(events), Gap), e))
  ELSE Append(events, e)

\* _dispatch, for on_order, on_trade and on_disconnected.  A closed loop
\* refuses the callback, and the events are cleared.
Dispatch ==
  /\ native < MaxEvents
  /\ native' = native + 1
  /\ IF loop = "closed" /\ ~drain
     THEN events' = <<>> /\ drain' = FALSE
     ELSE events' = Push(native + 1) /\ drain' = TRUE
  /\ UNCHANGED <<loop, wsVars, notifyVars>>

-----------------------------------------------------------------------------
(* The event loop.                                                         *)

\* _TradeListener.offer: what the queue holds after it, when not overflowed.
Offered(q, e) == IF Len(q) < ListenerCap THEN Append(q, e) ELSE <<Gap>>

\* publish_trade_event: to every connected listener that has not overflowed.
Publish(e) ==
  /\ lq' = [l \in Listeners |->
              IF conn[l] = "open" /\ l \notin overflowed THEN Offered(lq[l], e) ELSE lq[l]]
  /\ overflowed' = overflowed \cup
                     {l \in Listeners : conn[l] = "open" /\ Len(lq[l]) = ListenerCap}

\* NotifierManager.submit: rejected without a running worker, counted as
\* dropped when the queue is full.
SubmitEvent(e) ==
  /\ IF worker # "running" THEN UNCHANGED <<nq, count>>
     ELSE IF Len(nq) < NotifyCap
          THEN nq' = Append(nq, e) /\ count' = [count EXCEPT !.offered = @ + 1]
          ELSE UNCHANGED nq /\ count' = [count EXCEPT !.offered = @ + 1, !.dropped = @ + 1]
  /\ UNCHANGED <<inflight, worker, cancelled>>

\* One turn of _drain: it ends, under the lock, when nothing is left.
Drain ==
  /\ drain /\ loop = "open"
  /\ IF events = <<>>
     THEN drain' = FALSE /\ UNCHANGED <<events, lq, overflowed, notifyVars>>
     ELSE /\ events' = Tail(events) /\ UNCHANGED drain
          /\ Publish(Head(events)) /\ SubmitEvent(Head(events))
  /\ UNCHANGED <<native, loop, conn, since, got>>

Connect(l) ==
  /\ conn[l] = "new" /\ loop = "open"
  /\ conn' = [conn EXCEPT ![l] = "open"]
  /\ since' = [since EXCEPT ![l] = native]
  /\ UNCHANGED <<feedVars, notifyVars, lq, overflowed, got>>

\* _sender: a gap is the last thing it sends, then it closes the connection.
SendNext(l) ==
  /\ conn[l] = "open" /\ lq[l] # <<>>
  /\ lq' = [lq EXCEPT ![l] = Tail(@)]
  /\ got' = [got EXCEPT ![l] = @ \cup {Head(lq[l])}]
  /\ conn' = [conn EXCEPT ![l] = IF Head(lq[l]) = Gap THEN "reconcile" ELSE "open"]
  /\ UNCHANGED <<feedVars, notifyVars, overflowed, since>>

\* The peer leaves or a send fails.
Disconnect(l) ==
  /\ conn[l] = "open"
  /\ conn' = [conn EXCEPT ![l] = "closed"]
  /\ lq' = [lq EXCEPT ![l] = <<>>]
  /\ UNCHANGED <<feedVars, notifyVars, overflowed, since, got>>

\* _run_worker takes an event, and dispatches it to every backend, whose
\* errors it swallows.
WorkerTakes ==
  /\ worker = "running" /\ inflight = None /\ nq # <<>>
  /\ inflight' = Head(nq) /\ nq' = Tail(nq)
  /\ UNCHANGED <<feedVars, wsVars, worker, cancelled, count>>

WorkerSent ==
  /\ worker = "running" /\ inflight # None
  /\ inflight' = None
  /\ count' = [count EXCEPT !.sent = @ + 1]
  /\ UNCHANGED <<feedVars, wsVars, nq, worker, cancelled>>

\* stop(): the worker is forgotten and cancelled ...
StopNotifier ==
  /\ worker = "running"
  /\ worker' = "stopping" /\ cancelled' = (inflight # None)
  /\ UNCHANGED <<feedVars, wsVars, nq, inflight, count>>

\* ... and, once the cancellation is through, the queue is purged.
Purge ==
  /\ worker = "stopping" /\ worker' = "stopped"
  /\ inflight' = None /\ nq' = <<>>
  /\ count' = [count EXCEPT !.dropped = @ + Len(nq) + IF cancelled THEN 1 ELSE 0]
  /\ UNCHANGED <<feedVars, wsVars, cancelled>>

\* The application has shut down: its connections went first.
CloseLoop ==
  /\ loop = "open" /\ worker = "stopped"
  /\ \A l \in Listeners : conn[l] # "open"
  /\ loop' = "closed"
  /\ UNCHANGED <<native, events, drain, wsVars, notifyVars>>

TradeNext ==
  \/ Dispatch \/ Drain \/ WorkerTakes \/ WorkerSent \/ StopNotifier \/ Purge \/ CloseLoop
  \/ \E l \in Listeners : Connect(l) \/ SendNext(l) \/ Disconnect(l)

-----------------------------------------------------------------------------
Missing(l) == (since[l] + 1 .. native) \ (got[l] \cup ToSet(lq[l]) \cup ToSet(events))

(* An event that a connected listener will never be sent is announced to   *)
(* it: a gap is still on its way, in its queue or in the deque, wherever   *)
(* the event was lost and however many overflows followed; and what is in  *)
(* the deque of a running loop has a drain that will reach it.             *)
LossAnnounced ==
  /\ \A l \in Listeners :
       conn[l] = "open" /\ Missing(l) # {} => Gap \in ToSet(lq[l]) \cup ToSet(events)
  /\ loop = "open" /\ events # <<>> => drain

(* Every event offered to a running notifier is sent, waiting, in flight   *)
(* or counted as dropped, across overflow and a stop in the middle of a    *)
(* send.                                                                   *)
NotificationsAccounted ==
  count.offered = count.sent + Len(nq) + count.dropped + (IF inflight = None THEN 0 ELSE 1)

\* Every event reaches its readers, or a gap or a counter says that it did not.
EventsAccounted == LossAnnounced /\ NotificationsAccounted

=============================================================================
