----------------------------- MODULE OrderCancel -----------------------------
(***************************************************************************)
(* Cancelling an order: the bridge's precheck, call and reconciliation     *)
(* (routers/trading.py), the write gate, the RPC, and the strategy's own   *)
(* precheck before the native cancel (redis_rpc.py, order_bigqmt.py).      *)
(* Several requests may be about the same order, which the broker fills or *)
(* cancels meanwhile.                                                      *)
(*                                                                         *)
(* Broker statuses are their class: live (cancelable), acked (51 to 54)    *)
(* and done (56, 57).                                                      *)
(***************************************************************************)
EXTENDS Naturals, Sequences, FiniteSets

CONSTANTS Cancels,   \* requests about the order
          MaxQueue   \* bound on the strategy's queue

VARIABLES
  order,    \* the broker's status of the order
  wanted,   \* each request: single or batch
  cancel,   \* where it is in the bridge, or what it answered
  lapsed,   \* requests whose RPC deadline has passed
  inbox,    \* the strategy's queue
  working,  \* the request the strategy executes
  receipt,  \* RPC reply on its way
  called,   \* requests whose native cancel was called
  took,     \* of these, the ones the native call accepted
  saw       \* order statuses while the request was open

cancelVars == <<order, wanted, cancel, lapsed, inbox, working, receipt, called, took, saw>>

NoOne == "no one"

ASSUME CancelAssumption == NoOne \notin Cancels

CancelInit ==
  /\ order \in {"live", "acked", "done"}
  /\ wanted \in [Cancels -> {"single", "batch"}]
  /\ cancel = [c \in Cancels |-> "new"]
  /\ lapsed = {} /\ inbox = <<>> /\ working = NoOne
  /\ receipt = [c \in Cancels |-> "none"]
  /\ called = {} /\ took = {}
  /\ saw = [c \in Cancels |-> {}]

bridgeSide   == <<wanted, cancel>>
strategySide == <<inbox, working>>
brokerSide   == <<order, saw>>
calls        == <<called, took>>

Say(c, a) == cancel' = [cancel EXCEPT ![c] = a]

Opens(c) == saw' = [saw EXCEPT ![c] = {order}]

\* The requests that are open see the order's new status.
Seen(o) == [c \in Cancels |-> IF cancel[c] \in {"gate", "sent", "doubt"}
                              THEN saw[c] \union {o} ELSE saw[c]]

-----------------------------------------------------------------------------
(* The broker.                                                             *)

\* A pending cancel may still be refused, or lose against a fill.
BrokerMoves ==
  /\ order # "done"
  /\ order' \in (IF order = "live" THEN {"done"} ELSE {"live", "done"})
  /\ saw' = Seen(order')
  /\ UNCHANGED <<bridgeSide, lapsed, strategySide, receipt, calls>>

-----------------------------------------------------------------------------
(* The bridge.                                                             *)

\* query_current_order: the order, nothing (no match, or a transport error), or
\* an error that no handler of cancel_order catches.
Escapes(c) == Say(c, "not_started") \/ Say(c, "error")

PrecheckCancel(c) ==
  /\ cancel[c] = "new" /\ wanted[c] = "single"
  /\ \/ order = "acked" /\ Say(c, "ok")
     \/ order = "done" /\ Say(c, "not_cancelable")
     \/ Say(c, "gate")
     \/ Escapes(c)
  /\ Opens(c)
  /\ UNCHANGED <<order, wanted, lapsed, strategySide, receipt, calls>>

\* batch_cancel has no precheck.
BatchItem(c) ==
  /\ cancel[c] = "new" /\ wanted[c] = "batch"
  /\ Say(c, "gate") /\ Opens(c)
  /\ UNCHANGED <<order, wanted, lapsed, strategySide, receipt, calls>>

\* cancel_order takes every OSError for a transport error; so is the gate's
\* TradingWriteDisabled, a PermissionError.  batch_cancel catches nothing.
Doubt(c) == Say(c, IF wanted[c] = "single" THEN "doubt" ELSE "error")

\* manager.cancel_order and trading_client: the gate, then the RPC, which the
\* strategy queues, refuses because its queue is full, or never gets.
SendCancel(c) ==
  /\ cancel[c] = "gate"
  /\ \/ Doubt(c) /\ UNCHANGED <<inbox, receipt>>
     \/ /\ Say(c, "sent")
        /\ \/ Len(inbox) < MaxQueue /\ inbox' = Append(inbox, c) /\ UNCHANGED receipt
           \/ receipt' = [receipt EXCEPT ![c] = "rejected"] /\ UNCHANGED inbox
           \/ UNCHANGED <<inbox, receipt>>
  /\ UNCHANGED <<brokerSide, wanted, lapsed, working, calls>>

Lapse(c) ==
  /\ cancel[c] = "sent" /\ c \notin lapsed
  /\ lapsed' = lapsed \union {c}
  /\ UNCHANGED <<brokerSide, bridgeSide, strategySide, receipt, calls>>

\* The exchange fails: a timeout is a transport error, a TransportError is not
\* caught.
CallFails(c) ==
  /\ cancel[c] = "sent"
  /\ \/ c \in lapsed /\ Doubt(c)
     \/ Say(c, "error")
  /\ UNCHANGED <<brokerSide, wanted, lapsed, strategySide, receipt, calls>>

\* Mutant: a false receipt counts as done.
ReplyTaken(c) ==
  /\ cancel[c] = "sent" /\ receipt[c] \in {"accepted", "refused"}
  /\ Say(c, "ok")
  /\ UNCHANGED <<brokerSide, wanted, lapsed, strategySide, receipt, calls>>

\* A false receipt is reconciled; batch_cancel hands it on.
Reply(c) ==
  /\ cancel[c] = "sent"
  /\ \/ receipt[c] = "accepted" /\ Say(c, "ok")
     \/ receipt[c] = "refused" /\ wanted[c] = "single" /\ Say(c, "doubt")
     \/ receipt[c] = "refused" /\ wanted[c] = "batch" /\ Say(c, "false")
     \/ receipt[c] = "failed" /\ (Say(c, "error") \/ Doubt(c))
     \/ receipt[c] = "rejected" /\ Say(c, "not_started")
  /\ UNCHANGED <<brokerSide, wanted, lapsed, strategySide, receipt, calls>>

\* The query after a doubtful call.  One that the strategy's queue rejects
\* escapes: the whole request answers execution_started: false.
ReconcileCancel(c) ==
  /\ cancel[c] = "doubt"
  /\ \/ order = "acked" /\ Say(c, "ok")
     \/ Say(c, "unknown")
     \/ Say(c, "not_started_after") \/ Say(c, "error")
  /\ UNCHANGED <<brokerSide, wanted, lapsed, strategySide, receipt, calls>>

-----------------------------------------------------------------------------
(* The strategy, one request at a time.                                    *)

SendReply(c, r) == receipt' = [receipt EXCEPT ![c] = r]

Expire ==
  /\ working = NoOne /\ inbox # <<>> /\ Head(inbox) \in lapsed
  /\ inbox' = Tail(inbox)
  /\ SendReply(Head(inbox), "rejected")
  /\ UNCHANGED <<brokerSide, bridgeSide, lapsed, working, calls>>

\* _handle_cancel_order: the precheck answers for an order that is over; a
\* failing query, or one that does not list the order, sees nothing.
Take ==
  /\ working = NoOne /\ inbox # <<>> /\ Head(inbox) \notin lapsed
  /\ inbox' = Tail(inbox)
  /\ \/ order = "acked" /\ SendReply(Head(inbox), "accepted") /\ UNCHANGED working
     \/ order = "done" /\ SendReply(Head(inbox), "refused") /\ UNCHANGED working
     \/ working' = Head(inbox) /\ UNCHANGED receipt
  /\ UNCHANGED <<brokerSide, bridgeSide, lapsed, calls>>

\* The native call is asynchronous: its result need not agree with what becomes
\* of the order, and only a live one is affected.
NativeCancel ==
  /\ working # NoOne
  /\ called' = called \union {working}
  /\ \/ order = "live" /\ order' = "acked"
     \/ UNCHANGED order
  /\ saw' = Seen(order')
  /\ \E r \in {"accepted", "refused", "failed"} :
       /\ SendReply(working, r)
       /\ took' = IF r = "accepted" THEN took \union {working} ELSE took
  /\ working' = NoOne
  /\ UNCHANGED <<bridgeSide, lapsed, inbox>>

CancelNext ==
  \/ BrokerMoves \/ Expire \/ Take \/ NativeCancel
  \/ \E c \in Cancels :
       \/ PrecheckCancel(c) \/ BatchItem(c) \/ SendCancel(c) \/ Lapse(c)
       \/ CallFails(c) \/ Reply(c) \/ ReconcileCancel(c)

-----------------------------------------------------------------------------
\* Answers are true: ok only if the native cancel accepted or the order was
\* seen acked, not_cancelable only of an order that is over, and "execution not
\* started" only of a request whose native cancel was never called (unless it
\* is the later query that was not started).
CancelAnswersTrue ==
  \A c \in Cancels :
    /\ cancel[c] = "ok" => c \in took \/ "acked" \in saw[c]
    /\ cancel[c] = "not_cancelable" => order = "done"
    /\ cancel[c] = "not_started" => c \notin called

=============================================================================
