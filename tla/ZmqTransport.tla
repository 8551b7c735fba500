---------------------------- MODULE ZmqTransport ----------------------------
(***************************************************************************)
(* ZmqTransport (transports/zmq_transport.py), both of its roles.          *)
(*                                                                         *)
(* Client: callers put calls on a queue that one I/O thread serves.  Only  *)
(* that thread touches the DEALER socket, and it carries one exchange at a *)
(* time.  An exchange that times out closes the DEALER, so that a late     *)
(* reply dies with the identity it was addressed to.  stop() raises a flag *)
(* no new call passes, and the dying thread fails what is still queued.    *)
(*                                                                         *)
(* Server: the ROUTER belongs to one thread (the loop, or the tick when    *)
(* there is no background thread).  Replies produced elsewhere go through  *)
(* a queue that the loop drains before it receives.                        *)
(***************************************************************************)
EXTENDS RpcService

CONSTANT STOP   \* _CLIENT_STOP, the queue's end marker

ASSUME ZmqConstants == STOP \notin Calls

VARIABLES box,       \* [Calls -> "open" | "cancelled" | "reply" | "error"]
          cq,        \* the client queue
          io,        \* the client's I/O thread
          cur,       \* the call it exchanges
          stopEv,    \* its stop event
          stopping,  \* _client_stopping
          dealer,    \* identity of the open DEALER; 0 when there is none
          opened,    \* identities used so far
          wire,      \* requests in flight: <<identity, call>>
          back,      \* replies in flight: <<identity, request id>>
          ident,     \* [Calls -> identity or 0]: _pending_identities
          respq,     \* replies queued for the router thread
          rx         \* the worker that owns the ROUTER

ioVars == <<cq, io, cur, stopEv, stopping, dealer, opened>>
netVars == <<wire, back>>
routerVars == <<ident, respq, rx>>
zmqVars == <<box, ioVars, netVars, routerVars>>

ZmqDated == Calls   \* send_request always sets deadline_epoch_ms

ZmqType ==
    /\ box \in [Calls -> {"open", "cancelled", "reply", "error"}]
    /\ cq \in Seq(Calls \cup {STOP})
    /\ io \in {"none", "loop", "sending", "waiting", "draining", "exiting",
               "ended"}
    /\ cur \in Calls \cup {None}
    /\ stopEv \in BOOLEAN /\ stopping \in BOOLEAN
    /\ opened \in Nat /\ dealer \in 0..opened
    /\ wire \subseteq (1..opened) \X Calls
    /\ back \subseteq (1..opened) \X Calls
    /\ ident \in [Calls -> 0..opened]
    /\ respq \in Seq((1..opened) \X Calls)
    /\ rx \in {"listener", "tick"}

ZmqInit == /\ box = [c \in Calls |-> "open"]
           /\ cq = <<>> /\ io = "none" /\ cur = None
           /\ stopEv = FALSE /\ stopping = FALSE
           /\ dealer = 0 /\ opened = 0
           /\ wire = {} /\ back = {}
           /\ ident = [c \in Calls |-> 0] /\ respq = <<>>

-----------------------------------------------------------------------------
(* The callers *)

Alive == io \notin {"none", "ended"}
Complete(c, how) == box' = IF box[c] = "open" THEN [box EXCEPT ![c] = how]
                                             ELSE box

\* Mutant: stop() does not turn new calls away.
ZSendWhileStopping(c) ==
    /\ caller[c] = "idle"
    /\ Ends(c, "waiting")
    /\ \/ /\ Alive
          /\ cq' = Append(cq, c)
          /\ UNCHANGED <<io, stopEv>>
       \/ /\ ~Alive
          /\ cq' = <<c>> /\ io' = "loop" /\ stopEv' = FALSE
    /\ UNCHANGED <<late, got, serviceVars, box, cur, stopping, dealer, opened,
                   netVars, routerVars>>

\* send_request up to the wait: refused when the caller has no budget left or
\* the client is stopping, queued otherwise, starting the thread if need be.
ZSend(c) ==
    /\ caller[c] = "idle"
    /\ \/ /\ Ends(c, "failed")
          /\ UNCHANGED ioVars
       \/ /\ ~stopping
          /\ Ends(c, "waiting")
          /\ \/ /\ Alive
                /\ cq' = Append(cq, c)
                /\ UNCHANGED <<io, stopEv>>
             \/ /\ ~Alive
                /\ cq' = <<c>>
                /\ io' = "loop"
                /\ stopEv' = FALSE
          /\ UNCHANGED <<cur, stopping, dealer, opened>>
    /\ UNCHANGED <<late, got, serviceVars, box, netVars, routerVars>>

\* The caller's wait ends: in time with what the I/O thread left in the box,
\* or at the deadline, which cancels a call that is not complete.
ZCallerWakes(c) ==
    /\ caller[c] = "waiting"
    /\ \/ /\ box[c] = "reply" /\ Answered(c, c)
          /\ UNCHANGED box
       \/ /\ box[c] = "error" /\ Ends(c, "failed")
          /\ UNCHANGED <<box, got>>
       \/ /\ late[c] /\ Ends(c, "failed")
          /\ Complete(c, "cancelled")
          /\ UNCHANGED got
    /\ UNCHANGED <<late, serviceVars, ioVars, netVars, routerVars>>

-----------------------------------------------------------------------------
(* The client's I/O thread *)

Expired(c) == stopEv \/ box[c] = "cancelled" \/ late[c]

\* _reset_dealer(discard_pending): linger 0, so what the socket has not yet
\* handed to the peer may be lost.
ResetDealer == /\ dealer' = 0
               /\ wire' \in {wire, {m \in wire : m[1] # dealer}}
               /\ back' = {m \in back : m[1] # dealer}

\* _ensure_dealer: the open DEALER, or a new one under a new identity.
EnsureDealer == \/ dealer # 0 /\ UNCHANGED <<dealer, opened>>
                \/ dealer = 0 /\ opened' = opened + 1 /\ dealer' = opened + 1

\* The thread may be inside get() when stop() sets the event.
Dequeue ==
    /\ io = "loop" /\ cq # <<>>
    /\ cq' = Tail(cq)
    /\ \/ /\ Head(cq) = STOP
          /\ io' = "draining"
          /\ ResetDealer
          /\ UNCHANGED <<box, cur, opened>>
       \/ /\ Head(cq) # STOP /\ (box[Head(cq)] = "cancelled" \/ late[Head(cq)])
          /\ Complete(Head(cq), "error")
          /\ UNCHANGED <<io, cur, dealer, opened, netVars>>
       \/ /\ Head(cq) # STOP /\ ~(box[Head(cq)] = "cancelled" \/ late[Head(cq)])
          /\ cur' = Head(cq) /\ io' = "sending"
          /\ EnsureDealer
          /\ UNCHANGED <<box, netVars>>
    /\ UNCHANGED <<clientVars, serviceVars, stopEv, stopping, routerVars>>

WireSend ==
    /\ io = "sending" /\ ~Expired(cur)
    /\ wire' = wire \cup {<<dealer, cur>>}
    /\ io' = "waiting"
    /\ UNCHANGED <<clientVars, serviceVars, box, cq, cur, stopEv, stopping,
                   dealer, opened, back, routerVars>>

\* The exchange ends without a reply: expired, or the socket failed.  The
\* DEALER goes with it.
AbortExchange ==
    /\ io \in {"sending", "waiting"}
    /\ ResetDealer
    /\ Complete(cur, "error")
    /\ io' = "loop" /\ cur' = None
    /\ UNCHANGED <<clientVars, serviceVars, cq, stopEv, stopping, opened,
                   routerVars>>

\* A frame arrives on the DEALER: overdue, for this exchange, or somebody's.
Receive ==
    /\ io = "waiting"
    /\ \E m \in back :
        /\ m[1] = dealer
        /\ \/ /\ late[cur] \/ box[cur] = "cancelled"
              /\ ResetDealer
              /\ Complete(cur, "error")
              /\ io' = "loop" /\ cur' = None
           \/ /\ ~late[cur] /\ box[cur] # "cancelled" /\ m[2] = cur
              /\ Complete(cur, "reply")
              /\ io' = "loop" /\ cur' = None
              /\ back' = back \ {m}
              /\ UNCHANGED <<dealer, wire>>
           \/ /\ ~late[cur] /\ box[cur] # "cancelled" /\ m[2] # cur
              /\ back' = back \ {m}
              /\ UNCHANGED <<box, io, cur, dealer, wire>>
    /\ UNCHANGED <<clientVars, serviceVars, cq, stopEv, stopping, opened, routerVars>>

LeaveLoop == /\ io = "loop" /\ stopEv
             /\ io' = "draining"
             /\ ResetDealer
             /\ UNCHANGED <<clientVars, serviceVars, box, cq, cur, stopEv,
                            stopping, opened, routerVars>>

\* The thread's finally: every queued call is failed, then the thread dies.
FailQueued ==
    /\ io = "draining"
    /\ \/ /\ cq # <<>>
          /\ cq' = Tail(cq)
          /\ IF Head(cq) = STOP THEN UNCHANGED box ELSE Complete(Head(cq), "error")
          /\ UNCHANGED io
       \/ /\ cq = <<>> /\ io' = "exiting"
          /\ UNCHANGED <<cq, box>>
    /\ UNCHANGED <<clientVars, serviceVars, cur, stopEv, stopping, dealer, opened,
                   netVars, routerVars>>

ThreadDies == /\ io = "exiting" /\ io' = "ended"
              /\ UNCHANGED <<clientVars, serviceVars, box, cq, cur, stopEv, stopping,
                             dealer, opened, netVars, routerVars>>

-----------------------------------------------------------------------------
(* stop() on the client: raise the flags, join, and only then forget the    *)
(* thread.  A join that times out raises and leaves _client_stopping set.   *)

StopClient == /\ Alive /\ ~stopping
              /\ stopping' = TRUE /\ stopEv' = TRUE
              /\ cq' = Append(cq, STOP)
              /\ UNCHANGED <<clientVars, serviceVars, box, io, cur, dealer, opened,
                             netVars, routerVars>>

ClientStopped == /\ stopping /\ io = "ended"
                 /\ io' = "none" /\ stopping' = FALSE /\ stopEv' = FALSE
                 /\ cq' = <<>>
                 /\ UNCHANGED <<clientVars, serviceVars, box, cur, dealer, opened,
                                netVars, routerVars>>

-----------------------------------------------------------------------------
(* The server *)

\* _receive_request + deliver on the thread that owns the ROUTER.
RouterReceive ==
    /\ srv = "up" /\ work[rx] = Free
    /\ rx = "listener" => respq = <<>>
    /\ \E m \in wire : /\ wire' = wire \ {m}
                       /\ ident' = [ident EXCEPT ![m[2]] = m[1]]
                       /\ Accept(rx, m[2])
    /\ UNCHANGED <<clientVars, srv, stops, runs, box, ioVars, back, respq, rx>>

\* A reply to an identity whose DEALER is closed is dropped by the ROUTER.
Delivered(m) == IF m[1] = dealer THEN back \cup {m} ELSE back

\* Mutant: a reply produced by the tick is not handed to the router thread.
ZPublishOwnThreadOnly(w) ==
    LET c == work[w].call IN
    /\ work[w].at = "publish"
    /\ work' = [work EXCEPT ![w] = Free]
    /\ ident' = [ident EXCEPT ![c] = 0]
    /\ back' = IF w = rx /\ ident[c] # 0 THEN Delivered(<<ident[c], c>>) ELSE back
    /\ UNCHANGED <<clientVars, srv, stops, pending, runs, reply, box, ioVars, wire,
                   respq, rx>>

\* send_response: the peer's identity is used once; another thread's reply
\* waits for the router thread.
ZPublish(w) ==
    LET c == work[w].call IN
    /\ work[w].at = "publish"
    /\ work' = [work EXCEPT ![w] = Free]
    /\ \/ /\ srv = "down" \/ ident[c] = 0
          /\ UNCHANGED <<back, ident, respq>>
       \/ /\ srv # "down" /\ ident[c] # 0
          /\ ident' = [ident EXCEPT ![c] = 0]
          /\ \/ /\ w = rx /\ back' = Delivered(<<ident[c], c>>)
                /\ UNCHANGED respq
             \/ /\ w # rx /\ respq' = Append(respq, <<ident[c], c>>)
                /\ UNCHANGED back
    /\ UNCHANGED <<clientVars, srv, stops, pending, runs, reply, box, ioVars, wire, rx>>

FlushResponses == /\ srv = "up" /\ work[rx] = Free /\ respq # <<>>
                  /\ back' = Delivered(Head(respq))
                  /\ respq' = Tail(respq)
                  /\ UNCHANGED <<clientVars, serviceVars, box, ioVars, wire, ident, rx>>

\* The loop sees _running cleared and closes its ROUTER; requests it had not
\* read, and replies it had not sent, are gone.
RouterCloses == /\ srv = "stopping" /\ work[rx] = Free /\ work["tick"] = Free
                /\ srv' = "down"
                /\ wire' \in SUBSET wire
                /\ ident' = [c \in Calls |-> 0] /\ respq' = <<>>
                /\ UNCHANGED <<clientVars, stops, pending, work, runs, reply,
                               box, ioVars, back, rx>>

\* A new service binds the configured address: only when no ROUTER holds it.
ZStart == StartService /\ UNCHANGED zmqVars
ZStop == StopService /\ UNCHANGED zmqVars

ZHandle(w) == Handle(w, ZmqDated) /\ UNCHANGED zmqVars

ZmqNext ==
    \/ \E c \in Calls : \/ ZSend(c) \/ ZCallerWakes(c)
                        \/ (Expire(c) /\ UNCHANGED zmqVars)
    \/ Dequeue \/ WireSend \/ AbortExchange \/ Receive \/ LeaveLoop
    \/ FailQueued \/ ThreadDies \/ StopClient \/ ClientStopped
    \/ RouterReceive \/ FlushResponses \/ RouterCloses
    \/ \E w \in {"listener", "tick"} : ZHandle(w) \/ ZPublish(w)
    \/ ZStart \/ ZStop \/ (DrainPending /\ UNCHANGED zmqVars)

-----------------------------------------------------------------------------
(* Properties *)

\* Every request or reply in flight on the identity of the open DEALER, on
\* the wire, in the server, or on its way back, belongs to the exchange under
\* way: an abandoned exchange leaves nothing a later one could take for its
\* own (_exchange_client_call resets the DEALER on every way out but success).
OnDealer(c) == \/ <<dealer, c>> \in wire \cup back
               \/ ident[c] = dealer
               \/ \E i \in 1..Len(respq) : respq[i] = <<dealer, c>>

LiveDealerClean == dealer # 0 => \A c \in Calls : OnDealer(c) => c = cur

\* A call is never left in the queue of an I/O thread that will not look at it
\* again (_enqueue_client_call against stop(), under the client state lock).
NoOrphanCall == ~Alive => \A c \in Calls : cq # <<c>> /\ \A i \in 1..Len(cq) : cq[i] # c

\* While the client and the service stay up and the deadline has not passed,
\* a call that reached the queue is answered: nothing it waits for can be lost.
Served(c) == caller[c] = "waiting"
                 ~> (caller[c] # "waiting" \/ late[c] \/ stops > 0 \/ stopping)
=============================================================================
