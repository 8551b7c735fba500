----------------------------- MODULE RpcService -----------------------------
(***************************************************************************)
(* BigQmtRedisRpcService (bigqmt_signal_trader/redis_rpc.py): the part of  *)
(* the server that no transport owns.  A receiving thread hands each       *)
(* decoded request to enqueue_payload, which runs it at once (a method the *)
(* listener may serve), defers it to the QMT tick through a bounded queue, *)
(* or refuses it as OVERLOADED.  process_request drops a request whose     *)
(* absolute deadline has passed, runs the handler, and publishes.          *)
(*                                                                         *)
(* Handling and publishing are two program points of one thread: between   *)
(* them the caller may give up or the service may be told to stop.         *)
(***************************************************************************)
EXTENDS Naturals, Sequences

CONSTANTS Calls,       \* calls a client may make, each once
          QueueLimit,  \* max_queue_size of the deferred queue
          MaxStops,    \* bound: how often the service is stopped
          None

\* The bodies of a response.
Bodies == {"result", "expired", "overloaded", "rejected"}

ASSUME ServiceConstants == /\ QueueLimit \in Nat \ {0}
                           /\ MaxStops \in Nat
                           /\ None \notin Calls \cup Bodies

VARIABLES caller,   \* [Calls -> {"idle", "waiting", "answered", "failed"}]
          late,     \* [Calls -> BOOLEAN]: the deadline has passed
          got,      \* [Calls -> response \cup {None}]: what the caller received
          srv,      \* "down", "up", "stopping": the service and its threads
          stops,    \* how often it was told to stop
          pending,  \* service.pending, the deferred requests
          work,     \* [Workers -> job]: what each server thread is doing
          runs,     \* [Calls -> Nat]: handler executions
          reply     \* [Calls -> body \cup {None}]: the response produced

clientVars == <<caller, late, got>>
serviceVars == <<srv, stops, pending, work, runs, reply>>

\* The transport's receiving threads, a second server on the same database,
\* and the QMT tick (handlebar / timer) that drains the deferred queue.
Workers == {"listener", "queue", "peer", "tick"}
Free == [call |-> None, at |-> "idle"]
Job(c, at) == [call |-> c, at |-> at]

ServiceType ==
    /\ caller \in [Calls -> {"idle", "waiting", "answered", "failed"}]
    /\ late \in [Calls -> BOOLEAN]
    /\ got \in [Calls -> [id : Calls, body : Bodies] \cup {None}]
    /\ srv \in {"down", "up", "stopping"}
    /\ stops \in 0..MaxStops
    /\ pending \in Seq(Calls) /\ Len(pending) <= QueueLimit
    /\ work \in [Workers -> [call : Calls \cup {None},
                             at : {"idle", "check", "publish"}]]
    /\ runs \in [Calls -> Nat]
    /\ reply \in [Calls -> Bodies \cup {None}]

ServiceInit ==
    /\ caller = [c \in Calls |-> "idle"]
    /\ late = [c \in Calls |-> FALSE]
    /\ got = [c \in Calls |-> None]
    /\ srv = "down" /\ stops = 0
    /\ pending = <<>>
    /\ work = [w \in Workers |-> Free]
    /\ runs = [c \in Calls |-> 0]
    /\ reply = [c \in Calls |-> None]

\* enqueue_payload on worker w.  A method of listener_methods runs at once, any
\* other is deferred, or OVERLOADED when the queue is full.  The peer server
\* is configured to serve everything in its listener.
Accept(w, c) ==
    \/ /\ work' = [work EXCEPT ![w] = Job(c, "check")]
       /\ UNCHANGED <<pending, reply>>
    \/ /\ w # "peer" /\ Len(pending) < QueueLimit
       /\ pending' = Append(pending, c)
       /\ UNCHANGED <<work, reply>>
    \/ /\ w # "peer" /\ Len(pending) = QueueLimit
       /\ reply' = [reply EXCEPT ![c] = "overloaded"]
       /\ work' = [work EXCEPT ![w] = Job(c, "publish")]
       /\ UNCHANGED pending

\* drain_pending: the tick takes the oldest deferred request.
DrainPending == /\ srv = "up"
                /\ work["tick"] = Free
                /\ pending # <<>>
                /\ work' = [work EXCEPT !["tick"] = Job(Head(pending), "check")]
                /\ pending' = Tail(pending)
                /\ UNCHANGED <<clientVars, srv, stops, runs, reply>>

\* Mutant: process_request does not look at the deadline.
OutcomesWhenever(c, dated) == {"rejected", "result"}

\* What process_request makes of a request that carries a deadline or not: an
\* overdue one is dropped, one for another account is rejected, and the
\* handler runs for the others (its own exception is a result as well).
Outcomes(c, dated) == IF dated /\ late[c] THEN {"expired"} ELSE {"rejected", "result"}

\* process_request up to _publish_response; `dated' are the calls whose request
\* carries a deadline on this transport.
Handle(w, dated) ==
    LET c == work[w].call IN
    /\ work[w].at = "check"
    /\ \E outcome \in Outcomes(c, c \in dated) :
       /\ reply' = [reply EXCEPT ![c] = outcome]
       /\ runs' = [runs EXCEPT ![c] = IF outcome = "result" THEN @ + 1 ELSE @]
       /\ work' = [work EXCEPT ![w] = Job(c, "publish")]
       /\ UNCHANGED <<clientVars, srv, stops, pending>>

\* start() and stop(): a restarted strategy builds a new service, so what the
\* old one had deferred is gone.
StartService == /\ srv = "down"
                /\ srv' = "up"
                /\ pending' = <<>>
                /\ UNCHANGED <<clientVars, stops, work, runs, reply>>

StopService == /\ srv = "up" /\ stops < MaxStops
               /\ work["tick"] = Free
               /\ srv' = "stopping"
               /\ stops' = stops + 1
               /\ pending' = <<>>
               /\ UNCHANGED <<clientVars, work, runs, reply>>

Expire(c) == /\ ~late[c] /\ caller[c] \in {"waiting", "failed"}
             /\ late' = [late EXCEPT ![c] = TRUE]
             /\ UNCHANGED <<caller, got, serviceVars>>

Ends(c, how) == caller' = [caller EXCEPT ![c] = how]

Answered(c, id) == /\ Ends(c, "answered")
                   /\ got' = [got EXCEPT ![c] = [id |-> id, body |-> reply[id]]]
=============================================================================
