-------------------------- MODULE OrderSubmission --------------------------
(***************************************************************************)
(* Placing an order over HTTP: the bridge's precheck, submission and       *)
(* reconciliation by client_submit_id (routers/trading.py), the RPC with   *)
(* its deadline, and the single-threaded handler of the embedded strategy  *)
(* with its in-memory submit journal (redis_rpc.py).  A retry is another   *)
(* call with the same client_submit_id.  An order is named by the call     *)
(* whose passorder placed it.                                              *)
(***************************************************************************)
EXTENDS Naturals, Sequences

CONSTANTS
  Calls,          \* HTTP calls of /api/trading/order
  Ids,            \* client_submit_ids
  Deals, Volumes, Prices, PriceTypes, Names,  \* stock and side; strategy names
  NoCall,
  MaxRestarts,    \* bound on restarts of the embedded strategy
  UnjournaledLag  \* an order the journal lost may still be invisible to queries

ASSUME SubmissionAssumption ==
  /\ NoCall \notin Calls
  /\ MaxRestarts \in Nat
  /\ UnjournaledLag \in BOOLEAN

\* A price of 0 is none: the code's default.
Terms == [deal : Deals, volume : Volumes, price : Prices, priceType : PriceTypes,
          strategy : Names]

VARIABLES
  asked,     \* identity and terms of each call
  http,      \* where the bridge is with a call, or what it answered
  late,      \* calls whose RPC deadline has passed
  pending,   \* submit_order requests in the strategy's queue
  serving,   \* the request the strategy is executing
  phase,     \* idle, lookup, native or poll
  response,  \* RPC response on its way to the bridge
  recorded,  \* _submit_journal, by the call that wrote the entry
  known,     \* journal entries with an order_sys_id
  issued,    \* calls whose passorder was called
  orders,    \* of these, the ones that reached the broker
  visible,   \* of these, the ones the broker's queries show
  bare,      \* of these, the ones that only their deals tell of
  restarts

server == <<pending, serving, phase, recorded, known>>
broker == <<issued, orders, visible, bare>>
vars == <<asked, http, late, server, response, broker, restarts>>

Busy    == {"idle", "prechecked", "waiting", "reconciling"}
Answers == {"submitted", "submit_unknown", "not_submitted", "conflict",
            "refused", "not_started", "error"}

TypeOK ==
  /\ asked \in [Calls -> [id : Ids, terms : Terms]]
  /\ http \in [Calls -> Busy \union Answers]
  /\ late \subseteq Calls
  /\ pending \in Seq(Calls)
  /\ serving \in Calls \union {NoCall}
  /\ phase \in {"idle", "lookup", "native", "poll"}
  /\ serving = NoCall <=> phase = "idle"
  /\ response \in [Calls -> {"none", "confirmed", "unconfirmed", "failed", "rejected"}]
  /\ known \subseteq recorded /\ recorded \subseteq issued
  /\ bare \subseteq visible /\ visible \subseteq orders /\ orders \subseteq issued /\ issued \subseteq Calls
  /\ restarts \in 0 .. MaxRestarts

Init ==
  /\ asked \in [Calls -> [id : Ids, terms : Terms]]
  /\ http = [c \in Calls |-> "idle"]
  /\ late = {} /\ pending = <<>>
  /\ serving = NoCall /\ phase = "idle"
  /\ response = [c \in Calls |-> "none"]
  /\ recorded = {} /\ known = {}
  /\ issued = {} /\ orders = {} /\ visible = {} /\ bare = {}
  /\ restarts = 0

SameId(c, d) == asked[c].id = asked[d].id
Same(c, d)   == asked[c] = asked[d]

SamePrice(x, y) == x = y \/ x = 0 \/ y = 0

\* The fields of the broker's row are compared with the call, and a deal has no
\* more than stock and side.  The price type is not compared.
Fits(o, c) ==
  LET t == asked[o].terms  u == asked[c].terms
  IN /\ t.deal = u.deal
     /\ o \notin bare => t.volume = u.volume /\ SamePrice(t.price, u.price)

\* A row need not name a strategy; this is where it does.
NamesOther(o, c) == o \notin bare /\ asked[o].terms.strategy # asked[c].terms.strategy

\* What the broker knows under the identity of c.
Found(c) == {o \in visible : SameId(o, c)}

----------------------------------------------------------------------------
(* The bridge *)

Answer(c, a) == http' = [http EXCEPT ![c] = a]

\* _reconciled_order_payload: a row that contradicts no term and has an order id
\* answers the call; one that contradicts a term is a conflict.
Reconciled(c, found, otherwise) ==
  \E named \in SUBSET found, numbered \in SUBSET found :
    LET fitting == {o \in found : Fits(o, c) /\ ~(o \in named /\ NamesOther(o, c))}
    IN \/ fitting \cap numbered # {} /\ Answer(c, "submitted")
       \/ fitting \cap numbered = {} /\ fitting # found /\ Answer(c, "conflict")
       \/ fitting \cap numbered = {} /\ fitting = found /\ Answer(c, otherwise)

\* query_orders has no deals, swallows a failing native query and filters by
\* strategy: it may find nothing.  An OVERLOADED or DEADLINE_EXCEEDED query escapes to app.py's
\* handler, which answers execution_started: false; any other RPC error is a 500.
QueryAndReconcile(c, otherwise) ==
  \/ \E found \in {Found(c) \ bare, {}} : Reconciled(c, found, otherwise)
  \/ Answer(c, "not_started")
  \/ Answer(c, "error")

Precheck(c) ==
  /\ http[c] = "idle"
  /\ QueryAndReconcile(c, "prechecked") \/ Answer(c, "not_submitted")
  /\ UNCHANGED <<asked, late, server, response, broker, restarts>>

\* manager.order: the write gate, then the RPC.  The strategy queues the
\* request, refuses it because the queue is full, or never gets it.
Send(c) ==
  /\ http[c] = "prechecked"
  /\ \/ Answer(c, "refused") /\ UNCHANGED <<pending, response>>
     \/ /\ Answer(c, "waiting")
        /\ \/ pending' = Append(pending, c) /\ UNCHANGED response
           \/ response' = [response EXCEPT ![c] = "rejected"] /\ UNCHANGED pending
           \/ UNCHANGED <<pending, response>>
  /\ UNCHANGED <<asked, late, serving, phase, recorded, known, broker, restarts>>

\* A receipt without order_sys_id is returned as the whole dict, which counts as
\* a broker order id.  A failure is a RuntimeError or, from a handler that raised
\* OSError or TimeoutError, a transport error.
Receive(c) ==
  /\ http[c] = "waiting"
  /\ \/ response[c] \in {"confirmed", "unconfirmed"} /\ Answer(c, "submitted")
     \/ response[c] = "failed" /\ (Answer(c, "error") \/ Answer(c, "reconciling"))
     \/ response[c] = "rejected" /\ Answer(c, "not_started")
  /\ UNCHANGED <<asked, late, server, response, broker, restarts>>

Queued(c) == \E i \in 1 .. Len(pending) : pending[i] = c

\* Mutant: the strategy has a deadline for the request, its caller has none.
DeadlineOfQueued(c) ==
  /\ Queued(c) /\ c \notin late
  /\ late' = late \union {c}
  /\ UNCHANGED <<asked, http, server, response, broker, restarts>>

DeadlinePasses(c) ==
  /\ http[c] = "waiting" \/ Queued(c)
  /\ c \notin late
  /\ late' = late \union {c}
  /\ UNCHANGED <<asked, http, server, response, broker, restarts>>

TimesOut(c) ==
  /\ http[c] = "waiting" /\ c \in late
  /\ Answer(c, "reconciling")
  /\ UNCHANGED <<asked, late, server, response, broker, restarts>>

\* A TransportError of the exchange is a RuntimeError, which nothing catches.
ExchangeFails(c) ==
  /\ http[c] = "waiting"
  /\ Answer(c, "error")
  /\ UNCHANGED <<asked, late, server, response, broker, restarts>>

\* A transport error of this query is the same as finding nothing.
Reconcile(c) ==
  /\ http[c] = "reconciling"
  /\ QueryAndReconcile(c, "submit_unknown")
  /\ UNCHANGED <<asked, late, server, response, broker, restarts>>

Bridge(c) ==
  \/ Precheck(c) \/ Send(c) \/ Receive(c)
  \/ DeadlinePasses(c) \/ TimesOut(c) \/ ExchangeFails(c) \/ Reconcile(c)

----------------------------------------------------------------------------
(* The strategy *)

Recorded(c) == {j \in recorded : SameId(j, c)}

\* _publish_response; the handler is free for the next request.
Respond(c, r) ==
  /\ response' = [response EXCEPT ![c] = r]
  /\ serving' = NoCall /\ phase' = "idle"

GoOn(c, p) ==
  /\ serving' = c /\ phase' = p
  /\ UNCHANGED response

\* Mutant: a queued request is executed whatever its deadline.
StartLate(c) == c \in late /\ GoOn(c, "lookup")

\* process_request: a request whose deadline has passed is not executed.
StartExpired(c) == c \in late /\ Respond(c, "rejected")

\* The gates and the validation of the request, then the journal.
StartJournal(c) ==
  /\ c \notin late
  /\ \/ Respond(c, "failed")
     \/ (\E j \in Recorded(c) : Same(j, c) /\ j \in known) /\ Respond(c, "confirmed")
     \/ (\A j \in Recorded(c) : Same(j, c) /\ j \notin known) /\ GoOn(c, "lookup")

Start ==
  /\ phase = "idle" /\ pending # <<>>
  /\ pending' = Tail(pending)
  /\ StartExpired(Head(pending)) \/ StartJournal(Head(pending))
  /\ UNCHANGED <<asked, http, late, recorded, known, broker, restarts>>

\* Mutant: the order found is not compared with the request.
SettleAnyTerms(c) ==
  Found(c) # {} /\ Respond(c, "confirmed") /\ known' = known \union Recorded(c)

\* _validate_known_order and _known_submit_result: the journal learns the order's
\* id, which may still be empty.
Settle(c) ==
  \E o \in Found(c) :
    \/ /\ ~Fits(o, c) \/ NamesOther(o, c)
       /\ Respond(c, "failed") /\ UNCHANGED known
    \/ /\ Fits(o, c) /\ Respond(c, "confirmed")
       /\ known' = known \/ known' = known \union Recorded(c)

\* The strict lookup before passorder.  It is required: when it fails, so does
\* the request.
Lookup ==
  /\ phase = "lookup"
  /\ \/ Respond(serving, "failed") /\ UNCHANGED known
     \/ Settle(serving)
     \/ /\ Found(serving) = {} /\ UNCHANGED known
        /\ GoOn(serving, IF Recorded(serving) = {} THEN "native" ELSE "poll")
  /\ UNCHANGED <<asked, http, late, pending, recorded, broker, restarts>>

\* Mutant: the journal is written when the order is confirmed.
PassorderUnrecorded ==
  /\ orders' = orders \/ orders' = orders \union {serving}
  /\ GoOn(serving, "poll") /\ UNCHANGED <<visible, bare, recorded>>

\* passorder is asynchronous: having returned it may still not reach the broker.
PassorderReturns ==
  /\ orders' = orders \/ orders' = orders \union {serving}
  /\ recorded' = recorded \union {serving}
  /\ GoOn(serving, "poll") /\ UNCHANGED <<visible, bare>>

\* It may have placed the order before it raised; the journal has no entry.
PassorderRaises ==
  /\ \/ UNCHANGED <<orders, visible>>
     \/ /\ orders' = orders \union {serving}
        /\ visible' = IF UnjournaledLag THEN visible ELSE visible \union {serving}
  /\ bare' = bare \/ bare' = bare \union (visible' \ visible)
  /\ Respond(serving, "failed") /\ UNCHANGED recorded

Native ==
  /\ phase = "native"
  /\ issued' = issued \union {serving}
  /\ PassorderReturns \/ PassorderRaises
  /\ UNCHANGED <<asked, http, late, pending, known, restarts>>

\* Three lookups: a failing one counts as not having found the order.
Poll ==
  /\ phase = "poll"
  /\ Settle(serving) \/ (Respond(serving, "unconfirmed") /\ UNCHANGED known)
  /\ UNCHANGED <<asked, http, late, pending, recorded, broker, restarts>>

\* The journal, the queue and the request in hand die with the process.
Restart ==
  /\ restarts < MaxRestarts /\ restarts' = restarts + 1
  /\ UnjournaledLag \/ orders \subseteq visible
  /\ pending' = <<>> /\ serving' = NoCall /\ phase' = "idle"
  /\ recorded' = {} /\ known' = {}
  /\ UNCHANGED <<asked, http, late, response, broker>>

\* The broker's queries show the order, as a row of its own or by its deals.
Appear(o) ==
  /\ o \in orders \ visible
  /\ visible' = visible \union {o}
  /\ bare' = bare \/ bare' = bare \union {o}
  /\ UNCHANGED <<asked, http, late, server, response, issued, orders, restarts>>

Strategy == Start \/ Lookup \/ Native \/ Poll \/ Restart

Next == (\E c \in Calls : Bridge(c) \/ Appear(c)) \/ Strategy

Spec == Init /\ [][Next]_vars

\* The threads of the bridge and its clock go on; the strategy need not.
Fairness ==
  \A c \in Calls :
    /\ WF_vars(Send(c)) /\ WF_vars(DeadlinePasses(c))
    /\ WF_vars(TimesOut(c)) /\ WF_vars(Reconcile(c))

----------------------------------------------------------------------------
\* However often a client_submit_id is retried, across timeouts, restarts and
\* raised calls, at most one order of it reaches the broker.
AtMostOneOrder == \A c, d \in orders : SameId(c, d) => c = d

\* The broker knows an order under the identity of the call, and what it tells of
\* the order contradicts no term of the call.
Matches(o, c) == o \in visible /\ SameId(o, c) /\ Fits(o, c)

\* "submitted" is answered for an order placed on the call's own terms or, on the
\* strength of what the broker tells, for one that contradicts none of them.
SubmittedWasIssued ==
  \A c \in Calls : http[c] = "submitted" => \E d \in issued : Same(d, c) \/ Matches(d, c)

\* What the API's page promises of a client_submit_id that is used again, that other
\* parameters are a conflict: no run lists it, TLC refutes it.
SubmittedIsExact ==
  \A c \in Calls : http[c] = "submitted" => \E d \in issued : Same(d, c)

\* A request still queued when its caller's deadline passed never reaches
\* passorder.
AbandonedNeverRuns ==
  \A c \in Calls : []((c \in late /\ Queued(c)) => [](c \notin issued))

\* A call that got past the precheck is answered, whatever the strategy does.
EveryCallAnswered ==
  \A c \in Calls : http[c] = "prechecked" ~> http[c] \in Answers

\* docs: "submitted" means confirmed by a receipt or a query.
SubmittedIsConfirmed ==
  \A c \in Calls : http[c] = "submitted" => \E o \in visible : Matches(o, c)

\* execution_started: false is only answered for a request that never reached
\* passorder.
NotStartedIsTrue ==
  \A c \in Calls : http[c] = "not_started" => c \notin issued

=============================================================================
