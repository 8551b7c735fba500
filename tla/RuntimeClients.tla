----------------------------- MODULE RuntimeClients -----------------------------
(***************************************************************************)
(* The RPC clients a native runtime owns (bigqmt.py).  Connecting builds   *)
(* the main client and its transport (the ping does); the first short      *)
(* minute read builds a second client, whose transport is built by its     *)
(* first call, outside the lock that close() takes (rpc_client.py).        *)
(* Minute reads run one at a time on their own lane, hold a runtime they   *)
(* looked up before, and may be overtaken by its close.                    *)
(*                                                                         *)
(* The main client's quote listener is a thread that the first callback    *)
(* registered with the client starts, that ends at its first exception     *)
(* and is started again only by a later registration.  The realtime hub    *)
(* subscribes from the event loop, one call at a time.                     *)
(*                                                                         *)
(* Abstracted: the quotes and their codes; the wait for a listener that    *)
(* was told to stop lasts until it has (it looks every 250 ms).  The       *)
(* formula router is left out.                                             *)
(***************************************************************************)
EXTENDS Naturals, FiniteSets

CONSTANTS Reads,      \* minute reads
          MaxRuntimes \* runtimes a behaviour may build

NoRead    == "nobody"
NoRuntime == 0
Runtimes  == 1..MaxRuntimes
Lanes     == {"main", "minute"}

ASSUME ClientsAssumption == MaxRuntimes \in Nat /\ NoRead \notin Reads

VARIABLES
  stage,     \* each runtime: none, connecting, open, closing, stopping, closed
  current,   \* the module's _runtime
  built,     \* clients that exist: runtime and lane
  transport, \* transports built for each client
  live,      \* those that were not stopped
  bound,     \* clients with a failure callback
  reports,   \* runtimes whose _transport_failure_callback is set
  reading,   \* each minute read: [at, of]
  minuteLane, \* the read that holds the minute lane
  overtook,  \* clients whose read was under way when they were closed
  listener,  \* of each main client: [thread, wanted, callback, failed, late]
  asking     \* the hub's subscription under way: [at, of]

clientVars == <<stage, current, built, transport, live, bound, reports, reading, minuteLane,
                overtook, listener, asking>>

Idle == [at |-> "idle", of |-> NoRuntime]

\* wanted is _quote_event_running, callback that one is registered; failed says
\* that the last thread ended by itself, late that it was started during or
\* after the close.
Silent == [thread |-> "none", wanted |-> FALSE, callback |-> FALSE, failed |-> FALSE,
           late |-> FALSE]
Listening  == {"running", "failing"}

ClientsInit ==
  /\ stage = [r \in Runtimes |-> "none"]
  /\ current = NoRuntime
  /\ built = {} /\ live = {} /\ bound = {} /\ reports = {} /\ overtook = {}
  /\ transport = [c \in Runtimes \X Lanes |-> 0]
  /\ reading = [q \in Reads |-> Idle]
  /\ minuteLane = NoRead
  /\ listener = [r \in Runtimes |-> Silent]
  /\ asking = Idle

owners  == <<stage, current>>
clients == <<built, transport, live>>
failure == <<bound, reports>>
reads   == <<reading, minuteLane, overtook>>
quotes  == <<listener, asking>>

BuildsTransport(c) ==
  /\ transport' = [transport EXCEPT ![c] = @ + 1]
  /\ live' = live \cup {<<c, transport[c] + 1>>}

-----------------------------------------------------------------------------
(* The controller's thread.                                                *)

\* initialize_bigqmt_runtime: one runtime connects at a time.
ConnectClient(r) ==
  /\ stage[r] = "none" /\ \A s \in Runtimes : stage[s] # "connecting"
  /\ stage' = [stage EXCEPT ![r] = "connecting"]
  /\ built' = built \cup {<<r, "main">>}
  /\ BuildsTransport(<<r, "main">>)
  /\ UNCHANGED <<current, failure, reads, quotes>>

\* The ping failed: the runtime is closed before anyone saw it.
ConnectFails(r) ==
  /\ stage[r] = "connecting"
  /\ stage' = [stage EXCEPT ![r] = "closing"]
  /\ UNCHANGED <<current, clients, failure, reads, quotes>>

\* It becomes the module's runtime; the one it replaces is closed next.
PublishRuntime(r) ==
  /\ stage[r] = "connecting"
  /\ current' = r
  /\ stage' = [s \in Runtimes |-> IF s = r THEN "open"
                                 ELSE IF s = current THEN "closing" ELSE stage[s]]
  /\ UNCHANGED <<clients, failure, reads, quotes>>

\* set_transport_failure_callback: the field, then the clients that exist.
BindRuntime(r) ==
  /\ stage[r] = "open" /\ r \notin reports
  /\ reports' = reports \cup {r}
  /\ bound' = bound \cup {c \in built : c[1] = r}
  /\ UNCHANGED <<owners, clients, reads, quotes>>

\* discard_bigqmt_runtime and reset_bigqmt_runtime.
Discard(r) ==
  /\ current = r
  /\ current' = NoRuntime
  /\ stage' = [stage EXCEPT ![r] = "closing"]
  /\ UNCHANGED <<clients, failure, reads, quotes>>

Busy(r) == \E q \in Reads : reading[q].of = r /\ reading[q].at \in {"client", "building"}

\* Mutant: close() knows the main client only.
CloseMainOnly(r) ==
  /\ stage[r] = "closing"
  /\ \A q \in Reads : reading[q] # [at |-> "binding", of |-> r]
  /\ stage' = [stage EXCEPT ![r] = "stopping"]
  /\ bound' = bound \ {<<r, "main">>}
  /\ listener' = [listener EXCEPT ![r].wanted = FALSE]
  /\ UNCHANGED <<current, clients, reports, reads, asking>>

\* close(), which holds the minute client's lock to its end: callbacks off, the
\* minute client's transport stopped, if it has one, and the main client's
\* listener told to stop ...
CloseMinute(r) ==
  /\ stage[r] = "closing"
  /\ \A q \in Reads : reading[q] # [at |-> "binding", of |-> r]
  /\ stage' = [stage EXCEPT ![r] = "stopping"]
  /\ bound' = {c \in bound : c[1] # r}
  /\ live' = {t \in live : t[1] # <<r, "minute">>}
  /\ overtook' = IF Busy(r) THEN overtook \cup {<<r, "minute">>} ELSE overtook
  /\ listener' = [listener EXCEPT ![r].wanted = FALSE]
  /\ UNCHANGED <<current, built, transport, reports, reading, minuteLane, asking>>

\* ... and, once it has, the main client's transport.
CloseMain(r) ==
  /\ stage[r] = "stopping" /\ listener[r].thread \notin Listening
  /\ stage' = [stage EXCEPT ![r] = "closed"]
  /\ live' = {t \in live : t[1] # <<r, "main">>}
  /\ reports' = reports \ {r}
  /\ UNCHANGED <<current, built, transport, bound, reads, quotes>>

-----------------------------------------------------------------------------
(* Minute reads.                                                           *)

ReadAt(q, at, r) == reading' = [reading EXCEPT ![q] = [at |-> at, of |-> r]]

\* The minute lane's lock, held over the whole read.
EnterMinute(q) ==
  /\ reading[q] = Idle /\ minuteLane = NoRead
  /\ ReadAt(q, "entered", NoRuntime) /\ minuteLane' = q
  /\ UNCHANGED <<owners, clients, failure, overtook, quotes>>

\* market_data's lookup; without a runtime the read fails.
LookUpRuntime(q) ==
  /\ reading[q].at = "entered" /\ current # NoRuntime
  /\ ReadAt(q, "runtime", current)
  /\ UNCHANGED <<owners, clients, failure, minuteLane, overtook, quotes>>

\* minute_data_client, under its lock: a closed runtime has no client any more;
\* a new client is given the failure callback of the moment ...
MinuteClient(q) ==
  LET r == reading[q].of IN
  /\ reading[q].at = "runtime"
  /\ stage[r] \notin {"stopping", "closed"}
  /\ IF <<r, "minute">> \in built
     THEN ReadAt(q, "client", r) /\ UNCHANGED built
     ELSE ReadAt(q, "binding", r) /\ built' = built \cup {<<r, "minute">>}
  /\ UNCHANGED <<owners, transport, live, failure, minuteLane, overtook, quotes>>

\* ... before the lock is released.
BindMinute(q) ==
  LET r == reading[q].of IN
  /\ reading[q].at = "binding"
  /\ bound' = IF r \in reports THEN bound \cup {<<r, "minute">>} ELSE bound
  /\ ReadAt(q, "client", r)
  /\ UNCHANGED <<owners, clients, reports, minuteLane, overtook, quotes>>

\* BigQmtRpcClient._transport: built when there is none, without a lock.
CheckTransport(q) ==
  /\ reading[q].at = "client" /\ transport[<<reading[q].of, "minute">>] = 0
  /\ ReadAt(q, "building", reading[q].of)
  /\ UNCHANGED <<owners, clients, failure, minuteLane, overtook, quotes>>

BuildTransport(q) ==
  /\ reading[q].at = "building"
  /\ BuildsTransport(<<reading[q].of, "minute">>)
  /\ ReadAt(q, "client", reading[q].of)
  /\ UNCHANGED <<owners, built, failure, minuteLane, overtook, quotes>>

\* The read ends at any point, with rows or an error.
LeaveMinute(q) ==
  /\ reading[q].at \in {"entered", "runtime", "client"}
  /\ reading' = [reading EXCEPT ![q] = Idle]
  /\ minuteLane' = IF minuteLane = q THEN NoRead ELSE minuteLane
  /\ UNCHANGED <<owners, clients, failure, overtook, quotes>>

-----------------------------------------------------------------------------
(* The realtime hub and the listener.                                      *)

\* The hub needs a native subscription and looks the runtime up ...
AskQuotes ==
  /\ asking = Idle /\ current # NoRuntime /\ ~listener[current].callback
  /\ asking' = [at |-> "call", of |-> current]
  /\ UNCHANGED <<owners, clients, failure, reads, listener>>

\* ... asks the strategy over RPC, which no closed client can ...
QuoteSequence ==
  /\ asking.at = "call" /\ stage[asking.of] # "closed"
  /\ asking' = [asking EXCEPT !.at = "sequence"]
  /\ UNCHANGED <<owners, clients, failure, reads, listener>>

QuotesRefused ==
  /\ asking.at = "call" /\ asking' = Idle
  /\ UNCHANGED <<owners, clients, failure, reads, listener>>

\* ... and registers its callback.  A thread that is alive, failing or told to
\* stop though it may be, is taken for a listener.
RegisterCallback ==
  /\ asking.at = "sequence"
  /\ listener' = [listener EXCEPT ![asking.of].callback = TRUE]
  /\ asking' = IF listener[asking.of].thread \in Listening THEN Idle
               ELSE [asking EXCEPT !.at = "starting"]
  /\ UNCHANGED <<owners, clients, failure, reads>>

StartListener ==
  LET r == asking.of IN
  /\ asking.at = "starting"
  /\ listener' = [listener EXCEPT ![r] =
                    [@ EXCEPT !.thread = "running", !.wanted = TRUE, !.failed = FALSE,
                              !.late = stage[r] \in {"stopping", "closed"}]]
  /\ asking' = Idle
  /\ UNCHANGED <<owners, clients, failure, reads>>

\* unsubscribe_quote, on the runtime of the moment.
DropCallback ==
  /\ asking = Idle /\ current # NoRuntime /\ listener[current].callback
  /\ listener' = [listener EXCEPT ![current].callback = FALSE]
  /\ UNCHANGED <<owners, clients, failure, reads, asking>>

\* The loop ends when it is no longer wanted, or at the first message it cannot
\* read or socket it cannot open; then it still closes its socket.
ListenerEnds(r) ==
  /\ \/ /\ listener[r].thread = "running"
        /\ \/ ~listener[r].wanted /\ listener' = [listener EXCEPT ![r].thread = "none"]
           \/ listener' = [listener EXCEPT ![r] = [@ EXCEPT !.thread = "failing", !.failed = TRUE]]
     \/ /\ listener[r].thread = "failing"
        /\ listener' = [listener EXCEPT ![r].thread = "none"]
  /\ UNCHANGED <<owners, clients, failure, reads, asking>>

ClientsNext ==
  \/ \E r \in Runtimes : \/ ConnectClient(r) \/ ConnectFails(r) \/ PublishRuntime(r)
                         \/ BindRuntime(r) \/ Discard(r) \/ CloseMinute(r) \/ CloseMain(r)
                         \/ ListenerEnds(r)
  \/ \E q \in Reads : \/ EnterMinute(q) \/ LookUpRuntime(q) \/ MinuteClient(q) \/ BindMinute(q)
                      \/ CheckTransport(q) \/ BuildTransport(q) \/ LeaveMinute(q)
  \/ AskQuotes \/ QuoteSequence \/ QuotesRefused \/ RegisterCallback \/ StartListener
  \/ DropCallback

-----------------------------------------------------------------------------
\* No client ever has a second transport (the first would be lost, open), a
\* closed runtime reports no failure, and what it leaves open is at most the
\* transport a minute read that held its client when it closed builds later,
\* and the listener of a subscription that the close overtook.  Until then a
\* registered callback has a listener, unless that ended by itself.
ClosedIsQuiet ==
  /\ \A c \in Runtimes \X Lanes : transport[c] <= 1
  /\ \A r \in Runtimes : stage[r] = "closed" =>
       /\ \A c \in bound : c[1] # r
       /\ \A t \in live : t[1][1] = r => t[1] \in overtook
       /\ listener[r].thread \in Listening => listener[r].late
  /\ \A r \in Runtimes : stage[r] \in {"open", "closing"} /\ listener[r].callback =>
       \/ listener[r].thread = "running" \/ listener[r].failed
       \/ asking = [at |-> "starting", of |-> r]

=============================================================================
