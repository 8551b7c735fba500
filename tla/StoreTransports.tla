-------------------------- MODULE StoreTransports --------------------------
(***************************************************************************)
(* The two transports that pass messages through a store.                  *)
(*                                                                         *)
(* RedisTransport with call_redis_rpc: a request list that a queue thread  *)
(* pops at one end and the tick at the other, a pub/sub channel only a     *)
(* live listener hears, and replies written under a key of the request.    *)
(*                                                                         *)
(* MysqlTransport: request rows that every server selects and then claims  *)
(* one by one, and reply rows the client polls.  Claiming is what keeps    *)
(* two servers of one account from running the same order twice.           *)
(***************************************************************************)
EXTENDS RpcService, SequencesExt

CONSTANT  Undated   \* calls whose request carries no deadline: everything sent
                    \* by send_request; call_redis_rpc adds one

VARIABLES kind,   \* "zmq", "redis", "mysql": what build_transport returned
          list,   \* the redis request list, or the unclaimed mysql rows
          sub,    \* the pub/sub listener is subscribed
          chan,   \* published requests it has not taken
          seen,   \* [Workers -> SUBSET Calls]: rows of its SELECT
          mine,   \* [Workers -> Seq(Calls)]: rows it claimed
          resp    \* [Calls -> BOOLEAN]: a reply is stored

storeVars == <<kind, list, sub, chan, seen, mine, resp>>

StoreDated == IF kind = "redis" THEN Calls \ Undated ELSE {}

StoreType == /\ kind \in {"zmq", "redis", "mysql"}
             /\ list \in Seq(Calls) /\ sub \in BOOLEAN
             /\ chan \subseteq Calls
             /\ seen \in [Workers -> SUBSET Calls]
             /\ mine \in [Workers -> Seq(Calls)]
             /\ resp \in [Calls -> BOOLEAN]

StoreInit == /\ list = <<>> /\ sub = FALSE /\ chan = {}
             /\ seen = [w \in Workers |-> {}]
             /\ mine = [w \in Workers |-> <<>>]
             /\ resp = [c \in Calls |-> FALSE]

Rows == ToSet(list)
BusyRows(w) == seen[w] # {} \/ mine[w] # <<>>

-----------------------------------------------------------------------------
(* The callers *)

\* RPUSH, or (transport="pubsub") PUBLISH: a publication nobody is subscribed
\* to is lost.
RedisSend(c) ==
    /\ kind = "redis" /\ caller[c] = "idle"
    /\ Ends(c, "waiting")
    /\ \/ /\ list' = Append(list, c)
          /\ UNCHANGED chan
       \/ /\ chan' = IF sub THEN chan \cup {c} ELSE chan
          /\ UNCHANGED list
    /\ UNCHANGED <<late, got, serviceVars, kind, sub, seen, mine, resp>>

\* The reply arrives by BLPOP or message, or is found by the final GET: the
\* caller looks once more after its deadline before it gives up.
RedisTakes(c) ==
    /\ kind = "redis" /\ caller[c] = "waiting"
    /\ \/ /\ resp[c] /\ Answered(c, c)
       \/ /\ ~resp[c] /\ late[c] /\ Ends(c, "failed")
          /\ UNCHANGED got
    /\ UNCHANGED <<late, serviceVars, storeVars>>

RedisRoundTrip(c) == RedisSend(c) \/ RedisTakes(c)

\* INSERT of the request row.
MysqlSend(c) == /\ kind = "mysql" /\ caller[c] = "idle"
                /\ Ends(c, "waiting")
                /\ list' = Append(list, c)
                /\ UNCHANGED <<late, got, serviceVars, kind, sub, chan, seen, mine, resp>>

\* The polled reply row is deleted when it is read; after the deadline nobody
\* reads, nor deletes, it.
MysqlTakes(c) ==
    /\ kind = "mysql" /\ caller[c] = "waiting"
    /\ \/ /\ resp[c] /\ ~late[c] /\ Answered(c, c)
          /\ resp' = [resp EXCEPT ![c] = FALSE]
       \/ /\ late[c] /\ Ends(c, "failed")
          /\ UNCHANGED <<got, resp>>
    /\ UNCHANGED <<late, serviceVars, kind, list, sub, chan, seen, mine>>

\* The client's own connection fails while it waits.
SLosesStore(c) == /\ caller[c] = "waiting"
                  /\ Ends(c, "failed")
                  /\ UNCHANGED <<late, got, serviceVars, storeVars>>

\* The request list expires (EXPIRE at every push) with what is in it.
ListExpires == /\ kind = "redis" /\ list # <<>>
               /\ \A c \in Rows : late[c]
               /\ list' = <<>>
               /\ UNCHANGED <<clientVars, serviceVars, kind, sub, chan, seen, mine, resp>>

-----------------------------------------------------------------------------
(* The redis server *)

Subscribe == /\ kind = "redis" /\ srv = "up" /\ ~sub /\ work["listener"] = Free
             /\ sub' = TRUE
             /\ UNCHANGED <<clientVars, serviceVars, kind, list, chan, seen, mine, resp>>

\* Running, a thread hands what it took to the service; a thread that finds
\* _running cleared after the pop drops it.
TakeOrDrop(w, c) == \/ srv = "up" /\ Accept(w, c)
                    \/ srv = "stopping" /\ UNCHANGED <<pending, work, reply>>

ListenerTakes == /\ kind = "redis" /\ sub /\ work["listener"] = Free
                 /\ \E c \in chan : /\ chan' = chan \ {c}
                                    /\ TakeOrDrop("listener", c)
                 /\ UNCHANGED <<clientVars, srv, stops, runs, kind, list, sub, seen,
                                mine, resp>>

\* _queue_loop: BRPOP takes the newest request of the list.
QueuePops == /\ kind = "redis" /\ work["queue"] = Free /\ list # <<>>
             /\ list' = SubSeq(list, 1, Len(list) - 1)
             /\ TakeOrDrop("queue", list[Len(list)])
             /\ UNCHANGED <<clientVars, srv, stops, runs, kind, sub, chan, seen,
                            mine, resp>>

\* drain_request_queue in the tick: LPOP takes the oldest.
TickPops == /\ kind = "redis" /\ srv = "up" /\ work["tick"] = Free /\ list # <<>>
            /\ list' = Tail(list)
            /\ Accept("tick", Head(list))
            /\ UNCHANGED <<clientVars, srv, stops, runs, kind, sub, chan, seen,
                           mine, resp>>

-----------------------------------------------------------------------------
(* The mysql servers: select, claim what is still unclaimed, handle *)

Server(w) == w \in {"listener", "peer", "tick"} /\ kind = "mysql"
Running(w) == w = "peer" \/ srv = "up"

Select(w) == /\ Server(w) /\ Running(w) /\ work[w] = Free /\ ~BusyRows(w)
             /\ Rows # {}
             /\ seen' = [seen EXCEPT ![w] = Rows]
             /\ UNCHANGED <<clientVars, serviceVars, kind, list, sub, chan, mine, resp>>

\* UPDATE ... WHERE claimed_at IS NULL: the row count tells who got it.
Claim(w) ==
    /\ Server(w)
    /\ \E c \in seen[w] :
        /\ seen' = [seen EXCEPT ![w] = @ \ {c}]
        /\ \/ /\ \E i \in 1..Len(list) : list[i] = c /\ list' = RemoveAt(list, i)
              /\ mine' = [mine EXCEPT ![w] = Append(@, c)]
           \/ /\ c \notin Rows
              /\ UNCHANGED <<list, mine>>
    /\ UNCHANGED <<clientVars, serviceVars, kind, sub, chan, resp>>

\* The batch is delivered even when stop() has been called meanwhile, but
\* deliver() does nothing then: the callback is gone.
DeliverRow(w) ==
    /\ Server(w) /\ seen[w] = {} /\ mine[w] # <<>> /\ work[w] = Free
    /\ mine' = [mine EXCEPT ![w] = Tail(@)]
    /\ \/ Running(w) /\ Accept(w, Head(mine[w]))
       \/ ~Running(w) /\ UNCHANGED <<pending, work, reply>>
    /\ UNCHANGED <<clientVars, srv, stops, runs, kind, list, sub, chan, seen, resp>>

\* A peer that dies leaves what it claimed claimed: nobody takes it again.
PeerDies == /\ kind = "mysql" /\ (BusyRows("peer") \/ work["peer"] # Free)
            /\ seen' = [seen EXCEPT !["peer"] = {}]
            /\ mine' = [mine EXCEPT !["peer"] = <<>>]
            /\ work' = [work EXCEPT !["peer"] = Free]
            /\ UNCHANGED <<clientVars, srv, stops, pending, runs, reply, kind, list,
                           sub, chan, resp>>

-----------------------------------------------------------------------------
(* Handling, publishing, stopping *)

SHandle(w) == Handle(w, StoreDated) /\ UNCHANGED storeVars

Publishing(w) == /\ work[w].at = "publish"
                 /\ work' = [work EXCEPT ![w] = Free]

\* send_response writes key, list and channel on every client and raises when
\* none took it: the pub/sub loop then drops its subscription and starts over.
RedisPublish(w) ==
    /\ kind = "redis" /\ Publishing(w)
    /\ \/ /\ resp' = [resp EXCEPT ![work[w].call] = TRUE]
          /\ UNCHANGED <<sub, chan>>
       \/ /\ w = "listener" /\ sub' = FALSE /\ chan' = {}
          /\ UNCHANGED resp
       \/ /\ w # "listener" /\ UNCHANGED <<resp, sub, chan>>
    /\ UNCHANGED <<clientVars, srv, stops, pending, runs, reply, kind, list, seen, mine>>

\* One transaction replaces the reply row; a failed one is only printed.
MysqlPublish(w) ==
    /\ kind = "mysql" /\ Publishing(w)
    /\ resp' \in {resp, [resp EXCEPT ![work[w].call] = TRUE]}
    /\ UNCHANGED <<clientVars, srv, stops, pending, runs, reply, kind, list, sub,
                   chan, seen, mine>>

\* Every receiving thread of the service has ended.
ThreadsEnd == /\ srv = "stopping"
              /\ \A w \in Workers \ {"peer"} : work[w] = Free /\ ~BusyRows(w)
              /\ srv' = "down"
              /\ sub' = FALSE /\ chan' = {}
              /\ UNCHANGED <<clientVars, stops, pending, work, runs, reply, kind, list,
                             seen, mine, resp>>

StoreNext ==
    \/ \E c \in Calls : \/ RedisRoundTrip(c) \/ MysqlSend(c) \/ MysqlTakes(c)
                        \/ SLosesStore(c)
                        \/ (Expire(c) /\ UNCHANGED storeVars)
    \/ ListExpires \/ Subscribe \/ ListenerTakes \/ QueuePops \/ TickPops
    \/ \E w \in Workers : \/ Select(w) \/ Claim(w) \/ DeliverRow(w)
                          \/ SHandle(w) \/ RedisPublish(w) \/ MysqlPublish(w)
    \/ PeerDies \/ ThreadsEnd
    \/ /\ ~BusyRows("tick")   \* the tick is one thread
       /\ DrainPending \/ StopService
       /\ UNCHANGED storeVars
    \/ StartService /\ UNCHANGED storeVars

-----------------------------------------------------------------------------
(* Properties *)

\* Who has a request: the list, the channel, the deferred queue, or a worker, in
\* its hands or among the rows it claimed.
Holders(c) == {p \in {"list", "chan", "pending"} \union Workers :
                 \/ p = "list" /\ c \in Rows
                 \/ p = "chan" /\ c \in chan
                 \/ p = "pending" /\ c \in ToSet(pending)
                 \/ p \in Workers /\ (work[p].call = c \/ c \in ToSet(mine[p]))}

\* A request is in one place, and there once.  Two places are two executions
\* (RPOP/LPOP races and _claim_and_handle_batch of two servers).
OneHolder ==
  /\ \A c \in Calls : \A p, q \in Holders(c) : p = q
  /\ IsInjective(list) /\ IsInjective(pending)
  /\ \A w \in Workers : IsInjective(mine[w]) /\ work[w].call \notin ToSet(mine[w])
=============================================================================
