------------------------------ MODULE RpcPlane ------------------------------
(***************************************************************************)
(* The RPC plane between the bridge and the QMT process: one service, one  *)
(* transport that build_transport (transports/factory.py) selects by name, *)
(* and concurrent callers.  Whatever carries them, calls keep the contract *)
(* of RpcCall.                                                             *)
(***************************************************************************)
EXTENDS ZmqTransport, StoreTransports

vars == <<clientVars, serviceVars, zmqVars, storeVars>>

\* build_transport: a deployment runs one of them ("shm" only ever raises).
\* With ZMQ the ROUTER has its own thread, or the tick polls it.
Init == /\ ServiceInit /\ ZmqInit /\ StoreInit
        /\ kind \in {"zmq", "redis", "mysql"}
        /\ rx \in IF kind = "zmq" THEN {"listener", "tick"} ELSE {"listener"}

Next == \/ kind = "zmq" /\ ZmqNext /\ UNCHANGED storeVars
        \/ kind # "zmq" /\ StoreNext /\ UNCHANGED zmqVars

\* The I/O thread, the router thread and the tick keep running; a caller whose
\* call is complete is woken.  The deadline is never assumed to pass.
Fairness ==
    /\ WF_vars(kind = "zmq" /\ (\/ Dequeue \/ WireSend \/ Receive \/ FailQueued
                             \/ ThreadDies \/ (cur # None /\ Expired(cur) /\ AbortExchange))
               /\ UNCHANGED storeVars)
    /\ WF_vars(kind = "zmq" /\ RouterReceive /\ UNCHANGED storeVars)
    /\ WF_vars(kind = "zmq" /\ FlushResponses /\ UNCHANGED storeVars)
    /\ WF_vars(kind = "zmq" /\ DrainPending /\ UNCHANGED <<zmqVars, storeVars>>)
    /\ WF_vars(StartService /\ UNCHANGED <<zmqVars, storeVars>>)
    /\ \A w \in {"listener", "tick"} :
         WF_vars(kind = "zmq" /\ (ZHandle(w) \/ ZPublish(w)) /\ UNCHANGED storeVars)
    /\ \A c \in Calls :
         WF_vars(kind = "zmq" /\ box[c] # "open" /\ ZCallerWakes(c) /\ UNCHANGED storeVars)

Spec == Init /\ [][Next]_vars
FairSpec == Spec /\ Fairness

-----------------------------------------------------------------------------
\* What the state can be.
TypeOK == ServiceType /\ ZmqType /\ StoreType

Dated == IF kind = "zmq" THEN ZmqDated ELSE StoreDated
Overdue == [c \in Calls |-> late[c] /\ c \in Dated]

\* Every call keeps the contract of RpcCall: at most one execution, none after
\* the deadline its request carries, refusals are final, and the answer a
\* caller gets is the outcome of its own request (process_request,
\* _exchange_client_call, _call_redis_rpc, _claim_and_handle_batch).
RC == INSTANCE RpcCall WITH overdue <- Overdue
ContractKept == RC!Spec

\* A call waiting on a healthy ZMQ plane is answered before its deadline.
WaitingCallServed == \A c \in Calls : kind = "zmq" => Served(c)

\* A call is in at most one place, its reply cannot meet the next call's DEALER,
\* and no queued call outlives the thread that would fail it (zmq_transport.py,
\* redis_transport.py, mysql_transport.py).
CallsAccounted == TypeOK /\ LiveDealerClean /\ NoOrphanCall /\ OneHolder

=============================================================================
