------------------------------ MODULE RpcCall ------------------------------
(***************************************************************************)
(* What one RPC call promises whatever carries it: the caller sends once,  *)
(* the handler runs at most once and never after a deadline the request    *)
(* carries, a refusal (expired, overloaded, rejected) is final, and the    *)
(* caller that is answered gets the response to its own request.  A caller *)
(* may give up at any time: then the handler may or may not have run.      *)
(***************************************************************************)
EXTENDS Naturals

CONSTANTS Calls,  \* the calls
          None    \* no response

VARIABLES caller,  \* [Calls -> {"idle", "waiting", "answered", "failed"}]
          overdue, \* [Calls -> BOOLEAN]: the deadline its request carries has passed
          runs,    \* [Calls -> Nat]: executions of the handler
          reply,   \* [Calls -> body \cup {None}]: the outcome on the server
          got      \* [Calls -> response \cup {None}]: what the caller received
vars == <<caller, overdue, runs, reply, got>>

Refusals == {"expired", "overloaded", "rejected"}

Init == /\ caller = [c \in Calls |-> "idle"]
        /\ overdue = [c \in Calls |-> FALSE]
        /\ runs = [c \in Calls |-> 0]
        /\ reply = [c \in Calls |-> None]
        /\ got = [c \in Calls |-> None]

Send(c) == /\ caller[c] = "idle"
           /\ caller' = [caller EXCEPT ![c] = "waiting"]
           /\ UNCHANGED <<overdue, runs, reply, got>>

Expire(c) == /\ overdue' = [overdue EXCEPT ![c] = TRUE]
             /\ UNCHANGED <<caller, runs, reply, got>>

\* The handler runs, once, for a request that was sent and is not overdue.
Execute(c) == /\ caller[c] # "idle"
              /\ reply[c] = None
              /\ ~overdue[c]
              /\ runs' = [runs EXCEPT ![c] = 1]
              /\ reply' = [reply EXCEPT ![c] = "result"]
              /\ UNCHANGED <<caller, overdue, got>>

\* The request is refused: it has not run and never will.
Refuse(c) == /\ caller[c] # "idle"
             /\ reply[c] = None
             /\ \E why \in Refusals : reply' = [reply EXCEPT ![c] = why]
             /\ UNCHANGED <<caller, overdue, runs, got>>

Answer(c) == /\ caller[c] = "waiting"
             /\ reply[c] # None
             /\ caller' = [caller EXCEPT ![c] = "answered"]
             /\ got' = [got EXCEPT ![c] = [id |-> c, body |-> reply[c]]]
             /\ UNCHANGED <<overdue, runs, reply>>

Fail(c) == /\ caller[c] \in {"idle", "waiting"}
           /\ caller' = [caller EXCEPT ![c] = "failed"]
           /\ UNCHANGED <<overdue, runs, reply, got>>

Next == \E c \in Calls : \/ Send(c) \/ Expire(c) \/ Execute(c) \/ Refuse(c)
                         \/ Answer(c) \/ Fail(c)

Spec == Init /\ [][Next]_vars
=============================================================================
