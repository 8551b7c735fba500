--------------------------- MODULE SignalTrading ---------------------------
(***************************************************************************)
(* The signal trader of the embedded strategy: consumers of one Redis      *)
(* stream (adapters/signal_redis.py), the durable state of each signal     *)
(* (adapters/state_redis.py) and the loop that turns a signal into at most *)
(* one broker order (app.py).  Every Redis call and the native passorder   *)
(* call is a step of its own, because a crash, an exception or another     *)
(* consumer can come between any two of them.                              *)
(***************************************************************************)
EXTENDS Naturals, FiniteSets

CONSTANTS
  Consumers,      \* processes reading the stream in one consumer group
  Signals,        \* signal_id values
  NumEntries,     \* number of stream entries, in stream order
  SignalOf,       \* the signal an entry carries (a producer may push it twice)
  Intent,         \* remark, stock, action, volume, price and strategy of a signal
  Poison,         \* entries whose payload does not parse
  FetchLimit,     \* fetch_limit and reclaim_count of the source
  MaxFaults,      \* bound on crashes and raised Redis or broker calls
  EntriesOutliveStatus  \* may an entry be pending, its signal not yet past
                        \* expire_at, longer than status_ttl_seconds?

Entries == 1 .. NumEntries

ASSUME SignalAssumption ==
  /\ NumEntries \in Nat
  /\ SignalOf \in [1 .. NumEntries -> Signals]
  /\ Poison \subseteq 1 .. NumEntries
  /\ FetchLimit \in Nat \ {0}
  /\ MaxFaults \in Nat
  /\ EntriesOutliveStatus \in BOOLEAN

NoEntry == 0

VARIABLES
  entry,    \* new, pending (in the group's PEL) or acked
  refs,     \* _stream_ids_by_signal_id of a consumer, as the entries it names
  todo,     \* the fetched signals a tick has not reached yet
  cur,      \* the entry a tick is working on
  pc,       \* where a consumer's tick is
  claimed,  \* does the claim key of a signal exist?
  status,   \* the status hash of a signal
  orders,   \* orders of a signal at the broker
  faults    \* crashes and raised calls so far

vars == <<entry, refs, todo, cur, pc, claimed, status, orders, faults>>

Decided    == {"SUBMITTED", "CONFIRMED", "FAILED", "SKIPPED"}
Statuses   == Decided \union {"none", "CLAIMED", "SUBMITTING"}

\* Stages of a tick in which the consumer owns the claim of its signal.
Holding == {"claimed", "handle", "skip", "ackSkipped", "intent", "submit",
            "record", "ackSubmitted", "fail", "ackFailed"}
Stages  == Holding \union {"idle", "loop", "claim", "reconcile", "confirm", "ackTerminal"}

TypeOK ==
  /\ entry \in [Entries -> {"new", "pending", "acked"}]
  /\ refs \in [Consumers -> SUBSET Entries]
  /\ todo \in [Consumers -> SUBSET Entries]
  /\ cur \in [Consumers -> Entries \union {NoEntry}]
  /\ pc \in [Consumers -> Stages]
  /\ claimed \in [Signals -> BOOLEAN]
  /\ status \in [Signals -> Statuses]
  /\ orders \in [Signals -> Nat]
  /\ faults \in 0 .. MaxFaults

Sig(c) == SignalOf[cur[c]]

WorksOn(c, s) == \E e \in todo[c] \union ({cur[c]} \ {NoEntry}) : SignalOf[e] = s

\* A signal some consumer may still act on.
Live(s) == \/ \E e \in Entries : SignalOf[e] = s /\ entry[e] # "acked"
           \/ \E c \in Consumers : WorksOn(c, s)

Init ==
  /\ entry = [e \in Entries |-> "new"]
  /\ refs = [c \in Consumers |-> {}]
  /\ todo = [c \in Consumers |-> {}]
  /\ cur = [c \in Consumers |-> NoEntry]
  /\ pc = [c \in Consumers |-> "idle"]
  /\ claimed = [s \in Signals |-> FALSE]
  /\ status = [s \in Signals |-> "none"]
  /\ orders = [s \in Signals |-> 0]
  /\ faults = 0

Fault == faults < MaxFaults /\ faults' = faults + 1

\* Go on to stage l.  "loop" is the next signal of the tick; "idle" is an
\* exception that leaves tick() and is swallowed by runner.tick_app.
Goto(c, l) ==
  /\ pc' = [pc EXCEPT ![c] = l]
  /\ cur' = IF l \in {"loop", "idle"} THEN [cur EXCEPT ![c] = NoEntry] ELSE cur
  /\ todo' = IF l = "idle" THEN [todo EXCEPT ![c] = {}] ELSE todo

----------------------------------------------------------------------------
(* Fetching: XAUTOCLAIM of idle pending entries, then XREADGROUP of new ones *)

\* A prefix of the undelivered entries, as XREADGROUP returns them.
NextNew(N) ==
  /\ \A e \in N : entry[e] = "new"
  /\ \A e \in N, f \in Entries : f < e /\ entry[f] = "new" => f \in N

\* Mutant: a source that never reclaims pending entries.
ReturnedNewOnly(R, N) ==
  /\ R = {}
  /\ NextNew(N)
  /\ Cardinality(N) <= FetchLimit

Returned(R, N) ==
  /\ \A e \in R : entry[e] = "pending"
  /\ NextNew(N)
  /\ Cardinality(R) + Cardinality(N) <= FetchLimit
  /\ R \intersect Poison # {} => N = {}

Deliver(N) == entry' = [e \in Entries |-> IF e \in N THEN "pending" ELSE entry[e]]

\* The last parsed entry of a signal replaces the reference kept for it.
Reference(c, P) ==
  refs' = [refs EXCEPT ![c] =
    {e \in P : ~ \E f \in P : e < f /\ SignalOf[f] = SignalOf[e]}
      \union {e \in @ : ~ \E f \in P : SignalOf[f] = SignalOf[e]}]

BeforePoison(B) == {e \in B : \A p \in B \intersect Poison : e < p}

\* fetch() returns a batch and the tick starts.
Fetch(c, R, N) ==
  /\ pc[c] = "idle"
  /\ Returned(R, N)
  /\ (R \union N) \intersect Poison = {}
  /\ Deliver(N)
  /\ Reference(c, R \union N)
  /\ todo' = [todo EXCEPT ![c] = R \union N]
  /\ pc' = [pc EXCEPT ![c] = "loop"]
  /\ UNCHANGED <<cur, claimed, status, orders, faults>>

\* A payload that does not parse raises out of fetch(): the batch is lost to
\* the pending list, its entries before the bad one already referenced.
FetchPoisoned(c, R, N) ==
  /\ pc[c] = "idle"
  /\ Returned(R, N)
  /\ (R \union N) \intersect Poison # {}
  /\ Deliver(N)
  /\ Reference(c, BeforePoison(R \union N))
  /\ UNCHANGED <<todo, cur, pc, claimed, status, orders, faults>>

\* XREADGROUP raises (its reply lost or not) after the reclaim, or
\* get_positions raises after the whole fetch.
FetchFails(c, R, N) ==
  /\ pc[c] = "idle"
  /\ Returned(R, N)
  /\ (R \union N) \intersect Poison = {}
  /\ Fault
  /\ Deliver(N)
  /\ Reference(c, R) \/ Reference(c, R \union N)
  /\ UNCHANGED <<todo, cur, pc, claimed, status, orders>>

----------------------------------------------------------------------------
(* One signal of the tick *)

\* The loop head: get_status decides between acknowledging, reconciling and
\* claiming.  A CLAIMED record has no intent to look up and stays pending.
TakeNext(c, e) ==
  LET st == status[SignalOf[e]]
  IN /\ pc[c] = "loop"
     /\ e \in todo[c] /\ \A f \in todo[c] : e <= f
     /\ \/ /\ st = "CLAIMED"
           /\ UNCHANGED <<pc, cur>>
        \/ /\ \E l \in {"ackTerminal", "reconcile", "claim"} :
                /\ l = "ackTerminal" <=> st \in Decided
                /\ l = "reconcile" <=> st = "SUBMITTING"
                /\ l = "claim" <=> st = "none"
                /\ pc' = [pc EXCEPT ![c] = l]
           /\ cur' = [cur EXCEPT ![c] = e]
     /\ todo' = [todo EXCEPT ![c] = @ \ {e}]
     /\ UNCHANGED <<entry, refs, claimed, status, orders, faults>>

GetStatusFails(c) ==
  /\ pc[c] = "loop" /\ todo[c] # {}
  /\ Fault
  /\ Goto(c, "idle")
  /\ UNCHANGED <<entry, refs, claimed, status, orders>>

\* sync_positions ends the tick; whether it raises makes no difference here.
EndTick(c) ==
  /\ pc[c] = "loop" /\ todo[c] = {}
  /\ Goto(c, "idle")
  /\ UNCHANGED <<entry, refs, claimed, status, orders, faults>>

\* A status write: it raises before or after Redis applied it, or succeeds.
Write(c, from, st, to, onError) ==
  /\ pc[c] = from
  /\ \/ /\ status' = [status EXCEPT ![Sig(c)] = st]
        /\ Goto(c, to)
        /\ UNCHANGED faults
     \/ /\ Fault
        /\ UNCHANGED status \/ status' = [status EXCEPT ![Sig(c)] = st]
        /\ Goto(c, onError)
  /\ UNCHANGED <<entry, refs, claimed, orders>>

\* ack() forgets the reference before XACK, so a second ack is a no-op.
Ack(c, from, to, onError) ==
  LET mine == {e \in refs[c] : SignalOf[e] = Sig(c)}
      acked == [e \in Entries |-> IF e \in mine THEN "acked" ELSE entry[e]]
  IN /\ pc[c] = from
     /\ refs' = [refs EXCEPT ![c] = @ \ mine]
     /\ \/ /\ entry' = acked
           /\ Goto(c, to)
           /\ UNCHANGED faults
        \/ /\ mine # {}
           /\ Fault
           /\ UNCHANGED entry \/ entry' = acked
           /\ Goto(c, onError)
     /\ UNCHANGED <<claimed, status, orders>>

AckTerminal(c) == Ack(c, "ackTerminal", "loop", "idle")

\* The strict lookup proves nothing (a query that raises, no such order yet, a
\* conflicting order): the signal stays pending.
ReconcileUnknown(c) ==
  /\ pc[c] = "reconcile"
  /\ Goto(c, "loop")
  /\ UNCHANGED <<entry, refs, claimed, status, orders, faults>>

\* Mutant: the lookup forgets to compare the identity.
ReconcileAnyOrder(c) ==
  /\ pc[c] = "reconcile"
  /\ \E s \in Signals : orders[s] > 0
  /\ Goto(c, "confirm")
  /\ UNCHANGED <<entry, refs, claimed, status, orders, faults>>

\* The broker shows an order with the recorded identity and intent.
ReconcileFound(c) ==
  /\ pc[c] = "reconcile"
  /\ \E s \in Signals : Intent[s] = Intent[Sig(c)] /\ orders[s] > 0
  /\ Goto(c, "confirm")
  /\ UNCHANGED <<entry, refs, claimed, status, orders, faults>>

Confirm(c) == Write(c, "confirm", "CONFIRMED", "ackTerminal", "idle")

\* Mutant: SET without NX.
ClaimWithoutNx(c) ==
  /\ pc[c] = "claim"
  /\ claimed' = [claimed EXCEPT ![Sig(c)] = TRUE]
  /\ Goto(c, "claimed")
  /\ UNCHANGED <<entry, refs, status, orders, faults>>

\* SET NX of the claim key; a failed status write after it is WriteClaimed.
Claim(c) ==
  /\ pc[c] = "claim"
  /\ \/ /\ ~claimed[Sig(c)]
        /\ claimed' = [claimed EXCEPT ![Sig(c)] = TRUE]
        /\ Goto(c, "claimed")
        /\ UNCHANGED faults
     \/ /\ claimed[Sig(c)]
        /\ Goto(c, "loop")
        /\ UNCHANGED <<claimed, faults>>
     \/ /\ Fault
        /\ UNCHANGED claimed \/ claimed' = [claimed EXCEPT ![Sig(c)] = TRUE]
        /\ Goto(c, "idle")
  /\ UNCHANGED <<entry, refs, status, orders>>

WriteClaimed(c) == Write(c, "claimed", "CLAIMED", "handle", "idle")

\* validate_signal rejects, build_order_price raises, or the order is built.
Handle(c) ==
  /\ pc[c] = "handle"
  /\ \E l \in {"skip", "fail", "intent"} : Goto(c, l)
  /\ UNCHANGED <<entry, refs, claimed, status, orders, faults>>

Skip(c)       == Write(c, "skip", "SKIPPED", "ackSkipped", "fail")
AckSkipped(c) == Ack(c, "ackSkipped", "loop", "fail")

\* mark_submitting: the durable intent that precedes passorder.
WriteIntent(c) == Write(c, "intent", "SUBMITTING", "submit", "fail")

\* Mutant: a raised passorder is acknowledged like a receipt.
SubmitAckingUnknown(c) ==
  /\ pc[c] = "submit"
  /\ \/ orders' = [orders EXCEPT ![Sig(c)] = @ + 1] /\ UNCHANGED faults
     \/ Fault /\ UNCHANGED orders
  /\ Goto(c, "ackSubmitted")
  /\ UNCHANGED <<entry, refs, claimed, status>>

\* passorder; when it raises the order may or may not be at the broker.
Submit(c) ==
  LET ordered == [orders EXCEPT ![Sig(c)] = @ + 1]
  IN /\ pc[c] = "submit"
     /\ \/ /\ orders' = ordered
           /\ Goto(c, "record")
           /\ UNCHANGED faults
        \/ /\ Fault
           /\ UNCHANGED orders \/ orders' = ordered
           /\ Goto(c, "loop")
     /\ UNCHANGED <<entry, refs, claimed, status>>

Record(c)       == Write(c, "record", "SUBMITTED", "ackSubmitted", "loop")
AckSubmitted(c) == Ack(c, "ackSubmitted", "loop", "fail")

\* The handler of any other exception of _handle_signal.
Fail(c)      == Write(c, "fail", "FAILED", "ackFailed", "idle")
AckFailed(c) == Ack(c, "ackFailed", "loop", "idle")

----------------------------------------------------------------------------
(* The process dies, and keys reach their TTL *)

Crash(c) ==
  /\ pc[c] # "idle"
  /\ Fault
  /\ Goto(c, "idle")
  /\ refs' = [refs EXCEPT ![c] = {}]
  /\ UNCHANGED <<entry, claimed, status, orders>>

\* claim_ttl_seconds is an hour: no consumer takes that long from reading the
\* status of a signal to finishing with it, so the claim of a signal in work
\* does not expire, nor one taken since a status was read as absent.
ClaimExpires(s) ==
  /\ claimed[s]
  /\ \A c \in Consumers : cur[c] # NoEntry /\ Sig(c) = s =>
       /\ pc[c] \notin Holding
       /\ pc[c] = "claim" => status[s] = "none"
  /\ claimed' = [claimed EXCEPT ![s] = FALSE]
  /\ UNCHANGED <<entry, refs, todo, cur, pc, status, orders, faults>>

\* status_ttl_seconds is a day, longer than the claim.
StatusExpires(s) ==
  /\ status[s] # "none" /\ ~claimed[s]
  /\ IF EntriesOutliveStatus THEN \A c \in Consumers : ~WorksOn(c, s) ELSE ~Live(s)
  /\ status' = [status EXCEPT ![s] = "none"]
  /\ UNCHANGED <<entry, refs, todo, cur, pc, claimed, orders, faults>>

----------------------------------------------------------------------------
Process(c) ==
  \/ \E e \in todo[c] : TakeNext(c, e)
  \/ EndTick(c)
  \/ AckTerminal(c) \/ ReconcileUnknown(c) \/ ReconcileFound(c) \/ Confirm(c)
  \/ Claim(c) \/ WriteClaimed(c) \/ Handle(c)
  \/ Skip(c) \/ AckSkipped(c)
  \/ WriteIntent(c) \/ Submit(c) \/ Record(c) \/ AckSubmitted(c)
  \/ Fail(c) \/ AckFailed(c)

Read(c) == \E R, N \in SUBSET Entries : Fetch(c, R, N) \/ FetchPoisoned(c, R, N)

Next ==
  \/ \E c \in Consumers :
       \/ Read(c)
       \/ Process(c)
       \/ GetStatusFails(c)
       \/ \E R, N \in SUBSET Entries : FetchFails(c, R, N)
       \/ Crash(c)
  \/ \E s \in Signals : ClaimExpires(s) \/ StatusExpires(s)

Spec == Init /\ [][Next]_vars

----------------------------------------------------------------------------
(* What the trader promises *)

\* No interleaving of consumers, crash, raised call, duplicate push or expired
\* key makes the strategy call passorder twice for one signal (app.py, the
\* reconciliation comment in tick).
AtMostOneOrder == \A s \in Signals : orders[s] <= 1

\* An order at the broker always has its durable intent: while its signal can
\* still be delivered, the status never reads as unclaimed, claimed or skipped
\* (state_redis.py, mark_submitting).
OrderHasIntent ==
  \A s \in Signals : orders[s] > 0 /\ Live(s) =>
    status[s] \in {"SUBMITTING", "SUBMITTED", "CONFIRMED", "FAILED"}

\* SUBMITTED and CONFIRMED are only written for an order the broker has, and
\* SKIPPED only for a signal that was never sent.
StatusIsTruthful ==
  \A s \in Signals :
    /\ status[s] \in {"SUBMITTED", "CONFIRMED"} => orders[s] > 0
    /\ status[s] = "SKIPPED" => orders[s] = 0

\* An entry leaves the pending list only when its signal is durably decided:
\* an ambiguous submission is never acknowledged.
AckOnlyDecided ==
  [][\A e \in Entries : entry'[e] = "acked" /\ entry[e] # "acked" =>
       status[SignalOf[e]] \in Decided]_vars

\* A signal whose order reached the broker is never recorded as FAILED (app.py,
\* the comment on a fake failed acknowledgement).
NeverFakeFailed == \A s \in Signals : status[s] = "FAILED" => orders[s] = 0

----------------------------------------------------------------------------
(* Why it keeps them: the claim is a lock, and each stage of a tick knows what
   the status of its signal can be. *)

Recorded == {"SUBMITTING", "SUBMITTED", "CONFIRMED", "FAILED"}

\* A tick names its signal exactly while it works on one.
CurrentSet ==
  \A c \in Consumers : pc[c] \in {"idle", "loop"} <=> cur[c] = NoEntry

\* Of the consumers working on a signal one holds its claim, and the claim key
\* is there as long as it does.
ClaimIsLock ==
  /\ \A c, d \in Consumers :
       pc[c] \in Holding /\ pc[d] \in Holding /\ Sig(c) = Sig(d) => c = d
  /\ \A c \in Consumers : pc[c] \in Holding => claimed[Sig(c)]
  /\ \A c \in Consumers : pc[c] = "claim" => claimed[Sig(c)] \/ status[Sig(c)] = "none"

\* What the status of a signal can be at each stage of a tick that works on it.
StatusAtStage ==
  \A c \in Consumers :
    LET st == status[Sig(c)] IN
    /\ pc[c] = "claimed"                           => st = "none"
    /\ pc[c] \in {"handle", "skip", "intent"}      => st = "CLAIMED"
    /\ pc[c] = "ackSkipped"                        => st = "SKIPPED"
    /\ pc[c] \in {"submit", "record"}              => st \in Recorded
    /\ pc[c] \in {"reconcile", "confirm"}          => st \in Recorded
    /\ pc[c] \in {"ackSubmitted", "ackFailed"}     => st \in Recorded \intersect Decided
    /\ pc[c] = "ackTerminal"                       => st \in Decided
    /\ pc[c] = "fail"                              => st # "none"

\* Nothing was sent for the signal of a tick that has yet to call passorder.
NotYetOrdered ==
  \A c \in Consumers :
    pc[c] \in {"claimed", "handle", "skip", "ackSkipped", "intent", "submit"} =>
      orders[Sig(c)] = 0

IInv == /\ TypeOK
        /\ CurrentSet
        /\ ClaimIsLock
        /\ StatusAtStage
        /\ NotYetOrdered
        /\ OrderHasIntent
        /\ AtMostOneOrder

----------------------------------------------------------------------------
\* A tick always goes on, the strategy timer always starts another one, the
\* idle cursor of XAUTOCLAIM always comes back to an entry, claim keys always
\* reach their TTL, and the broker eventually shows an order it has.
Fairness ==
  /\ \A c \in Consumers : WF_vars(Process(c))
  /\ \A c \in Consumers : SF_vars(ReconcileFound(c))
  /\ \A e \in Entries : SF_vars(\E c \in Consumers : \E R, N \in SUBSET Entries :
                                  e \in R \union N /\ Fetch(c, R, N))
  /\ \A s \in Signals : SF_vars(ClaimExpires(s))

FairSpec == Spec /\ Fairness

\* Once faults stop, every entry ends up acknowledged, except that of a signal
\* parked as CLAIMED (no intent to look up) or as SUBMITTING without an order.
\* In particular every order the broker has is found and acknowledged.
EntriesSettle ==
  \A e \in Entries :
    <>[](\/ entry[e] = "acked"
         \/ status[SignalOf[e]] = "CLAIMED"
         \/ status[SignalOf[e]] = "SUBMITTING" /\ orders[SignalOf[e]] = 0)

\* What a status says of the broker is true, and it is there as long as an
\* order of a deliverable signal is (state_redis.py).
StatusAccounts == TypeOK /\ OrderHasIntent /\ StatusIsTruthful

=============================================================================
