------------------------------ MODULE OrderBatch ------------------------------
(***************************************************************************)
(* The batch form of submit_order: trading_client.submit_batch sends a list*)
(* of items in one RPC, and the strategy feeds each through the identity   *)
(* gate of single submissions (redis_rpc.py).  Unlike a single submission  *)
(* over HTTP, an item does not require the strict lookup to succeed.  The  *)
(* batch is retried as a whole; no HTTP route calls it.                    *)
(***************************************************************************)
EXTENDS Naturals, Sequences, FiniteSets

CONSTANTS Batches,     \* submit_orders_batch requests
          Tags,        \* order_remark of an item
          Deals, Volumes, Prices, PriceTypes, Names,  \* stock and side; strategy names
          MaxItems,    \* bound on the length of a batch (500 in the code)
          MaxLives,    \* bound on the strategy's restarts
          MaxRaises    \* bound on passorder calls that raise

\* A price of 0 is none: the code's default.
OrderTerms == [deal : Deals, volume : Volumes, price : Prices, priceType : PriceTypes,
               strategy : Names]

ASSUME BatchAssumption ==
  MaxItems \in Nat /\ MaxLives \in Nat /\ MaxRaises \in Nat

VARIABLES
  items,    \* the items of each batch, once it is sent
  batch,    \* new, queued, serving, answered, or refused
  results,  \* results so far, one for each item
  step,     \* where the item in hand is: start, lookup, native, poll
  placed,   \* passorder calls: [tag, terms, life, raised]
  shown,    \* of these, the ones the broker's queries show
  bare,     \* shown orders that only their deals tell of
  accepted, \* of these, the ones that reached the broker
  journaled,\* of these, the ones in _submit_journal
  learned,  \* journal entries with an order_sys_id
  life,     \* restarts of the strategy
  unknown   \* batches whose exchange failed for their client

batchVars == <<items, batch, results, step, placed, shown, bare, accepted,
              journaled, learned, life, unknown>>

BatchInit ==
  /\ items = [b \in Batches |-> <<>>]
  /\ batch = [b \in Batches |-> "new"]
  /\ results = [b \in Batches |-> <<>>]
  /\ step = "start" /\ placed = <<>>
  /\ shown = {} /\ bare = {} /\ accepted = {} /\ journaled = {} /\ learned = {}
  /\ life = 0 /\ unknown = {}

BatchRows    == <<shown, bare>>
BatchBroker  == <<placed, BatchRows, accepted>>
BatchJournal == <<journaled, learned>>

Becomes(b, s) == batch' = [batch EXCEPT ![b] = s]

\* The item in hand.
Item(b) == items[b][Len(results[b]) + 1]
IsFor(p, i) == placed[p].tag = i.tag
Agrees(p, i) == IsFor(p, i) /\ placed[p].terms = i.terms

SamePrice(x, y) == x = y \/ x = 0 \/ y = 0

\* _validate_known_order: the fields of the broker's row are compared, and a deal
\* has no more than stock and side.  A row need not name a strategy.  The price type
\* is not compared.
Fits(p, i) ==
  LET t == placed[p].terms
  IN /\ IsFor(p, i) /\ t.deal = i.terms.deal
     /\ p \notin bare => t.volume = i.terms.volume /\ SamePrice(t.price, i.terms.price)

NamesOther(p, i) == p \notin bare /\ placed[p].terms.strategy # i.terms.strategy

-----------------------------------------------------------------------------
(* The client.                                                             *)

\* submit_batch.
SendBatch(b) ==
  /\ batch[b] = "new"
  /\ \E n \in 1..MaxItems :
       \E s \in [1..n -> [tag : Tags, terms : OrderTerms]] :
         items' = [items EXCEPT ![b] = s]
  /\ Becomes(b, "queued")
  /\ UNCHANGED <<results, step, BatchBroker, BatchJournal, life, unknown>>

\* The exchange fails or times out while the strategy still has the batch.  (A
\* failure later on changes nothing in the strategy.)
BatchLost(b) ==
  /\ batch[b] = "queued" /\ b \notin unknown
  /\ unknown' = unknown \cup {b}
  /\ UNCHANGED <<items, batch, results, step, BatchBroker, BatchJournal, life>>

\* _batch_outcome: what the client takes an answered batch for.
ItemOutcome(r) ==
  IF r = "rejected" THEN "rejected"
  ELSE IF r = "idempotent" THEN "success" ELSE "unknown"

BatchOutcome(rs) ==
  LET os == {ItemOutcome(rs[i]) : i \in DOMAIN rs}
  IN IF Cardinality(os) = 1 THEN CHOOSE o \in os : TRUE ELSE "partial"

-----------------------------------------------------------------------------
(* The strategy, one request at a time.                                    *)

\* process_request: a batch whose deadline has passed is not executed.
StartBatch(b) ==
  /\ batch[b] = "queued" /\ \A c \in Batches : batch[c] # "serving"
  /\ Becomes(b, IF b \in unknown THEN "refused" ELSE "serving")
  /\ UNCHANGED <<items, results, step, BatchBroker, BatchJournal, life, unknown>>

\* The item in hand has its result; after the last one the batch is answered.
ItemDone(b, r) ==
  /\ results' = [results EXCEPT ![b] = Append(@, r)]
  /\ step' = "start"
  /\ Becomes(b, IF Len(results[b]) + 1 = Len(items[b]) THEN "answered" ELSE "serving")

GoesTo(s) == step' = s /\ UNCHANGED <<results, batch>>

\* No tag, another account or strategy than the batch's, or an invalid order: what
\* tells such an item is left out, any may be one.
RejectItem(b) ==
  /\ batch[b] = "serving" /\ step = "start"
  /\ ItemDone(b, "rejected")
  /\ UNCHANGED <<items, BatchBroker, BatchJournal, life, unknown>>

EntriesOf(i) == {p \in journaled : IsFor(p, i)}

\* _handle_submit_order: the journal's entry under the tag.
Journal(b) ==
  LET known == EntriesOf(Item(b))
  IN IF \E p \in known : ~Agrees(p, Item(b)) THEN ItemDone(b, "rejected")
     ELSE IF known \cap learned # {} THEN ItemDone(b, "idempotent")
     ELSE GoesTo("lookup")

ReadJournal(b) ==
  /\ batch[b] = "serving" /\ step = "start"
  /\ Journal(b)
  /\ UNCHANGED <<items, BatchBroker, BatchJournal, life, unknown>>

\* An order the broker shows under the tag: terms it does not fit are a conflict.
\* Its order_sys_id, which the journal learns, may still be empty.
FoundOrder(b, r) ==
  \E p \in shown :
    /\ IsFor(p, Item(b))
    /\ \/ /\ ~Fits(p, Item(b)) \/ NamesOther(p, Item(b))
          /\ ItemDone(b, "rejected") /\ UNCHANGED learned
       \/ /\ Fits(p, Item(b)) /\ ItemDone(b, r)
          /\ learned' = learned \/ learned' = learned \cup EntriesOf(Item(b))

\* The strict lookup.  A batch item goes on when it fails.
LookUpItem(b) ==
  /\ batch[b] = "serving" /\ step = "lookup"
  /\ \/ FoundOrder(b, "idempotent")
     \/ GoesTo(IF EntriesOf(Item(b)) = {} THEN "native" ELSE "poll") /\ UNCHANGED learned
  /\ UNCHANGED <<items, BatchBroker, journaled, life, unknown>>

\* Mutant: the journal is left to the batch's receipt.
JournalsNothing(n, raised) == UNCHANGED journaled

JournalsCall(n, raised) == journaled' = IF raised THEN journaled ELSE journaled \cup {n}

\* How many calls raised so far.
Raises == Cardinality({p \in DOMAIN placed : placed[p].raised})

\* BigQmtOrderGateway.submit: passorder may reach the broker, raise, or both.
PlaceItem(b) ==
  /\ batch[b] = "serving" /\ step = "native"
  /\ \E raised \in BOOLEAN :
       /\ raised => Raises < MaxRaises
       /\ placed' = Append(placed, [tag |-> Item(b).tag, terms |-> Item(b).terms,
                                    life |-> life, raised |-> raised])
       /\ JournalsCall(Len(placed) + 1, raised)
       /\ IF raised THEN ItemDone(b, "rejected") ELSE GoesTo("poll")
  /\ accepted' = accepted \/ accepted' = accepted \cup {Len(placed) + 1}
  /\ UNCHANGED <<items, BatchRows, learned, life, unknown>>

\* The lookups after it; a conflict they find is raised out of the item.
PollItem(b) ==
  /\ batch[b] = "serving" /\ step = "poll"
  /\ \/ FoundOrder(b, "confirmed")
     \/ ItemDone(b, "unconfirmed") /\ UNCHANGED learned
  /\ UNCHANGED <<items, BatchBroker, journaled, life, unknown>>

\* The journal and the batch in hand die with the process.
StrategyRestarts ==
  /\ life < MaxLives /\ life' = life + 1
  /\ journaled' = {} /\ learned' = {} /\ step' = "start"
  /\ batch' = [b \in Batches |-> IF batch[b] \in {"queued", "serving"} THEN "refused" ELSE batch[b]]
  /\ unknown' = unknown \cup {b \in Batches : batch[b] \in {"queued", "serving"}}
  /\ UNCHANGED <<items, results, BatchBroker>>

\* Native queries show the order, as a row of its own or by its deals.
Shows ==
  /\ \E p \in accepted \ shown :
       /\ shown' = shown \cup {p}
       /\ bare' = bare \/ bare' = bare \cup {p}
  /\ UNCHANGED <<items, batch, results, step, placed, accepted, BatchJournal, life, unknown>>

BatchNext ==
  \/ \E b \in Batches : \/ SendBatch(b) \/ BatchLost(b) \/ StartBatch(b) \/ RejectItem(b)
                        \/ ReadJournal(b) \/ LookUpItem(b) \/ PlaceItem(b) \/ PollItem(b)
  \/ StrategyRestarts \/ Shows

-----------------------------------------------------------------------------
\* The journal holds nothing of the call: it raised, or the strategy restarted.
Unjournaled(p) == placed[p].raised \/ placed[p].life < life

\* An order that may answer an item: it was placed on the item's own terms or,
\* where the journal cannot tell, its row contradicts none of them.
StandsFor(p, i) == Agrees(p, i) \/ (Fits(p, i) /\ Unjournaled(p))

\* Batch receipts are true: an accepted item has a passorder call that stands for
\* it, and a batch the client counts as a success is one whose orders the broker
\* has shown.
BatchReceiptsTrue ==
  \A b \in Batches : \A i \in DOMAIN results[b] :
    /\ results[b][i] \in {"idempotent", "confirmed", "unconfirmed"} =>
         \E p \in DOMAIN placed : StandsFor(p, items[b][i])
    /\ batch[b] = "answered" /\ BatchOutcome(results[b]) = "success" =>
         \E p \in shown : StandsFor(p, items[b][i])

\* What the comment in the batch handler asks of a retry, that stock, side, volume,
\* price and strategy are compared, is more than the code does once the journal is
\* gone: no run lists it, TLC refutes it.
IdempotentIsExact ==
  \A b \in Batches : \A i \in DOMAIN results[b] :
    results[b][i] = "idempotent" => \E p \in shown : Agrees(p, items[b][i])

\* However a batch is cut, retried or mixed, a tag reaches passorder twice only
\* across a restart of the strategy or after a call that raised.
TagPlacedOnce ==
  \A p, q \in DOMAIN placed :
    p < q /\ placed[p].tag = placed[q].tag =>
      placed[p].life < placed[q].life \/ placed[p].raised

\* A batch can be sent again: its receipts are true and its tags are placed
\* once (redis_rpc.py, _handle_submit_orders_batch).
BatchIsSafe == BatchReceiptsTrue /\ TagPlacedOnce

=============================================================================
