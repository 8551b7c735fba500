---------------------------- MODULE FullTickCache ----------------------------
(***************************************************************************)
(* The demand-driven snapshot cache of full_tick_cache.py.  A reader       *)
(* registers a demand in a redis hash and polls for its snapshot; the      *)
(* strategy thread reads all demands at once, removes the expired ones,    *)
(* and refreshes the snapshots of the rest, newest demand first.  It does  *)
(* so in rounds of a kind, symbol lists and whole markets, each with its   *)
(* own throttle (_refresh_full_tick_cache).                                *)
(*                                                                         *)
(* Abstracted: codes and quotes; a demand's age and a snapshot's age are   *)
(* steps that end them.                                                    *)
(***************************************************************************)
EXTENDS Naturals, Sequences, SequencesExt

CONSTANTS Demands,      \* request ids: one per distinct list of codes
          Markets,      \* those that name a whole market
          MaxRequests   \* demands one round looks at

ASSUME CacheAssumption == Markets \subseteq Demands /\ MaxRequests \in Nat \ {0}

VARIABLES
  demand,    \* the field of each request id in the demand hash
  recent,    \* request ids in the hash, newest request first
  cache,     \* whether each request id has a snapshot young enough to use
  due,       \* kinds whose refresh interval has passed
  round,     \* the strategy thread inside one refresh round
  pulled     \* kinds already refreshed since their interval last passed

cacheVars == <<demand, recent, cache, due, round, pulled>>

Kinds == {"symbol", "market"}
KindOf(d) == IF d \in Markets THEN "market" ELSE "symbol"
NoRound == [kind |-> "none", at |-> "out", dead |-> {}, todo |-> <<>>, n |-> 0]

CacheInit ==
  /\ demand = [d \in Demands |-> "none"]
  /\ recent = <<>>
  /\ cache = [d \in Demands |-> "old"]
  /\ due = Kinds
  /\ round = NoRound
  /\ pulled = {}

Without(s, d) == SelectSeq(s, LAMBDA x : x # d)

-----------------------------------------------------------------------------
(* Readers: get_full_tick with the cache enabled.                          *)

\* request_full_tick_cache: a new or renewed demand is the newest.
Ask(d) ==
  /\ demand' = [demand EXCEPT ![d] = "live"]
  /\ recent' = <<d>> \o Without(recent, d)
  /\ UNCHANGED <<cache, due, round, pulled>>

\* What a reader that polls now, and has waited long enough, comes back with:
\* the snapshot, an error for a market, a live RPC for a list of symbols.
Answer(d) == IF cache[d] = "fresh" THEN "data"
             ELSE IF d \in Markets THEN "timeout" ELSE "rpc"

\* Time: a demand or a snapshot grows too old, or a refresh interval passes.
DemandAges(d) ==
  /\ demand[d] = "live"
  /\ demand' = [demand EXCEPT ![d] = "expired"]
  /\ UNCHANGED <<recent, cache, due, round, pulled>>

SnapshotAges(d) ==
  /\ cache[d] = "fresh"
  /\ cache' = [cache EXCEPT ![d] = "old"]
  /\ UNCHANGED <<demand, recent, due, round, pulled>>

IntervalPasses(k) ==
  /\ k \notin due
  /\ due' = due \cup {k}
  /\ pulled' = pulled \ {k}
  /\ UNCHANGED <<demand, recent, cache, round>>

CacheClientStep ==
  \/ \E d \in Demands : Ask(d) \/ DemandAges(d) \/ SnapshotAges(d)
  \/ \E k \in Kinds : IntervalPasses(k)

-----------------------------------------------------------------------------
(* The strategy thread in refresh_full_tick_cache.                         *)

\* iter_active_full_tick_demands: one HGETALL, live demands newest first and
\* capped before the kind is looked at, expired ones to be deleted.
ReadDemands ==
  /\ round.at = "read"
  /\ LET live == SelectSeq(recent, LAMBDA d : demand[d] = "live")
         head == SubSeq(live, 1, IF Len(live) < MaxRequests THEN Len(live) ELSE MaxRequests)
     IN round' = [round EXCEPT !.at = "refresh",
                               !.dead = {d \in ToSet(recent) : demand[d] = "expired"},
                               !.todo = SelectSeq(head, LAMBDA d : KindOf(d) = round.kind)]
  /\ UNCHANGED <<demand, recent, cache, due, pulled>>

\* HDEL by request id: it also removes a demand renewed since the HGETALL.
SweepDemand(d) ==
  /\ round.at = "refresh" /\ d \in round.dead
  /\ round' = [round EXCEPT !.dead = @ \ {d}]
  /\ demand' = [demand EXCEPT ![d] = "none"]
  /\ recent' = Without(recent, d)
  /\ UNCHANGED <<cache, due, pulled>>

\* One native pull and the write of its snapshot.
Refresh ==
  /\ round.at = "refresh" /\ round.dead = {} /\ round.todo # <<>>
  /\ cache' = [cache EXCEPT ![Head(round.todo)] = "fresh"]
  /\ round' = [round EXCEPT !.todo = Tail(@), !.n = @ + 1]
  /\ UNCHANGED <<demand, recent, due, pulled>>

\* All done, or the wall-clock budget is spent after at least one refresh.
RoundEnds ==
  /\ round.at = "refresh" /\ round.dead = {} /\ (round.todo = <<>> \/ round.n > 0)
  /\ round' = NoRound
  /\ UNCHANGED <<demand, recent, cache, due, pulled>>

\* The native call or a redis command raises.
RoundFails ==
  /\ round.at # "out"
  /\ round' = NoRound
  /\ UNCHANGED <<demand, recent, cache, due, pulled>>

-----------------------------------------------------------------------------
CacheTypeOK ==
  /\ demand \in [Demands -> {"none", "live", "expired"}]
  /\ recent \in Seq(Demands)
  /\ cache \in [Demands -> {"old", "fresh"}]
  /\ due \subseteq Kinds /\ pulled \subseteq Kinds
  /\ round \in [kind : Kinds \cup {"none"},
                at : {"out", "read", "refresh"},
                dead : SUBSET Demands, todo : Seq(Demands), n : Nat]

=============================================================================
