------------------------- MODULE MinuteSubscriptions -------------------------
(***************************************************************************)
(* Short minute windows of the current day (adapters/market_bigqmt.py,     *)
(* get_market_data_ex_scoped): a read of the cache, and for the codes whose*)
(* last bar is missing a native subscription each, polled until the bar is *)
(* there or two seconds have passed, and released again.  The native quota *)
(* is shared with the quote subscriptions clients make, so one that is     *)
(* never released is a loss for everybody.                                 *)
(*                                                                         *)
(* Bars are whether the window's last one can be read; validation of the   *)
(* request and the frames are left out.                                    *)
(***************************************************************************)
EXTENDS Naturals, FiniteSets

CONSTANTS Requests,  \* reads that run concurrently
          Symbols,   \* stock codes
          Quota      \* native subscriptions the terminal allows

VARIABLES
  read,     \* where each read is, or its outcome
  lacking,  \* missing: codes whose last bar the cache did not have
  owned,    \* codes it has subscribed and not yet released
  failed,   \* codes it could not release
  holder,   \* holder of _MINUTE_SUBSCRIPTION_LOCK
  nativeSubs, \* open native subscriptions: [by, code]
  stored    \* codes whose last bar is in the DAT cache

minuteVars == <<read, lacking, owned, failed, holder, nativeSubs, stored>>

NoHolder == "nobody"

ASSUME MinuteAssumption == NoHolder \notin Requests

MinuteInit ==
  /\ read = [q \in Requests |-> "new"]
  /\ lacking = [q \in Requests |-> {}]
  /\ owned = [q \in Requests |-> {}]
  /\ failed = [q \in Requests |-> {}]
  /\ holder = NoHolder /\ nativeSubs = {}
  /\ stored \in SUBSET Symbols

Goes(q, s) == read' = [read EXCEPT ![q] = s]

\* The first read, without a subscription, of some codes; it may raise.
ReadCache(q) ==
  /\ read[q] = "new"
  /\ \/ Goes(q, "error") /\ UNCHANGED lacking
     \/ \E codes \in (SUBSET Symbols) \ {{}} :
          /\ lacking' = [lacking EXCEPT ![q] = codes \ stored]
          /\ Goes(q, IF codes \subseteq stored THEN "cached" ELSE "missing")
  /\ UNCHANGED <<owned, failed, holder, nativeSubs, stored>>

\* The lock is tried, never waited for.
TryLock(q) ==
  /\ read[q] = "missing"
  /\ IF holder = NoHolder
     THEN holder' = q /\ Goes(q, "subscribing")
     ELSE Goes(q, "busy") /\ UNCHANGED holder
  /\ UNCHANGED <<lacking, owned, failed, nativeSubs, stored>>

SubscribeOne(q) ==
  /\ read[q] = "subscribing"
  /\ \E c \in lacking[q] \ owned[q] :
       \/ /\ Cardinality(nativeSubs) < Quota
          /\ nativeSubs' = nativeSubs \union {[by |-> q, code |-> c]}
          /\ owned' = [owned EXCEPT ![q] = @ \union {c}]
          /\ UNCHANGED read
       \/ Goes(q, "refused") /\ UNCHANGED <<nativeSubs, owned>>
  /\ UNCHANGED <<lacking, failed, holder, stored>>

AllSubscribed(q) ==
  /\ read[q] = "subscribing" /\ owned[q] = lacking[q]
  /\ Goes(q, "polling")
  /\ UNCHANGED <<lacking, owned, failed, holder, nativeSubs, stored>>

\* Complete, partial at the limit, or the native read raises.
PollEnds(q) ==
  /\ read[q] = "polling"
  /\ \E s \in {"complete", "partial", "raised"} : Goes(q, s)
  /\ UNCHANGED <<lacking, owned, failed, holder, nativeSubs, stored>>

Ending(q) == read[q] \in {"refused", "complete", "partial", "raised"}

\* Mutant: a failed release ends the clean-up.
ReleaseUntilFailure(q) ==
  /\ Ending(q) /\ holder = q
  /\ \E c \in owned[q] :
       \/ /\ nativeSubs' = nativeSubs \ {[by |-> q, code |-> c]}
          /\ owned' = [owned EXCEPT ![q] = @ \ {c}]
          /\ UNCHANGED failed
       \/ /\ failed' = [failed EXCEPT ![q] = @ \union {c}]
          /\ owned' = [owned EXCEPT ![q] = {}]
          /\ UNCHANGED nativeSubs
  /\ UNCHANGED <<read, lacking, holder, stored>>

\* The finally clause releases one by one; an error does not stop it.
ReleaseOne(q) ==
  /\ Ending(q) /\ holder = q
  /\ \E c \in owned[q] :
       /\ owned' = [owned EXCEPT ![q] = @ \ {c}]
       /\ \/ nativeSubs' = nativeSubs \ {[by |-> q, code |-> c]} /\ UNCHANGED failed
          \/ failed' = [failed EXCEPT ![q] = @ \union {c}] /\ UNCHANGED nativeSubs
  /\ UNCHANGED <<read, lacking, holder, stored>>

\* Clean-up errors replace what the read had to say.
ReleaseLock(q) ==
  /\ Ending(q) /\ holder = q /\ owned[q] = {}
  /\ holder' = NoHolder
  /\ Goes(q, IF failed[q] # {} THEN "release_failed"
             ELSE IF read[q] \in {"complete", "partial"} THEN "data" ELSE "error")
  /\ UNCHANGED <<lacking, owned, failed, nativeSubs, stored>>

\* The terminal stores the day's bars.
Stored ==
  /\ \E c \in Symbols \ stored : stored' = stored \union {c}
  /\ UNCHANGED <<read, lacking, owned, failed, holder, nativeSubs>>

MinuteNext ==
  \/ Stored
  \/ \E q \in Requests :
       \/ ReadCache(q) \/ TryLock(q) \/ SubscribeOne(q) \/ AllSubscribed(q)
       \/ PollEnds(q) \/ ReleaseOne(q) \/ ReleaseLock(q)

-----------------------------------------------------------------------------
\* A native subscription is open only for the read that holds the lock, which
\* will release it, or because its release failed; and only an answer
\* that says so leaves one behind.
NothingLeftOpen ==
  \A s \in nativeSubs :
    \/ holder = s.by /\ s.code \in owned[s.by]
    \/ s.code \in failed[s.by] /\ (read[s.by] = "release_failed" \/ holder = s.by)

=============================================================================
