------------------------------ MODULE QuoteHubs ------------------------------
(***************************************************************************)
(* The two shared quote hubs of ws/quote_hub.py.  The whole-quote hub runs *)
(* one sampler task per set of codes and gives its snapshots to a one-slot *)
(* queue per client; the realtime hub holds one native subscription per    *)
(* code, counted by its clients.  The subscriptions live in the terminal:  *)
(* they outlast the bridge's runtime, end with the strategy, and a release *)
(* that fails leaves one behind.  Code that runs under a hub's lock never  *)
(* awaits, so each locked section is one step of the event loop.           *)
(*                                                                         *)
(* Abstracted: quotes, sampling intervals, authentication and the parsing  *)
(* of the first message (a rejected client never subscribes).              *)
(***************************************************************************)
EXTENDS Naturals, FiniteSets

CONSTANTS Clients,    \* WebSocket connections of one hub
          Codes,      \* stock codes; whole-quote keys are single codes here
          MaxGroups,  \* sampler groups a behaviour may create
          MaxRuns,    \* runtimes of the bridge, and lives of the strategy, a
                      \* behaviour may see
          Ids,        \* values id(runtime) may take, reused by later runtimes
          Budget      \* native_budget

NoGroup == 0
NoId    == 0

\* Codes are numbers: a client's codes are subscribed in their order.
ASSUME HubAssumption ==
  /\ MaxGroups \in Nat /\ MaxRuns \in Nat /\ Budget \in Nat
  /\ Codes \subseteq Nat /\ IsFiniteSet(Codes)
  /\ NoId \notin Ids /\ Ids # {}

VARIABLES
  groups,   \* the group under each code (NoGroup: none)
  members,  \* subscribers of each group
  sampler,  \* the task of each group
  client,   \* each connection: [at, group, codes]
  slot,     \* its LatestValueQueue
  entries,  \* realtime entries: code -> [seq, life, subs]
  runtime,  \* [n, id, up]: the runtime of the bridge
  active,   \* _active_generation
  stale,    \* the controller still has to invalidate the hub
  strategyRun, \* [life, next]: the strategy and its next subscription number
  open,     \* its subscriptions: seq -> code
  orphans,  \* those whose release failed, or whose number was never learnt
  robbed    \* those whose number was released for an entry of an earlier life

wholeVars == <<groups, members, sampler>>
hubState    == <<entries, runtime, active, stale>>
nativeState == <<strategyRun, open, orphans, robbed>>
realVars  == <<hubState, nativeState>>
hubVars   == <<wholeVars, client, slot, realVars>>

Empty == [c \in {} |-> 0]

HubInit ==
  /\ groups = [k \in Codes |-> NoGroup]
  /\ members = [g \in 1..MaxGroups |-> {}]
  /\ sampler = [g \in 1..MaxGroups |-> "none"]
  /\ client = [c \in Clients |-> [at |-> "new", group |-> NoGroup, codes |-> {}]]
  /\ slot = [c \in Clients |-> "empty"]
  /\ entries = Empty
  /\ runtime = [n |-> 1, id |-> CHOOSE i \in Ids : TRUE, up |-> TRUE]
  /\ active = NoId /\ stale = FALSE
  /\ strategyRun = [life |-> 1, next |-> 1]
  /\ open = Empty /\ orphans = {} /\ robbed = {}

Without(fn, ks) == [k \in DOMAIN fn \ ks |-> fn[k]]

\* LatestValueQueue.offer and replace: the newest value takes the one slot.
Fill(cs, v) == [c \in Clients |-> IF c \in cs THEN v ELSE slot[c]]

\* The sender task: an unavailable notice is the last message before the
\* socket is closed; every exit of the handler unsubscribes next.
Send(c) ==
  /\ client[c].at = "in" /\ slot[c] # "empty"
  /\ slot' = [slot EXCEPT ![c] = "empty"]
  /\ client' = IF slot[c] = "unavailable" THEN [client EXCEPT ![c].at = "leaving"] ELSE client
  /\ UNCHANGED <<wholeVars, realVars>>

PeerLeaves(c) ==
  /\ client[c].at = "in"
  /\ client' = [client EXCEPT ![c].at = "leaving"]
  /\ UNCHANGED <<wholeVars, slot, realVars>>

-----------------------------------------------------------------------------
(* WholeQuoteHub.                                                          *)

\* subscribe: join the group of the code, or start one with its sampler.
SubscribeWhole(c, k) ==
  /\ client[c].at = "new"
  /\ LET g == IF groups[k] # NoGroup THEN groups[k]
              ELSE CHOOSE i \in 1..MaxGroups : sampler[i] = "none"
     IN /\ groups[k] = NoGroup => \E i \in 1..MaxGroups : sampler[i] = "none"
        /\ groups' = [groups EXCEPT ![k] = g]
        /\ sampler' = IF groups[k] = NoGroup THEN [sampler EXCEPT ![g] = "polling"] ELSE sampler
        /\ members' = [members EXCEPT ![g] = @ \cup {c}]
        /\ client' = [client EXCEPT ![c] = [at |-> "in", group |-> g, codes |-> {k}]]
  /\ UNCHANGED <<slot, realVars>>

PollSucceeds(g) ==
  /\ sampler[g] = "polling"
  /\ sampler' = [sampler EXCEPT ![g] = "sleeping"]
  /\ slot' = Fill(members[g], "data")
  /\ UNCHANGED <<groups, members, client, realVars>>

PollsAgain(g) ==
  /\ sampler[g] = "sleeping"
  /\ sampler' = [sampler EXCEPT ![g] = "polling"]
  /\ UNCHANGED <<groups, members, client, slot, realVars>>

\* Mutant: the failed group stays in the hub.
PollFailsKeepsGroup(g) ==
  /\ sampler[g] = "polling"
  /\ sampler' = [sampler EXCEPT ![g] = "dead"]
  /\ slot' = Fill(members[g], "unavailable")
  /\ UNCHANGED <<groups, members, client, realVars>>

\* The native call raised: every subscriber is told, and the group leaves the
\* hub if the hub still holds it.
PollFails(g) ==
  /\ sampler[g] = "polling"
  /\ sampler' = [sampler EXCEPT ![g] = "dead"]
  /\ slot' = Fill(members[g], "unavailable")
  /\ groups' = [k \in Codes |-> IF groups[k] = g THEN NoGroup ELSE groups[k]]
  /\ UNCHANGED <<members, client, realVars>>

\* unsubscribe: by code, so from whatever group now holds it; the last one
\* out removes the group and cancels its sampler.
UnsubscribeWhole(c) ==
  /\ client[c].at = "leaving"
  /\ LET k == CHOOSE x \in client[c].codes : TRUE
         g == groups[k]
         left == IF g = NoGroup THEN {} ELSE members[g] \ {c}
     IN IF g = NoGroup THEN UNCHANGED wholeVars
        ELSE /\ members' = [members EXCEPT ![g] = left]
             /\ groups' = IF left = {} THEN [groups EXCEPT ![k] = NoGroup] ELSE groups
             /\ sampler' = IF left = {} THEN [sampler EXCEPT ![g] = "dead"] ELSE sampler
  /\ client' = [client EXCEPT ![c].at = "gone"]
  /\ UNCHANGED <<slot, realVars>>

\* close, at shutdown: the server drops the connections after it.
CloseWhole ==
  /\ \E k \in Codes : groups[k] # NoGroup
  /\ sampler' = [g \in 1..MaxGroups |->
                   IF \E k \in Codes : groups[k] = g THEN "dead" ELSE sampler[g]]
  /\ groups' = [k \in Codes |-> NoGroup]
  /\ client' = [c \in Clients |-> [client[c] EXCEPT !.at = "gone"]]
  /\ UNCHANGED <<members, slot, realVars>>

WholeNext ==
  \/ \E c \in Clients : \/ Send(c) \/ PeerLeaves(c) \/ UnsubscribeWhole(c)
                        \/ \E k \in Codes : SubscribeWhole(c, k)
  \/ \E g \in 1..MaxGroups : PollSucceeds(g) \/ PollsAgain(g) \/ PollFails(g)
  \/ CloseWhole

-----------------------------------------------------------------------------
(* RealtimeQuoteHub.                                                       *)

Subs == UNION {entries[k].subs : k \in DOMAIN entries}
Generation == IF runtime.up THEN runtime.id ELSE NoId
Handle(e) == [seq |-> e.seq, life |-> e.life]
Handles(ks) == {Handle(entries[k]) : k \in ks}
SeqsOf(hs) == {h.seq : h \in hs}

\* unsubscribe_quote for each handle, a failure swallowed: of the handles only
\* those in `done` reach the terminal, none while the bridge has no runtime.
\* A number the strategy has given again since releases the newer subscription,
\* or at least its callback.
Unsubscribed(hs, done) ==
  LET own == {h \in hs : h.life = strategyRun.life}
      old == hs \ own
  IN [open |-> Without(open, SeqsOf(done)),
      orphans |-> (orphans \cup SeqsOf(own)) \ SeqsOf(done),
      robbed |-> robbed \cup IF runtime.up THEN SeqsOf(old) \cap DOMAIN open ELSE {}]

Reaches(hs) == IF runtime.up THEN SUBSET hs ELSE {{}}

Unsubscribe(hs) ==
  /\ \E done \in Reaches(hs) :
       LET after == Unsubscribed(hs, done)
       IN open' = after.open /\ orphans' = after.orphans /\ robbed' = after.robbed
  /\ UNCHANGED strategyRun

\* _invalidate_locked: all entries go and their clients are told.
ClearEntries ==
  /\ entries' = Empty
  /\ slot' = Fill(Subs, "unavailable")
  /\ Unsubscribe(Handles(DOMAIN entries))

\* The generation check of subscribe.
Replaced == active # NoId /\ Generation # active

\* The number the terminal gives a code when it opens the subscriptions of some,
\* and what it then has open.
NewSeq(ks, k) == strategyRun.next + Cardinality({x \in ks : x < k})
Opened(ks) ==
  [s \in DOMAIN open \cup {NewSeq(ks, k) : k \in ks} |->
     IF s \in DOMAIN open THEN open[s] ELSE CHOOSE k \in ks : NewSeq(ks, k) = s]

\* subscribe: one native subscription for each code that has none.
SubscribeReal(c, ks) ==
  /\ client[c].at = "new" /\ ~Replaced
  /\ LET fresh == ks \ DOMAIN entries
     IN /\ fresh # {} => runtime.up
        /\ Cardinality(DOMAIN entries \cup ks) <= Budget
        /\ entries' = [k \in DOMAIN entries \cup ks |->
              IF k \in fresh THEN [seq |-> NewSeq(fresh, k), life |-> strategyRun.life, subs |-> {c}]
              ELSE [entries[k] EXCEPT !.subs = IF k \in ks THEN @ \cup {c} ELSE @]]
        /\ open' = Opened(fresh)
        /\ strategyRun' = [strategyRun EXCEPT !.next = @ + Cardinality(fresh)]
  /\ active' = Generation
  /\ client' = [client EXCEPT ![c] = [at |-> "in", group |-> NoGroup, codes |-> ks]]
  /\ UNCHANGED <<wholeVars, slot, runtime, stale, orphans, robbed>>

\* The budget is exhausted or a native subscription fails: what was acquired is
\* released, and what the terminal opened meanwhile is left behind if its answer
\* or its release was lost.
SubscribeRefused(c) ==
  /\ client[c].at = "new" /\ ~Replaced
  /\ Codes \ DOMAIN entries # {}
  /\ \E left \in SUBSET (Codes \ DOMAIN entries) :
       /\ left # {} => runtime.up
       /\ open' = Opened(left)
       /\ orphans' = orphans \cup {NewSeq(left, k) : k \in left}
       /\ strategyRun' = [strategyRun EXCEPT !.next = @ + Cardinality(left)]
  /\ active' = Generation
  /\ client' = [client EXCEPT ![c].at = "gone"]
  /\ UNCHANGED <<wholeVars, slot, entries, runtime, stale, robbed>>

\* The check finds another generation than the entries were made in.  It does
\* so only while the bridge has no runtime, and the client is refused next.
SubscribeReplaced(c) ==
  /\ client[c].at = "new" /\ Replaced
  /\ ClearEntries
  /\ active' = Generation
  /\ client' = [client EXCEPT ![c].at = IF runtime.up THEN @ ELSE "gone"]
  /\ UNCHANGED <<wholeVars, runtime, stale>>

QuoteArrives(k) ==
  /\ runtime.up /\ k \in DOMAIN entries
  /\ entries[k].seq \in DOMAIN open /\ open[entries[k].seq] = k
  /\ slot' = Fill(entries[k].subs, "data")
  /\ UNCHANGED <<wholeVars, client, realVars>>

\* _release_locked: entries without a client go, and their native
\* subscriptions with them if the terminal can be reached.
Release(c) ==
  /\ client[c].at = "leaving"
  /\ LET rest(k) == entries[k].subs \ {c}
         done == {k \in client[c].codes \cap DOMAIN entries : rest(k) = {}}
     IN /\ entries' = [k \in DOMAIN entries \ done |->
                         IF k \in client[c].codes THEN [entries[k] EXCEPT !.subs = rest(k)]
                         ELSE entries[k]]
        /\ Unsubscribe(Handles(done))
  /\ client' = [client EXCEPT ![c].at = "gone"]
  /\ UNCHANGED <<wholeVars, slot, runtime, active, stale>>

\* close, at shutdown: the server drops the connections after it.
CloseReal ==
  /\ entries # Empty
  /\ ClearEntries
  /\ client' = [c \in Clients |-> [client[c] EXCEPT !.at = "gone"]]
  /\ UNCHANGED <<wholeVars, runtime, active, stale>>

\* RuntimeController: the bridge's transport is lost, or a runtime that was just
\* built is given up; the terminal's subscriptions stay ...
RuntimeLost ==
  /\ runtime.up
  /\ runtime' = [runtime EXCEPT !.up = FALSE]
  /\ stale' = TRUE
  /\ UNCHANGED <<wholeVars, client, slot, entries, active, nativeState>>

\* ... the hub is invalidated, when no runtime is there to unsubscribe on ...
Invalidate ==
  /\ stale /\ ~runtime.up
  /\ ClearEntries
  /\ active' = NoId /\ stale' = FALSE
  /\ UNCHANGED <<wholeVars, client, runtime>>

\* ... and a new runtime answers, possibly at the old one's address.
RuntimeBack ==
  /\ ~runtime.up /\ ~stale /\ runtime.n < MaxRuns
  /\ \E i \in Ids : runtime' = [n |-> runtime.n + 1, id |-> i, up |-> TRUE]
  /\ UNCHANGED <<wholeVars, client, slot, entries, active, stale, nativeState>>

\* The strategy is started again, while the bridge is connected or not: its
\* subscriptions are gone, and its numbers go on or begin again.  A bridge that
\* has no call under way does not notice.
TerminalForgets ==
  /\ strategyRun.life < MaxRuns
  /\ \E n \in {1, strategyRun.next} : strategyRun' = [life |-> strategyRun.life + 1, next |-> n]
  /\ open' = Empty /\ orphans' = {} /\ robbed' = {}
  /\ UNCHANGED <<wholeVars, client, slot, hubState>>

RealNext ==
  \/ \E c \in Clients : \/ Send(c) \/ PeerLeaves(c) \/ Release(c)
                        \/ SubscribeRefused(c) \/ SubscribeReplaced(c)
                        \/ \E ks \in (SUBSET Codes) \ {{}} : SubscribeReal(c, ks)
  \/ \E k \in Codes : QuoteArrives(k)
  \/ CloseReal \/ RuntimeLost \/ Invalidate \/ RuntimeBack \/ TerminalForgets

-----------------------------------------------------------------------------
(* Nobody waits on a dead sampler: a connected client whose slot is empty  *)
(* is a member of the group its code leads to, whose sampler runs; and a   *)
(* sampler runs only for a group of the hub that has a member.             *)
SamplersMatchClients ==
  /\ \A c \in Clients :
       client[c].at = "in" /\ client[c].group # NoGroup /\ slot[c] # "unavailable" =>
         /\ sampler[client[c].group] \in {"polling", "sleeping"}
         /\ c \in members[client[c].group]
         /\ \A k \in client[c].codes : groups[k] = client[c].group
  /\ \A g \in 1..MaxGroups :
       sampler[g] \in {"polling", "sleeping"} =>
         members[g] # {} /\ \E k \in Codes : groups[k] = g

(* A realtime client that was not told to reconnect is in the entry of     *)
(* each of its codes, and an entry has a client.  The subscription of an   *)
(* entry made in this life of the strategy is open, for its code, unless   *)
(* its number was released for an older entry; and any other subscription  *)
(* the terminal still holds is one whose release, or whose answer, failed. *)
(* (Clients of an entry the strategy forgot wait until a call fails.)      *)
NativeMatchesEntries ==
  /\ \A c \in Clients :
       client[c].at = "in" /\ client[c].group = NoGroup /\ slot[c] # "unavailable" =>
         \A k \in client[c].codes : k \in DOMAIN entries /\ c \in entries[k].subs
  /\ \A k \in DOMAIN entries :
       /\ entries[k].subs # {}
       /\ entries[k].life = strategyRun.life =>
            \/ entries[k].seq \in DOMAIN open /\ open[entries[k].seq] = k
            \/ entries[k].seq \in robbed
  /\ DOMAIN open \subseteq orphans \cup
       SeqsOf({h \in Handles(DOMAIN entries) : h.life = strategyRun.life})

\* Both hubs hold what their connected clients need.
StreamsMatchClients == SamplersMatchClients /\ NativeMatchesEntries

\* Not so: that the terminal holds no subscription without an entry.
NoOrphans == DOMAIN open \subseteq SeqsOf(Handles(DOMAIN entries))

=============================================================================
