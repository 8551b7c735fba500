-------------------------- MODULE ComponentsProofs --------------------------
(***************************************************************************)
(* Proofs about the parts that Components runs side by side, for every     *)
(* value of their constants.  Each part is proved from its own initial     *)
(* states and steps; StepsOfParts carries that to the whole, because a     *)
(* step of one part leaves the variables of the others alone.              *)
(***************************************************************************)
EXTENDS Components, FiniteSetTheorems, TLAPS

\* A step of one part is a step of it, and a stutter of the others.
LEMMA StepsOfParts ==
  [Next]_vars =>
    /\ [TradeNext]_tradeVars /\ [SectorNext]_sectorVars /\ [GateNext]_gateVars
    /\ [CancelNext]_cancelVars /\ [ProbeNext]_probeVars /\ [TeleNext]_teleVars
    /\ [MinuteNext]_minuteVars /\ [ExecNext]_execVars /\ [InstallNext]_installVars
    /\ [BatchNext]_batchVars /\ [ClientsNext]_clientVars
  BY DEF Next, vars

\* All parts start in their initial states.
LEMMA PartsStart ==
  Init => /\ TradeInit /\ SectorInit /\ GateInit /\ CancelInit /\ ProbeInit /\ TeleInit
          /\ MinuteInit /\ ExecInit /\ InstallInit /\ BatchInit /\ ClientsInit
  BY DEF Init


-----------------------------------------------------------------------------
(* Minute subscriptions.  The argument is the lock: whoever has            *)
(* subscriptions to release holds it, and it is only let go when every     *)
(* release was tried.                                                      *)

MinuteActive == {"subscribing", "polling", "refused", "complete", "partial", "raised"}
MinutePlaces == MinuteActive \union {"new", "missing", "cached", "busy", "data", "error", "release_failed"}

\* What the values are.
MinuteTypes ==
  /\ read \in [Requests -> MinutePlaces]
  /\ lacking \in [Requests -> SUBSET Symbols]
  /\ owned \in [Requests -> SUBSET Symbols]
  /\ failed \in [Requests -> SUBSET Symbols]
  /\ holder \in Requests \union {NoHolder}
  /\ nativeSubs \subseteq [by : Requests, code : Symbols]
  /\ stored \subseteq Symbols

\* The lock is held exactly by the read that subscribes, polls or releases.
LockIsActive == \A q \in Requests : holder = q <=> read[q] \in MinuteActive

MinuteInv == MinuteTypes /\ LockIsActive /\ NothingLeftOpen

LEMMA MinuteStart == MinuteInit => MinuteInv
  BY MinuteAssumption DEF MinuteInit, MinuteInv, MinuteTypes, LockIsActive, NothingLeftOpen,
     MinutePlaces, MinuteActive

\* What a read does to another's subscriptions: nothing.
LEMMA MinuteStep == MinuteInv /\ [MinuteNext]_minuteVars => MinuteInv'
<1> SUFFICES ASSUME MinuteInv, [MinuteNext]_minuteVars PROVE MinuteInv'
  OBVIOUS
<1> USE MinuteAssumption DEF MinuteInv, MinuteTypes, LockIsActive, NothingLeftOpen,
        MinutePlaces, MinuteActive, Goes, Ending
<1>1. CASE UNCHANGED minuteVars
  BY <1>1 DEF minuteVars
<1>2. CASE Stored
  BY <1>2 DEF Stored
<1>3. ASSUME NEW q \in Requests, ReadCache(q) PROVE MinuteInv'
  BY <1>3 DEF ReadCache
<1>4. ASSUME NEW q \in Requests, TryLock(q) PROVE MinuteInv'
  BY <1>4 DEF TryLock
<1>5. ASSUME NEW q \in Requests, SubscribeOne(q) PROVE MinuteInv'
  BY <1>5 DEF SubscribeOne
<1>6. ASSUME NEW q \in Requests, AllSubscribed(q) PROVE MinuteInv'
  BY <1>6 DEF AllSubscribed
<1>7. ASSUME NEW q \in Requests, PollEnds(q) PROVE MinuteInv'
  BY <1>7 DEF PollEnds
<1>8. ASSUME NEW q \in Requests, ReleaseOne(q) PROVE MinuteInv'
  BY <1>8 DEF ReleaseOne
<1>9. ASSUME NEW q \in Requests, ReleaseLock(q) PROVE MinuteInv'
  BY <1>9 DEF ReleaseLock
<1> QED BY <1>1, <1>2, <1>3, <1>4, <1>5, <1>6, <1>7, <1>8, <1>9 DEF MinuteNext

\* An open native subscription belongs to the read that will release it, or its
\* release failed and the read says so (get_market_data_ex_scoped).
THEOREM MinuteReleased == Spec => []NothingLeftOpen
<1>1. MinuteInv => NothingLeftOpen
  BY DEF MinuteInv
<1> QED BY PartsStart, StepsOfParts, MinuteStart, MinuteStep, <1>1, PTL DEF Spec

-----------------------------------------------------------------------------
(* Sector downloads.  What the record promises is stronger than what the   *)
(* busy check reads: as long as no two checks raced, a download is the one *)
(* on record from the locked section that wrote it to the end of its       *)
(* thread, so the next check that passes finds none under way.             *)

Askers  == {"new", "busy", "counting", "starting", "waiting", "joining", "timeout",
            "ok", "error"}
Threads == {"none", "queued", "child", "ending", "dead"}

\* What the values are.
SectorTypes ==
  /\ asker \in [Downloads -> Askers]
  /\ thread \in [Downloads -> Threads]
  /\ outcome \in [Downloads -> {"empty", "error", "timeout"}]
  /\ record \in [thread : Downloads \union {Nobody}, running : BOOLEAN]
  /\ lane \in Downloads \union {Nobody, Other}
  /\ stuck \in BOOLEAN /\ raced \in BOOLEAN

\* A thread exists only once its request has started it.
StartedByAsker ==
  \A d \in Downloads :
    asker[d] \in {"new", "busy", "counting", "starting"} => thread[d] = "none"

UnderWay(d) == asker[d] = "starting" \/ Alive(d)

\* The record, from the locked section that writes it to the thread's end.
RecordIsUnderWay ==
  /\ record.running => record.thread \in Downloads /\ thread[record.thread] # "dead"
  /\ raced \/ \A d \in Downloads : UnderWay(d) => record.thread = d /\ record.running

SectorInv == SectorTypes /\ OneChild /\ StartedByAsker /\ RecordIsUnderWay

LEMMA SectorStart == SectorInit => SectorInv
<1> SUFFICES ASSUME SectorInit PROVE SectorInv
  OBVIOUS
<1>1. /\ record.thread = Nobody /\ record.running = FALSE
      /\ record \in [thread : Downloads \union {Nobody}, running : BOOLEAN]
  BY DEF SectorInit, NoRecord
<1>2. SectorTypes
  BY <1>1 DEF SectorInit, SectorTypes, Askers, Threads
<1>3. OneChild /\ StartedByAsker
  BY DEF SectorInit, OneChild, StartedByAsker
<1>4. RecordIsUnderWay
  BY <1>1 DEF SectorInit, RecordIsUnderWay, UnderWay, Alive
<1> QED BY <1>2, <1>3, <1>4 DEF SectorInv

LEMMA SectorStep == SectorInv /\ [SectorNext]_sectorVars => SectorInv'
<1> SUFFICES ASSUME SectorInv, [SectorNext]_sectorVars PROVE SectorInv'
  OBVIOUS
<1> USE SectorAssumption DEF SectorInv, SectorTypes, OneChild, StartedByAsker,
        RecordIsUnderWay, UnderWay, Alive, Askers, Threads
<1>1. CASE UNCHANGED sectorVars
  BY <1>1 DEF sectorVars
<1>2. CASE OtherCall
  BY <1>2 DEF OtherCall, Other, Nobody
<1>3. ASSUME NEW d \in Downloads, CheckBusy(d) PROVE SectorInv'
  BY <1>3 DEF CheckBusy, NoRecord
<1>4. ASSUME NEW d \in Downloads, Record(d) PROVE SectorInv'
  BY <1>4 DEF Record
<1>5. ASSUME NEW d \in Downloads, StartThread(d) PROVE SectorInv'
  BY <1>5 DEF StartThread
<1>6. ASSUME NEW d \in Downloads, Guard(d) PROVE SectorInv'
  BY <1>6 DEF Guard
<1>7. ASSUME NEW d \in Downloads, GiveUpDownload(d) PROVE SectorInv'
  BY <1>7 DEF GiveUpDownload, Cleared, NoRecord
<1>8. ASSUME NEW d \in Downloads, FinishDownload(d) PROVE SectorInv'
  BY <1>8 DEF FinishDownload, Cleared, NoRecord
<1>9. ASSUME NEW d \in Downloads, EnterLane(d) PROVE SectorInv'
  BY <1>9 DEF EnterLane
<1>10. ASSUME NEW d \in Downloads, LaneRefused(d) PROVE SectorInv'
  BY <1>10 DEF LaneRefused
<1>11. ASSUME NEW d \in Downloads, ChildEnds(d) PROVE SectorInv'
  BY <1>11 DEF ChildEnds
<1>12. ASSUME NEW d \in Downloads, ThreadEnds(d) PROVE SectorInv'
  BY <1>12 DEF ThreadEnds
<1> QED BY <1>1, <1>2, <1>3, <1>4, <1>5, <1>6, <1>7, <1>8, <1>9, <1>10, <1>11, <1>12
        DEF SectorNext

\* Never two children on the lane, nor a child beside another native call; and
\* a running record names a live download, every live one unless two busy
\* checks raced (_run_sector_download and its lane).
THEOREM OneSectorDownload == Spec => []OneDownload
<1>1. SectorInv => OneDownload
  BY DEF SectorInv, SectorTypes, OneDownload, RecordMatchesThreads, RecordIsUnderWay, UnderWay,
     OneChild
<1> QED BY PartsStart, StepsOfParts, SectorStart, SectorStep, <1>1, PTL DEF Spec

-----------------------------------------------------------------------------
(* Batches.  "A tag is placed once" is not inductive alone: the item that  *)
(* reaches passorder has found no journal entry under its tag, and the     *)
(* journal has every call of this life that did not raise.  That receipts  *)
(* are true needs what a served item has seen at each step, and that for an*)
(* entry with an order id the broker shows an order that may stand for it. *)

ItemType  == [tag : Tags, terms : OrderTerms]
CallType  == [tag : Tags, terms : OrderTerms, life : Nat, raised : BOOLEAN]
Accepts   == {"idempotent", "confirmed", "unconfirmed"}
Receipts  == Accepts \cup {"rejected"}

\* What the values are.
BatchTypes ==
  /\ items \in [Batches -> Seq(ItemType)]
  /\ batch \in [Batches -> {"new", "queued", "serving", "answered", "refused"}]
  /\ results \in [Batches -> Seq(Receipts)]
  /\ step \in {"start", "lookup", "native", "poll"}
  /\ placed \in Seq(CallType)
  /\ shown \subseteq DOMAIN placed /\ bare \subseteq shown /\ accepted \subseteq DOMAIN placed
  /\ journaled \subseteq DOMAIN placed /\ learned \subseteq journaled
  /\ life \in Nat /\ unknown \subseteq Batches

\* One batch is served at a time, and it has an item in hand.
BatchProgress ==
  /\ \A b \in Batches : Len(results[b]) <= Len(items[b])
  /\ \A b \in Batches : batch[b] = "new" => results[b] = <<>>
  /\ \A b \in Batches : batch[b] \in {"queued", "serving"} => Len(results[b]) < Len(items[b])
  /\ \A b, c \in Batches : batch[b] = "serving" /\ batch[c] = "serving" => b = c
  /\ (\A b \in Batches : batch[b] # "serving") => step = "start"

\* The journal has the calls of this life that did not raise, and an entry with
\* an order id is matched by an order the broker shows.
JournalKnows ==
  /\ \A p \in DOMAIN placed :
       /\ placed[p].life <= life
       /\ placed[p].life = life /\ ~placed[p].raised => p \in journaled
  /\ \A e \in learned : \E p \in shown : StandsFor(p, placed[e])

\* What the item in hand has found so far.
StepKnows ==
  \A b \in Batches : batch[b] = "serving" =>
    /\ step # "start" => \A e \in EntriesOf(Item(b)) : Agrees(e, Item(b))
    /\ step = "native" => EntriesOf(Item(b)) = {}
    /\ step = "poll" => \E p \in DOMAIN placed : Agrees(p, Item(b))

\* What each receipt stands for.
ReceiptsKnown ==
  \A b \in Batches : \A i \in 1..Len(results[b]) :
    /\ results[b][i] \in Accepts => \E p \in DOMAIN placed : StandsFor(p, items[b][i])
    /\ results[b][i] = "idempotent" => \E p \in shown : StandsFor(p, items[b][i])

BatchInv ==
  BatchTypes /\ BatchProgress /\ JournalKnows /\ StepKnows /\ ReceiptsKnown /\ TagPlacedOnce

LEMMA BatchStart == BatchInit => BatchInv
  BY DEF BatchInit, BatchInv, BatchTypes, BatchProgress, JournalKnows, StepKnows, ReceiptsKnown,
     TagPlacedOnce, ItemType, CallType, Receipts, Accepts

-----------------------------------------------------------------------------
\* A receipt is appended to the others.
LEMMA ReceiptAppended ==
  ASSUME NEW rs \in Seq(Receipts), NEW r \in Receipts
  PROVE  /\ Append(rs, r) \in Seq(Receipts)
         /\ Len(Append(rs, r)) = Len(rs) + 1
         /\ \A i \in 1..Len(rs) : Append(rs, r)[i] = rs[i]
         /\ Append(rs, r)[Len(rs) + 1] = r
  OBVIOUS

\* The item in hand gets a receipt that is true of it, and nothing is placed.
LEMMA ItemFinishes ==
  ASSUME BatchInv, NEW b \in Batches, NEW r \in Receipts,
         batch[b] = "serving", ItemDone(b, r),
         items' = items, placed' = placed, shown' = shown, bare' = bare, accepted' = accepted,
         journaled' = journaled, life' = life, unknown' = unknown,
         learned' \subseteq journaled,
         \A e \in learned' : \E p \in shown : StandsFor(p, placed[e]),
         r \in Accepts => \E p \in DOMAIN placed : StandsFor(p, Item(b)),
         r = "idempotent" => \E p \in shown : StandsFor(p, Item(b))
  PROVE  BatchInv'
<1> USE DEF BatchInv
<1>1. /\ results' = [results EXCEPT ![b] = Append(results[b], r)]
      /\ step' = "start"
      /\ batch' = [batch EXCEPT ![b] =
                     IF Len(results[b]) + 1 = Len(items[b]) THEN "answered" ELSE "serving"]
  BY DEF ItemDone, Becomes
<1>2. results[b] \in Seq(Receipts) /\ items[b] \in Seq(ItemType)
  BY DEF BatchTypes
<1>3. /\ results'[b] \in Seq(Receipts)
      /\ Len(results'[b]) = Len(results[b]) + 1
      /\ \A i \in 1..Len(results[b]) : results'[b][i] = results[b][i]
      /\ results'[b][Len(results[b]) + 1] = r
      /\ \A c \in Batches : c # b => results'[c] = results[c]
  BY <1>1, <1>2, ReceiptAppended DEF BatchTypes
<1>4. BatchTypes'
  BY <1>1, <1>3 DEF BatchTypes
<1>5. BatchProgress'
  BY <1>1, <1>2, <1>3 DEF BatchTypes, BatchProgress
<1>6. JournalKnows' /\ TagPlacedOnce'
  BY DEF JournalKnows, TagPlacedOnce, StandsFor, Unjournaled, Fits, Agrees, IsFor
<1>7. StepKnows'
  BY <1>1 DEF StepKnows
<1>8. ReceiptsKnown'
  <2> SUFFICES ASSUME NEW c \in Batches, NEW i \in 1..Len(results'[c])
               PROVE  /\ results'[c][i] \in Accepts =>
                           \E p \in DOMAIN placed : StandsFor(p, items[c][i])'
                      /\ results'[c][i] = "idempotent" =>
                           \E p \in shown : StandsFor(p, items[c][i])'
    BY DEF ReceiptsKnown
  <2>0. \A p : StandsFor(p, items[c][i]) => StandsFor(p, items[c][i])'
    BY DEF StandsFor, Unjournaled, Fits, Agrees, IsFor
  <2>1. CASE c = b /\ i = Len(results[b]) + 1
    BY <2>0, <2>1, <1>3 DEF Item
  <2>2. CASE c = b /\ i \in 1..Len(results[b])
    BY <2>0, <2>2, <1>3 DEF ReceiptsKnown
  <2>3. CASE c # b
    BY <2>0, <2>3, <1>3 DEF ReceiptsKnown
  <2> QED BY <2>1, <2>2, <2>3, <1>2, <1>3
<1> QED BY <1>4, <1>5, <1>6, <1>7, <1>8

\* The item in hand goes on to a step for which it knows enough.
LEMMA ItemGoesOn ==
  ASSUME BatchInv, NEW b \in Batches, NEW s \in {"lookup", "native", "poll"},
         batch[b] = "serving", GoesTo(s),
         items' = items, placed' = placed, shown' = shown, bare' = bare, accepted' = accepted,
         journaled' = journaled, learned' = learned, life' = life, unknown' = unknown,
         \A e \in EntriesOf(Item(b)) : Agrees(e, Item(b)),
         s = "native" => EntriesOf(Item(b)) = {},
         s = "poll" => \E p \in DOMAIN placed : Agrees(p, Item(b))
  PROVE  BatchInv'
<1> USE DEF BatchInv, GoesTo
<1>1. BatchTypes' /\ BatchProgress'
  BY DEF BatchTypes, BatchProgress
<1>2. JournalKnows' /\ TagPlacedOnce'
  BY DEF JournalKnows, TagPlacedOnce, StandsFor, Unjournaled, Fits, Agrees, IsFor
<1>3. \A c \in Batches : batch[c] = "serving" => c = b
  BY DEF BatchProgress
<1>4. StepKnows'
  BY <1>3 DEF StepKnows, EntriesOf, Item, Agrees, IsFor
<1>5. ReceiptsKnown'
  BY DEF ReceiptsKnown, StandsFor, Unjournaled, Fits, Agrees, IsFor
<1> QED BY <1>1, <1>2, <1>4, <1>5

\* An order shown under the item's tag.
LEMMA FoundIsTrue ==
  ASSUME BatchInv, NEW b \in Batches, NEW r \in {"idempotent", "confirmed"},
         batch[b] = "serving", step # "start", FoundOrder(b, r),
         items' = items, placed' = placed, shown' = shown, bare' = bare, accepted' = accepted,
         journaled' = journaled, life' = life, unknown' = unknown
  PROVE  BatchInv'
<1> PICK p \in shown :
      /\ IsFor(p, Item(b))
      /\ \/ ItemDone(b, "rejected") /\ UNCHANGED learned
         \/ /\ Fits(p, Item(b)) /\ ItemDone(b, r)
            /\ learned' = learned \/ learned' = learned \cup EntriesOf(Item(b))
  BY DEF FoundOrder
<1>1. p \in DOMAIN placed
  BY DEF BatchInv, BatchTypes
<1>2. CASE ItemDone(b, "rejected") /\ UNCHANGED learned
  BY <1>2, ItemFinishes DEF BatchInv, BatchTypes, JournalKnows, Receipts, Accepts
<1>3. CASE /\ Fits(p, Item(b)) /\ ItemDone(b, r)
           /\ learned' = learned \/ learned' = learned \cup EntriesOf(Item(b))
  <2>1. \A e \in EntriesOf(Item(b)) : Agrees(e, Item(b)) /\ e \in journaled
    BY DEF BatchInv, StepKnows, EntriesOf
  <2>2. learned' \subseteq journaled
    BY <1>3, <2>1 DEF BatchInv, BatchTypes
  <2>3. StandsFor(p, Item(b))
    <3>1. placed[p] \in CallType /\ life \in Nat
      BY <1>1 DEF BatchInv, BatchTypes
    <3>2. placed[p].life < life \/ placed[p].raised \/ p \in journaled
      BY <1>1, <3>1 DEF BatchInv, JournalKnows, CallType
    <3>3. p \in journaled => Agrees(p, Item(b))
      BY <2>1 DEF EntriesOf
    <3> QED BY <1>3, <3>2, <3>3 DEF StandsFor, Unjournaled
  <2>4. \A e \in learned' : \E q \in shown : StandsFor(q, placed[e])
    <3> SUFFICES ASSUME NEW e \in EntriesOf(Item(b)) PROVE StandsFor(p, placed[e])
      BY <1>3 DEF BatchInv, JournalKnows
    <3>1. placed[e].tag = Item(b).tag /\ placed[e].terms = Item(b).terms
      BY <2>1 DEF Agrees, IsFor
    <3> QED BY <2>3, <3>1 DEF StandsFor, Fits, Agrees, IsFor
  <2>5. r \in Receipts
    BY DEF Receipts, Accepts
  <2> QED BY <1>1, <1>3, <2>2, <2>3, <2>4, <2>5, ItemFinishes
<1> QED BY <1>2, <1>3

\* passorder is called for an item whose tag the journal does not have.
LEMMA ItemIsPlaced ==
  ASSUME BatchInv, NEW b \in Batches, PlaceItem(b)
  PROVE  BatchInv'
<1> DEFINE n == Len(placed) + 1
<1> USE DEF BatchInv
<1>1. PICK raised \in BOOLEAN :
        /\ placed' = Append(placed, [tag |-> Item(b).tag, terms |-> Item(b).terms,
                                     life |-> life, raised |-> raised])
        /\ journaled' = IF raised THEN journaled ELSE journaled \cup {n}
        /\ IF raised THEN ItemDone(b, "rejected") ELSE GoesTo("poll")
  BY DEF PlaceItem, JournalsCall
<1>2. /\ batch[b] = "serving" /\ step = "native"
      /\ accepted' = accepted \/ accepted' = accepted \cup {n}
      /\ items' = items /\ shown' = shown /\ bare' = bare /\ learned' = learned
      /\ life' = life /\ unknown' = unknown
  BY DEF PlaceItem, BatchRows
<1>3. Item(b) \in ItemType
  BY <1>2 DEF BatchTypes, BatchProgress, Item
<1>4. /\ placed \in Seq(CallType) /\ n \in Nat /\ n \notin DOMAIN placed
      /\ placed' \in Seq(CallType) /\ DOMAIN placed' = DOMAIN placed \cup {n}
      /\ \A p \in DOMAIN placed : placed'[p] = placed[p] /\ p < n
      /\ placed'[n].tag = Item(b).tag /\ placed'[n].terms = Item(b).terms
      /\ placed'[n].life = life /\ placed'[n].raised = raised
  <2>1. [tag |-> Item(b).tag, terms |-> Item(b).terms, life |-> life, raised |-> raised] \in CallType
    BY <1>3 DEF BatchTypes, ItemType, CallType
  <2>2. placed \in Seq(CallType)
    BY DEF BatchTypes
  <2> QED BY <2>1, <2>2, <1>1
<1>5. EntriesOf(Item(b)) = {}
  BY <1>2 DEF StepKnows
<1>6. TagPlacedOnce'
  <2> SUFFICES ASSUME NEW p \in DOMAIN placed', NEW q \in DOMAIN placed', p < q,
                      placed'[p].tag = placed'[q].tag
               PROVE  placed'[p].life < placed'[q].life \/ placed'[p].raised
    BY DEF TagPlacedOnce
  <2>1. p \in DOMAIN placed
    BY <1>4
  <2>2. CASE q \in DOMAIN placed
    BY <2>1, <2>2, <1>4 DEF TagPlacedOnce
  <2>3. CASE q = n
    <3>1. placed[p].tag = Item(b).tag
      BY <2>1, <2>3, <1>4
    <3>2. p \notin journaled
      BY <3>1, <1>5 DEF EntriesOf, IsFor
    <3>3. placed[p].life <= life /\ (placed[p].life = life => placed[p].raised)
      BY <2>1, <3>2 DEF JournalKnows
    <3>4. placed[p].life \in Nat /\ life \in Nat
      <4>1. placed[p] \in CallType
        BY <2>1, <1>4
      <4> QED BY <4>1 DEF BatchTypes, CallType
    <3>5. CASE placed[p].life = life
      BY <3>3, <3>5, <2>1, <1>4
    <3>6. CASE placed[p].life < life
      BY <3>6, <2>1, <2>3, <1>4
    <3> QED BY <3>3, <3>4, <3>5, <3>6
  <2> QED BY <2>2, <2>3, <1>4
<1>7. JournalKnows'
  <2>1. \A p \in DOMAIN placed' :
          /\ placed'[p].life <= life
          /\ placed'[p].life = life /\ ~placed'[p].raised => p \in journaled'
    <3> SUFFICES ASSUME NEW p \in DOMAIN placed'
                 PROVE  /\ placed'[p].life <= life
                        /\ placed'[p].life = life /\ ~placed'[p].raised => p \in journaled'
      OBVIOUS
    <3>1. CASE p \in DOMAIN placed
      BY <3>1, <1>1, <1>4 DEF JournalKnows
    <3>2. CASE p = n
      <4>1. placed'[p].life <= life
        BY <3>2, <1>4 DEF BatchTypes
      <4>2. ~placed'[p].raised => p \in journaled'
        BY <3>2, <1>1, <1>4
      <4> QED BY <4>1, <4>2
    <3> QED BY <3>1, <3>2, <1>4
  <2>2. \A e \in learned' : \E p \in shown' : StandsFor(p, placed[e])'
    <3> SUFFICES ASSUME NEW e \in learned
                 PROVE  \E p \in shown : StandsFor(p, placed[e])'
      BY <1>2
    <3>1. e \in DOMAIN placed /\ shown \subseteq DOMAIN placed
      BY DEF BatchTypes
    <3>2. PICK p \in shown : StandsFor(p, placed[e])
      BY DEF JournalKnows
    <3>3. placed'[p] = placed[p] /\ placed'[e] = placed[e]
      BY <3>1, <1>4
    <3> QED BY <3>2, <3>3, <1>2 DEF StandsFor, Unjournaled, Fits, Agrees, IsFor
  <2> QED BY <2>1, <2>2, <1>2 DEF JournalKnows
<1>8. \A c \in Batches : batch[c] = "serving" => c = b
  BY <1>2 DEF BatchProgress
<1>9. \E p \in DOMAIN placed' : placed'[p].tag = Item(b).tag /\ placed'[p].terms = Item(b).terms
  BY <1>4
<1>10. \A e \in journaled' : placed'[e].tag = Item(b).tag => placed'[e].terms = Item(b).terms
  <2> SUFFICES ASSUME NEW e \in journaled', placed'[e].tag = Item(b).tag
               PROVE  placed'[e].terms = Item(b).terms
    OBVIOUS
  <2>1. CASE e = n
    BY <2>1, <1>4
  <2>2. CASE e \in journaled
    <3>1. placed[e].tag = Item(b).tag
      BY <2>2, <1>4 DEF BatchTypes
    <3> QED BY <3>1, <2>2, <1>5 DEF EntriesOf, IsFor
  <2> QED BY <2>1, <2>2, <1>1
<1>11. \A c \in Batches : \A i \in 1..Len(results[c]) :
         /\ results[c][i] \in Accepts => \E p \in DOMAIN placed' : StandsFor(p, items[c][i])'
         /\ results[c][i] = "idempotent" => \E p \in shown : StandsFor(p, items[c][i])'
  <2> SUFFICES ASSUME NEW c \in Batches, NEW i \in 1..Len(results[c]),
                      NEW p \in DOMAIN placed, StandsFor(p, items[c][i])
               PROVE  StandsFor(p, items[c][i])'
    BY <1>4 DEF ReceiptsKnown, BatchTypes
  <2>1. placed'[p] = placed[p]
    BY <1>4
  <2> QED BY <2>1, <1>2 DEF StandsFor, Unjournaled, Fits, Agrees, IsFor
<1>12. /\ shown' \subseteq DOMAIN placed' /\ bare' \subseteq shown' /\ accepted' \subseteq DOMAIN placed'
       /\ journaled' \subseteq DOMAIN placed' /\ learned' \subseteq journaled'
  BY <1>1, <1>2, <1>4 DEF BatchTypes
<1>13. CASE raised
  <2>1. /\ results' = [results EXCEPT ![b] = Append(results[b], "rejected")]
        /\ step' = "start"
        /\ batch' = [batch EXCEPT ![b] =
                       IF Len(results[b]) + 1 = Len(items[b]) THEN "answered" ELSE "serving"]
    BY <1>1, <1>13 DEF ItemDone, Becomes
  <2>2. results[b] \in Seq(Receipts) /\ "rejected" \in Receipts /\ "rejected" \notin Accepts
    BY DEF BatchTypes, Receipts, Accepts
  <2>3. /\ results'[b] \in Seq(Receipts)
        /\ Len(results'[b]) = Len(results[b]) + 1
        /\ \A i \in 1..Len(results[b]) : results'[b][i] = results[b][i]
        /\ results'[b][Len(results[b]) + 1] = "rejected"
        /\ \A c \in Batches : c # b => results'[c] = results[c]
    BY <2>1, <2>2, ReceiptAppended DEF BatchTypes
  <2>4. BatchTypes'
    BY <2>1, <2>3, <1>2, <1>4, <1>12 DEF BatchTypes
  <2>5. BatchProgress'
    BY <2>1, <2>3, <1>2 DEF BatchTypes, BatchProgress
  <2>6. StepKnows'
    BY <2>1 DEF StepKnows
  <2>7. ReceiptsKnown'
    <3> SUFFICES ASSUME NEW c \in Batches, NEW i \in 1..Len(results'[c])
                 PROVE  /\ results'[c][i] \in Accepts =>
                             \E p \in DOMAIN placed' : StandsFor(p, items[c][i])'
                        /\ results'[c][i] = "idempotent" =>
                             \E p \in shown : StandsFor(p, items[c][i])'
      BY <1>2 DEF ReceiptsKnown
    <3>1. CASE c = b /\ i = Len(results[b]) + 1
      BY <3>1, <2>2, <2>3
    <3>2. CASE c = b /\ i \in 1..Len(results[b])
      BY <3>2, <2>3, <1>11
    <3>3. CASE c # b
      BY <3>3, <2>3, <1>11
    <3> QED BY <3>1, <3>2, <3>3, <2>2, <2>3
  <2> QED BY <1>6, <1>7, <2>4, <2>5, <2>6, <2>7
<1>14. CASE ~raised
  <2>1. step' = "poll" /\ results' = results /\ batch' = batch
    BY <1>1, <1>14 DEF GoesTo
  <2>2. BatchTypes'
    BY <2>1, <1>2, <1>4, <1>12 DEF BatchTypes
  <2>3. BatchProgress'
    BY <2>1, <1>2 DEF BatchProgress
  <2>4. StepKnows'
    <3> SUFFICES ASSUME NEW c \in Batches, batch'[c] = "serving"
                 PROVE  /\ \A e \in EntriesOf(Item(c))' : Agrees(e, Item(c))'
                        /\ \E p \in DOMAIN placed' : Agrees(p, Item(c))'
      BY <2>1 DEF StepKnows
    <3>1. c = b
      BY <2>1, <1>8
    <3>2. Item(c)' = Item(b)
      BY <3>1, <2>1, <1>2 DEF Item
    <3> QED BY <3>2, <1>9, <1>10 DEF EntriesOf, Agrees, IsFor
  <2>5. ReceiptsKnown'
    BY <2>1, <1>2, <1>11 DEF ReceiptsKnown, StandsFor, Unjournaled, Fits, Agrees, IsFor
  <2> QED BY <1>6, <1>7, <2>2, <2>3, <2>4, <2>5
<1> QED BY <1>13, <1>14

-----------------------------------------------------------------------------
\* Every step of the batches keeps the invariant.
LEMMA BatchStep == BatchInv /\ [BatchNext]_batchVars => BatchInv'
<1> SUFFICES ASSUME BatchInv, [BatchNext]_batchVars PROVE BatchInv'
  OBVIOUS
<1> USE DEF BatchInv, BatchBroker, BatchRows, BatchJournal
<1>1. CASE UNCHANGED batchVars
  BY <1>1 DEF batchVars, BatchTypes, BatchProgress, JournalKnows, StepKnows, ReceiptsKnown,
              TagPlacedOnce, EntriesOf, Item, StandsFor, Unjournaled, Fits, Agrees, IsFor
<1>2. ASSUME NEW b \in Batches, SendBatch(b) PROVE BatchInv'
  <2> PICK k \in 1..MaxItems :
        \E s \in [1..k -> ItemType] : items' = [items EXCEPT ![b] = s]
    BY <1>2 DEF SendBatch, ItemType
  <2>1. PICK s \in [1..k -> ItemType] : items' = [items EXCEPT ![b] = s]
    OBVIOUS
  <2>3. s \in Seq(ItemType) /\ Len(s) = k /\ k \in Nat /\ k >= 1
    BY <2>1, BatchAssumption
  <2>4. /\ batch[b] = "new" /\ results[b] = <<>>
        /\ batch' = [batch EXCEPT ![b] = "queued"]
        /\ results' = results /\ step' = step /\ placed' = placed /\ shown' = shown
        /\ bare' = bare /\ accepted' = accepted /\ journaled' = journaled /\ learned' = learned
        /\ life' = life /\ unknown' = unknown
    BY <1>2 DEF SendBatch, Becomes, BatchProgress
  <2>5. BatchTypes' /\ BatchProgress'
    BY <2>1, <2>3, <2>4 DEF BatchTypes, BatchProgress
  <2>6. JournalKnows' /\ TagPlacedOnce'
    BY <2>4 DEF JournalKnows, TagPlacedOnce, StandsFor, Unjournaled, Fits, Agrees, IsFor
  <2>7. \A c \in Batches : c # b => items'[c] = items[c]
    BY <2>1 DEF BatchTypes
  <2>8. StepKnows'
    <3> SUFFICES ASSUME NEW c \in Batches, batch'[c] = "serving"
                 PROVE  /\ step # "start" => \A e \in EntriesOf(Item(c)) : Agrees(e, Item(c))
                        /\ step = "native" => EntriesOf(Item(c)) = {}
                        /\ step = "poll" => \E p \in DOMAIN placed : Agrees(p, Item(c))
                        /\ Item(c)' = Item(c)
      BY <2>4 DEF StepKnows, EntriesOf, Agrees, IsFor
    <3>1. batch[c] = "serving" /\ c # b
      BY <2>4 DEF BatchTypes
    <3>2. Item(c)' = Item(c)
      BY <3>1, <2>4, <2>7 DEF Item
    <3> QED BY <3>1, <3>2 DEF StepKnows
  <2>9. ReceiptsKnown'
    BY <2>4, <2>7 DEF ReceiptsKnown, StandsFor, Unjournaled, Fits, Agrees, IsFor
  <2> QED BY <2>5, <2>6, <2>8, <2>9
<1>3. ASSUME NEW b \in Batches, BatchLost(b) PROVE BatchInv'
  BY <1>3 DEF BatchLost, BatchTypes, BatchProgress, JournalKnows, StepKnows, ReceiptsKnown,
              TagPlacedOnce, EntriesOf, Item, StandsFor, Unjournaled, Fits, Agrees, IsFor
<1>4. ASSUME NEW b \in Batches, StartBatch(b) PROVE BatchInv'
  <2>1. /\ batch[b] = "queued" /\ \A c \in Batches : batch[c] # "serving"
        /\ \/ batch' = [batch EXCEPT ![b] = "refused"]
           \/ batch' = [batch EXCEPT ![b] = "serving"]
        /\ UNCHANGED <<items, results, step, placed, shown, bare, accepted, journaled, learned,
                       life, unknown>>
    BY <1>4 DEF StartBatch, Becomes
  <2>2. step = "start"
    BY <2>1 DEF BatchProgress
  <2>3. BatchTypes' /\ BatchProgress'
    BY <2>1, <2>2 DEF BatchTypes, BatchProgress
  <2>4. JournalKnows' /\ TagPlacedOnce' /\ StepKnows' /\ ReceiptsKnown'
    BY <2>1, <2>2 DEF JournalKnows, TagPlacedOnce, StepKnows, ReceiptsKnown, StandsFor,
                      Unjournaled, Fits, Agrees, IsFor
  <2> QED BY <2>3, <2>4
<1>5. ASSUME NEW b \in Batches, RejectItem(b) PROVE BatchInv'
  <2>1. ItemDone(b, "rejected")
    BY <1>5 DEF RejectItem
  <2>2. "rejected" \in Receipts /\ "rejected" \notin Accepts
    BY DEF Receipts, Accepts
  <2> QED BY <1>5, <2>1, <2>2, ItemFinishes DEF RejectItem, BatchTypes, JournalKnows
<1>6. ASSUME NEW b \in Batches, ReadJournal(b) PROVE BatchInv'
  <2>1. /\ batch[b] = "serving" /\ Journal(b)
        /\ UNCHANGED <<items, placed, shown, bare, accepted, journaled, learned, life, unknown>>
    BY <1>6 DEF ReadJournal
  <2>2. /\ "rejected" \in Receipts /\ "rejected" \notin Accepts
        /\ "idempotent" \in Receipts
    BY DEF Receipts, Accepts
  <2>3. CASE ItemDone(b, "rejected")
    BY <2>1, <2>2, <2>3, ItemFinishes DEF BatchTypes, JournalKnows
  <2>4. CASE /\ \A e \in EntriesOf(Item(b)) : Agrees(e, Item(b))
             /\ EntriesOf(Item(b)) \cap learned # {}
             /\ ItemDone(b, "idempotent")
    <3>1. PICK e \in learned : Agrees(e, Item(b))
      BY <2>4
    <3>2. PICK p \in shown : StandsFor(p, placed[e])
      BY DEF JournalKnows
    <3>3. StandsFor(p, Item(b)) /\ p \in DOMAIN placed
      BY <3>1, <3>2 DEF StandsFor, Fits, Agrees, IsFor, BatchTypes
    <3> QED BY <2>1, <2>2, <2>4, <3>3, ItemFinishes DEF BatchTypes, JournalKnows
  <2>5. CASE (\A e \in EntriesOf(Item(b)) : Agrees(e, Item(b))) /\ GoesTo("lookup")
    BY <2>1, <2>5, ItemGoesOn
  <2> QED BY <2>1, <2>3, <2>4, <2>5 DEF Journal
<1>7. ASSUME NEW b \in Batches, LookUpItem(b) PROVE BatchInv'
  <2>1. /\ batch[b] = "serving" /\ step = "lookup"
        /\ UNCHANGED <<items, placed, shown, bare, accepted, journaled, life, unknown>>
    BY <1>7 DEF LookUpItem
  <2>2. CASE FoundOrder(b, "idempotent")
    BY <2>1, <2>2, FoundIsTrue
  <2>3. ASSUME NEW s \in {"native", "poll"}, GoesTo(s), UNCHANGED learned,
               s = "native" <=> EntriesOf(Item(b)) = {}
        PROVE  BatchInv'
    <3>1. \A e \in EntriesOf(Item(b)) : Agrees(e, Item(b)) /\ e \in DOMAIN placed
      BY <2>1 DEF StepKnows, EntriesOf, BatchTypes
    <3>2. s = "poll" => \E p \in DOMAIN placed : Agrees(p, Item(b))
      BY <2>3, <3>1
    <3> QED BY <2>1, <2>3, <3>1, <3>2, ItemGoesOn
  <2> QED BY <1>7, <2>2, <2>3 DEF LookUpItem
<1>8. ASSUME NEW b \in Batches, PlaceItem(b) PROVE BatchInv'
  BY <1>8, ItemIsPlaced
<1>9. ASSUME NEW b \in Batches, PollItem(b) PROVE BatchInv'
  <2>1. /\ batch[b] = "serving" /\ step = "poll"
        /\ UNCHANGED <<items, placed, shown, bare, accepted, journaled, life, unknown>>
    BY <1>9 DEF PollItem
  <2>2. CASE FoundOrder(b, "confirmed")
    BY <2>1, <2>2, FoundIsTrue
  <2>3. CASE ItemDone(b, "unconfirmed") /\ UNCHANGED learned
    <3>1. "unconfirmed" \in Receipts /\ \E p \in DOMAIN placed : Agrees(p, Item(b))
      BY <2>1 DEF Receipts, Accepts, StepKnows
    <3> QED BY <2>1, <2>3, <3>1, ItemFinishes DEF BatchTypes, JournalKnows, StandsFor
  <2> QED BY <1>9, <2>2, <2>3 DEF PollItem
<1>10. ASSUME StrategyRestarts PROVE BatchInv'
  <2>1. /\ life' = life + 1 /\ journaled' = {} /\ learned' = {} /\ step' = "start"
        /\ batch' = [b \in Batches |-> IF batch[b] \in {"queued", "serving"} THEN "refused"
                                       ELSE batch[b]]
        /\ unknown' \subseteq Batches
        /\ UNCHANGED <<items, results, placed, shown, bare, accepted>>
    BY <1>10 DEF StrategyRestarts, BatchTypes
  <2>2. BatchTypes' /\ BatchProgress'
    BY <2>1 DEF BatchTypes, BatchProgress
  <2>3. \A p \in DOMAIN placed : placed[p].life < life'
    <3> SUFFICES ASSUME NEW p \in DOMAIN placed PROVE placed[p].life < life + 1
      BY <2>1
    <3>1. placed[p] \in CallType
      BY DEF BatchTypes
    <3>2. placed[p].life \in Nat /\ life \in Nat /\ placed[p].life <= life
      BY <3>1 DEF BatchTypes, CallType, JournalKnows
    <3> QED BY <3>2
  <2>4. JournalKnows' /\ TagPlacedOnce' /\ StepKnows'
    <3>1. \A p \in DOMAIN placed : placed[p].life <= life' /\ placed[p].life # life'
      <4> SUFFICES ASSUME NEW p \in DOMAIN placed
                   PROVE  placed[p].life <= life' /\ placed[p].life # life'
        OBVIOUS
      <4>1. placed[p] \in CallType
        BY DEF BatchTypes
      <4>2. placed[p].life \in Nat /\ life' \in Nat
        BY <2>1, <4>1 DEF BatchTypes, CallType
      <4> QED BY <4>2, <2>3
    <3> QED BY <3>1, <2>1 DEF JournalKnows, TagPlacedOnce, StepKnows
  <2>5. ReceiptsKnown'
    BY <2>1, <2>3 DEF ReceiptsKnown, StandsFor, Unjournaled, Fits, Agrees, IsFor, BatchTypes
  <2> QED BY <2>2, <2>4, <2>5
<1>11. ASSUME Shows PROVE BatchInv'
  <2>1. PICK p \in accepted :
          /\ shown' = shown \cup {p}
          /\ bare' = bare \/ bare' = bare \cup {p}
    BY <1>11 DEF Shows
  <2>2. UNCHANGED <<items, batch, results, step, placed, accepted, journaled, learned,
                    life, unknown>>
    BY <1>11 DEF Shows
  <2>3. BatchTypes' /\ BatchProgress'
    BY <2>1, <2>2 DEF BatchTypes, BatchProgress
  <2>4. JournalKnows' /\ TagPlacedOnce'
    BY <2>1, <2>2 DEF JournalKnows, TagPlacedOnce, StandsFor, Unjournaled, Fits, Agrees, IsFor
  <2>5. StepKnows' /\ ReceiptsKnown'
    BY <2>1, <2>2 DEF StepKnows, ReceiptsKnown, EntriesOf, Item, StandsFor, Unjournaled, Fits, Agrees, IsFor
  <2> QED BY <2>3, <2>4, <2>5
<1> QED
  BY <1>1, <1>2, <1>3, <1>4, <1>5, <1>6, <1>7, <1>8, <1>9, <1>10, <1>11 DEF BatchNext

\* A batch counted as a success has nothing but idempotent receipts.
LEMMA SuccessIsIdempotent ==
  ASSUME NEW rs \in Seq(Receipts), BatchOutcome(rs) = "success", NEW i \in DOMAIN rs
  PROVE  rs[i] = "idempotent"
<1> DEFINE os == {ItemOutcome(rs[j]) : j \in DOMAIN rs}
<1>1. os \subseteq {"rejected", "success", "unknown"}
  BY DEF ItemOutcome
<1>2. IsFiniteSet(os)
  <2>1. IsFiniteSet({"rejected"})
    BY FS_Singleton
  <2>2. IsFiniteSet({"rejected"} \cup {"success"})
    BY <2>1, FS_AddElement
  <2>3. IsFiniteSet(({"rejected"} \cup {"success"}) \cup {"unknown"})
    BY <2>2, FS_AddElement
  <2>4. os \subseteq ({"rejected"} \cup {"success"}) \cup {"unknown"}
    BY <1>1
  <2> HIDE DEF os
  <2> QED BY <2>3, <2>4, FS_Subset
<1>3. Cardinality(os) = 1 /\ "success" = CHOOSE o \in os : TRUE
  BY DEF BatchOutcome
<1>4. PICK o : os = {o}
  BY <1>2, <1>3, FS_Singleton
<1>5. o = "success"
  BY <1>3, <1>4
<1>6. ItemOutcome(rs[i]) = "success"
  BY <1>4, <1>5
<1> QED BY <1>6 DEF ItemOutcome

LEMMA BatchSafe == BatchInv => BatchIsSafe
<1> SUFFICES ASSUME BatchInv PROVE BatchReceiptsTrue
  BY DEF BatchIsSafe, BatchInv
<1> SUFFICES ASSUME NEW b \in Batches, NEW i \in DOMAIN results[b]
             PROVE  /\ results[b][i] \in {"idempotent", "confirmed", "unconfirmed"} =>
                         \E p \in DOMAIN placed : StandsFor(p, items[b][i])
                    /\ batch[b] = "answered" /\ BatchOutcome(results[b]) = "success" =>
                         \E p \in shown : StandsFor(p, items[b][i])
  BY DEF BatchReceiptsTrue
<1>1. results[b] \in Seq(Receipts) /\ i \in 1..Len(results[b])
  BY DEF BatchInv, BatchTypes
<1>2. BatchOutcome(results[b]) = "success" => results[b][i] = "idempotent"
  BY <1>1, SuccessIsIdempotent
<1> QED BY <1>1, <1>2 DEF BatchInv, ReceiptsKnown, Accepts

\* Receipts are true and a tag is placed once, however a batch is cut, lost,
\* sent again or interrupted by a restart (redis_rpc.py,
\* _handle_submit_orders_batch; trading_client.py, submit_batch).
THEOREM BatchesAreSafe == Spec => []BatchIsSafe
<1>1. Spec => []BatchInv
  BY PartsStart, StepsOfParts, BatchStart, BatchStep, PTL DEF Spec
<1> QED BY <1>1, BatchSafe, PTL

-----------------------------------------------------------------------------
(* The write gate.  What is still to reach the payload was seen by a probe *)
(* whose window is within the reach of every probe that may read it.       *)

Terminal == [mode : Modes, allow : BOOLEAN]

\* What the values are.
GateTypes ==
  /\ terminal \in Terminal
  /\ probing \in [Probers -> MidProbe \union {"idle", "deciding", "allowed", "passed", "blocked"}]
  /\ ponged \in [Probers -> BOOLEAN]
  /\ attested \in [Probers -> Modes \union {"unknown"}]
  /\ payload \in [allow : BOOLEAN, mode : Modes \union {"unset", "unknown"}]
  /\ window \in [Probers -> SUBSET Terminal]
  /\ reach \in [Probers -> SUBSET Terminal]

\* The windows hold the terminal as it is, and what a probe sees is within reach
\* of every probe it can still write over.
WindowIsCurrent == \A p \in Probers : InWindow(p) => terminal \in window[p]

WindowsReached ==
  \A p \in Probers : InWindow(p) =>
    /\ terminal \in reach[p]
    /\ \A q \in Probers : q = p \/ probing[q] \in MidProbe => window[q] \subseteq reach[p]

\* What a probe carries to the payload it saw itself.
CarriedWasSeen ==
  \A q \in Probers :
    /\ probing[q] = "attested" /\ attested[q] = "trading" => \E t \in window[q] : t.mode = "trading"
    /\ probing[q] = "ponged" /\ ponged[q] => \E t \in window[q] : t.allow

ReachTrading(p) == \E t \in reach[p] : t.mode = "trading"
ReachAllowed(p) == \E t \in reach[p] : t.allow

\* What p finds in the payload once it has written there is within its reach.
PayloadWasSeen ==
  \A p \in Probers : probing[p] \in {"adopted", "attested", "deciding", "allowed"} =>
    /\ payload.mode = "trading" => ReachTrading(p)
    /\ payload.allow => ReachAllowed(p)

AllowedWasSeen == \A p \in Probers : probing[p] = "allowed" => ReachAllowed(p)

GateInv ==
  /\ GateTypes /\ WindowIsCurrent /\ WindowsReached /\ CarriedWasSeen
  /\ PayloadWasSeen /\ AllowedWasSeen /\ PassedWasTrading

LEMMA GateStart == GateInit => GateInv
  BY DEF GateInit, GateInv, GateTypes, Terminal, Modes, MidProbe, InWindow, WindowIsCurrent,
     WindowsReached, CarriedWasSeen, PayloadWasSeen, AllowedWasSeen, PassedWasTrading

LEMMA GateStep == GateInv /\ [GateNext]_gateVars => GateInv'
<1> SUFFICES ASSUME GateInv, [GateNext]_gateVars PROVE GateInv'
  OBVIOUS
<1> USE DEF GateInv, GateTypes, WindowIsCurrent, WindowsReached, CarriedWasSeen, PayloadWasSeen,
        AllowedWasSeen, PassedWasTrading, MidProbe, InWindow, ReachTrading, ReachAllowed, Modes
<1>1. CASE UNCHANGED gateVars
  BY <1>1 DEF gateVars
<1>2. CASE Switch
  <2>1. /\ terminal' \in Terminal
        /\ UNCHANGED <<probing, ponged, attested, payload>>
        /\ \A p \in Probers :
             /\ window'[p] = IF InWindow(p) THEN window[p] \union {terminal'} ELSE window[p]
             /\ reach'[p] = IF InWindow(p) THEN reach[p] \union {terminal'} ELSE reach[p]
        /\ window' \in [Probers -> SUBSET Terminal] /\ reach' \in [Probers -> SUBSET Terminal]
    BY <1>2 DEF Switch, Terminal
  <2>2. GateTypes' /\ WindowIsCurrent' /\ WindowsReached'
    BY <2>1
  <2>3. CarriedWasSeen' /\ PayloadWasSeen' /\ AllowedWasSeen' /\ PassedWasTrading'
    BY <2>1
  <2> QED BY <2>2, <2>3
<1>3. ASSUME NEW p \in Probers, Ping(p) PROVE GateInv'
  <2>1. /\ probing[p] = "idle" /\ probing' = [probing EXCEPT ![p] = "pinging"]
        /\ window' = [window EXCEPT ![p] = {terminal}]
        /\ UNCHANGED <<terminal, ponged, attested, payload>>
        /\ \A q \in Probers \ {p} : reach'[q] = reach[q]
        /\ reach' \in [Probers -> SUBSET Terminal]
    BY <1>3 DEF Ping
  <2>2. /\ terminal \in reach'[p]
        /\ \A q \in Probers : probing[q] \in MidProbe => window[q] \subseteq reach'[p]
    BY <1>3 DEF Ping
  <2>3. GateTypes' /\ WindowIsCurrent' /\ CarriedWasSeen' /\ PayloadWasSeen' /\ AllowedWasSeen'
        /\ PassedWasTrading'
    BY <2>1
  <2>4. WindowsReached'
    BY <2>1, <2>2
  <2> QED BY <2>3, <2>4
<1>4. ASSUME NEW p \in Probers, PingFails(p) PROVE GateInv'
  BY <1>4 DEF PingFails
<1>5. ASSUME NEW p \in Probers, Pong(p) PROVE GateInv'
  BY <1>5 DEF Pong, Terminal
<1>6. ASSUME NEW p \in Probers, Adopt(p) PROVE GateInv'
  BY <1>6 DEF Adopt
<1>7. ASSUME NEW p \in Probers, Attest(p) PROVE GateInv'
  BY <1>7 DEF Attest, Terminal
<1>8. ASSUME NEW p \in Probers, RecordMode(p) PROVE GateInv'
  BY <1>8 DEF RecordMode
<1>9. ASSUME NEW p \in Probers, ReadAllow(p) PROVE GateInv'
  BY <1>9 DEF ReadAllow
<1>10. ASSUME NEW p \in Probers, ReadMode(p) PROVE GateInv'
  BY <1>10 DEF ReadMode
<1>11. ASSUME NEW p \in Probers, NextProbe(p) PROVE GateInv'
  BY <1>11 DEF NextProbe
<1> QED
  BY <1>1, <1>2, <1>3, <1>4, <1>5, <1>6, <1>7, <1>8, <1>9, <1>10, <1>11 DEF GateNext

\* A write that passes the gate does so on a permission and a trading mode that the
\* terminal had since the ping of its own probe or of one that was under way then,
\* however many probes run at once and the terminal is switched (bigqmt.py, probe;
\* manager.py, write_blockers).
THEOREM PassedSawTrading == Spec => []PassedWasTrading
<1>1. GateInv => PassedWasTrading
  BY DEF GateInv
<1> QED BY PartsStart, StepsOfParts, GateStart, GateStep, <1>1, PTL DEF Spec

-----------------------------------------------------------------------------
(* Order cancelling.  A request is in one place, and what was never sent,  *)
(* or was refused, is never called.                                        *)

Answers  == {"ok", "not_cancelable", "not_started", "not_started_after", "unknown", "false",
             "error"}
Verdicts == {"none", "accepted", "refused", "failed", "rejected"}

\* What the values are.
CancelTypes ==
  /\ order \in {"live", "acked", "done"}
  /\ wanted \in [Cancels -> {"single", "batch"}]
  /\ cancel \in [Cancels -> {"new", "gate", "sent", "doubt"} \union Answers]
  /\ inbox \in Seq(Cancels)
  /\ working \in Cancels \union {NoOne}
  /\ receipt \in [Cancels -> Verdicts]
  /\ called \subseteq Cancels /\ took \subseteq called
  /\ saw \in [Cancels -> SUBSET {"live", "acked", "done"}]

\* The strategy has c still to answer.
Waits(c) == c = working \/ \E i \in 1..Len(inbox) : inbox[i] = c

\* A request is in the queue, in hand or called, and that once.
HandledOnce ==
  /\ \A i, j \in 1..Len(inbox) : inbox[i] = inbox[j] => i = j
  /\ \A i \in 1..Len(inbox) : inbox[i] # working /\ inbox[i] \notin called
  /\ working \notin called

\* What has not been sent, or was refused before it ran, the strategy has not
\* called, nor will it.
NeverStarted ==
  \A c \in Cancels :
    cancel[c] \in {"new", "gate", "not_started"} \/ receipt[c] = "rejected" =>
      c \notin called /\ ~Waits(c)

UnsentHasNoReceipt == \A c \in Cancels : cancel[c] \in {"new", "gate"} => receipt[c] = "none"

\* An open request has seen the order as it is.
SeesOrder ==
  \A c \in Cancels : cancel[c] \in {"gate", "sent", "doubt"} => order \in saw[c]

AcceptedIsTrue ==
  \A c \in Cancels : cancel[c] = "sent" /\ receipt[c] = "accepted" =>
    c \in took \/ "acked" \in saw[c]

CancelInv ==
  /\ CancelTypes /\ HandledOnce /\ NeverStarted /\ UnsentHasNoReceipt /\ SeesOrder
  /\ AcceptedIsTrue /\ CancelAnswersTrue

LEMMA CancelStart == CancelInit => CancelInv
<1> SUFFICES ASSUME CancelInit PROVE CancelInv
  OBVIOUS
<1>1. CancelTypes
  BY DEF CancelInit, CancelTypes, Verdicts
<1>2. HandledOnce /\ NeverStarted
  BY CancelAssumption DEF CancelInit, HandledOnce, NeverStarted, Waits
<1>3. UnsentHasNoReceipt /\ SeesOrder /\ AcceptedIsTrue /\ CancelAnswersTrue
  BY DEF CancelInit, UnsentHasNoReceipt, SeesOrder, AcceptedIsTrue, CancelAnswersTrue
<1> QED BY <1>1, <1>2, <1>3 DEF CancelInv

LEMMA CancelStep == CancelInv /\ [CancelNext]_cancelVars => CancelInv'
<1> SUFFICES ASSUME CancelInv, [CancelNext]_cancelVars PROVE CancelInv'
  OBVIOUS
<1> USE DEF CancelInv, CancelTypes, HandledOnce, NeverStarted, UnsentHasNoReceipt, SeesOrder,
        AcceptedIsTrue, CancelAnswersTrue, Waits, Answers, Verdicts
<1>1. CASE UNCHANGED cancelVars
  BY <1>1 DEF cancelVars, bridgeSide, strategySide, brokerSide, calls
<1> USE DEF Say, Doubt, Escapes, Opens, Seen, SendReply, bridgeSide, strategySide, brokerSide,
        calls
<1>2. CASE BrokerMoves
  BY <1>2 DEF BrokerMoves
<1>3. CASE Expire
  BY <1>3 DEF Expire
<1>4. CASE Take
  BY <1>4 DEF Take
<1>5. CASE NativeCancel
  <2>1. PICK r \in {"accepted", "refused", "failed"} :
          /\ receipt' = [receipt EXCEPT ![working] = r]
          /\ took' = IF r = "accepted" THEN took \union {working} ELSE took
    BY <1>5 DEF NativeCancel
  <2>2. /\ working \in Cancels /\ called' = called \union {working} /\ working' = NoOne
        /\ (order = "live" /\ order' = "acked") \/ order' = order
        /\ inbox' = inbox /\ wanted' = wanted /\ cancel' = cancel
        /\ saw' = Seen(order')
    BY <1>5 DEF NativeCancel
  <2>3. CancelTypes' /\ SeesOrder'
    BY <2>1, <2>2
  <2>4. HandledOnce' /\ NeverStarted' /\ UnsentHasNoReceipt'
    BY <2>1, <2>2, CancelAssumption
  <2>5. AcceptedIsTrue' /\ CancelAnswersTrue'
    BY <2>1, <2>2
  <2> QED BY <2>3, <2>4, <2>5
<1>6. ASSUME NEW c \in Cancels, PrecheckCancel(c) PROVE CancelInv'
  BY <1>6 DEF PrecheckCancel
<1>7. ASSUME NEW c \in Cancels, BatchItem(c) PROVE CancelInv'
  BY <1>7 DEF BatchItem
<1>8. ASSUME NEW c \in Cancels, SendCancel(c) PROVE CancelInv'
  <2>1. /\ cancel[c] = "gate" /\ UNCHANGED <<order, saw, wanted, working, called, took>>
        /\ c \notin called /\ ~Waits(c) /\ receipt[c] = "none"
    BY <1>8 DEF SendCancel
  <2>2. ASSUME UNCHANGED <<inbox, receipt>>,
               NEW a \in {"doubt", "error", "sent"}, cancel' = [cancel EXCEPT ![c] = a]
        PROVE  CancelInv'
    BY <2>1, <2>2
  <2>3. ASSUME inbox' = Append(inbox, c), receipt' = receipt, cancel' = [cancel EXCEPT ![c] = "sent"]
        PROVE  CancelInv'
    <3>1. /\ inbox' \in Seq(Cancels) /\ Len(inbox) \in Nat /\ Len(inbox') = Len(inbox) + 1
          /\ inbox'[Len(inbox) + 1] = c
          /\ \A i \in 1..Len(inbox) : inbox'[i] = inbox[i] /\ inbox[i] # c
      BY <2>1, <2>3
    <3>2. HandledOnce'
      BY <2>1, <3>1, SMTT(30)
    <3>3. NeverStarted'
      BY <2>1, <2>3, <3>1
    <3> QED BY <2>1, <2>3, <3>1, <3>2, <3>3
  <2>4. ASSUME receipt' = [receipt EXCEPT ![c] = "rejected"], inbox' = inbox,
               cancel' = [cancel EXCEPT ![c] = "sent"]
        PROVE  CancelInv'
    BY <2>1, <2>4
  <2> QED BY <1>8, <2>2, <2>3, <2>4 DEF SendCancel
<1>9. ASSUME NEW c \in Cancels, Lapse(c) PROVE CancelInv'
  BY <1>9 DEF Lapse
<1>10. ASSUME NEW c \in Cancels, CallFails(c) PROVE CancelInv'
  BY <1>10 DEF CallFails
<1>11. ASSUME NEW c \in Cancels, Reply(c) PROVE CancelInv'
  BY <1>11 DEF Reply
<1>12. ASSUME NEW c \in Cancels, ReconcileCancel(c) PROVE CancelInv'
  <2>1. /\ cancel[c] = "doubt"
        /\ UNCHANGED <<order, saw, wanted, lapsed, inbox, working, receipt, called, took>>
    BY <1>12 DEF ReconcileCancel
  <2>2. PICK a \in {"ok", "unknown", "not_started_after", "error"} :
          cancel' = [cancel EXCEPT ![c] = a] /\ (a = "ok" => order = "acked")
    BY <1>12 DEF ReconcileCancel
  <2> QED BY <2>1, <2>2
<1> QED
  BY <1>1, <1>2, <1>3, <1>4, <1>5, <1>6, <1>7, <1>8, <1>9, <1>10, <1>11, <1>12 DEF CancelNext

\* The answer to a cancel is true, for any number of requests about the order and
\* however their calls are lost, late, refused or overtaken (routers/trading.py,
\* cancel_order and batch_cancel; redis_rpc.py, _handle_cancel_order).
THEOREM AnswersAreTrue == Spec => []CancelAnswersTrue
<1>1. CancelInv => CancelAnswersTrue
  BY DEF CancelInv
<1> QED BY PartsStart, StepsOfParts, CancelStart, CancelStep, <1>1, PTL DEF Spec

-----------------------------------------------------------------------------
(* Telemetry.  Every event is in the queue, in the worker's hands, sent or *)
(* counted as lost, whatever the threads that enqueue and stop.            *)

Loss   == [dropped : Int, failed : Int]
Counts == [emitted : Int, written : Int, failed : Int, dropped : Int, rejected : Int,
           losses : Int]

\* What the values are.
TeleTypes ==
  /\ eventQueue \in Seq({EVENT, STOP})
  /\ writer \in {"none", "idle", "got", "loss", "counting", "event", "dead"}
  /\ snap \in Loss /\ pending \in Loss /\ reported \in Loss
  /\ counters \in Counts
  /\ closer \in {"away", "flushing", "putting", "joining", "timed_out", "stopped"}
  /\ closing \in BOOLEAN

\* The first n entries of a queue are its events, the others are sentinels.
FirstAreEvents(q, n) ==
  /\ n \in 0..Len(q)
  /\ \A i \in 1..Len(q) : q[i] = EVENT <=> i <= n

\* No event is accepted behind a sentinel, and a writer that ended left none.
QueueInOrder ==
  /\ \E n \in 0..Len(eventQueue) : FirstAreEvents(eventQueue, n)
  /\ ~closing => \A i \in 1..Len(eventQueue) : eventQueue[i] = EVENT
  /\ closer # "away" => closing
  /\ writer = "none" => eventQueue = <<>> /\ closer # "putting"
  /\ writer = "dead" => closing /\ FirstAreEvents(eventQueue, 0)
  /\ closer = "stopped" => writer = "none"

\* TelemetryAccounts as sums of numbers.
Half == IF writer = "counting" THEN 1 ELSE 0
Hand == IF InHand THEN 1 ELSE 0
ToldDropped == IF writer = "counting" THEN snap.dropped ELSE 0
ToldFailed  == IF writer = "counting" THEN snap.failed ELSE 0

Sums ==
  /\ counters.emitted + counters.losses + Half
       = counters.written + counters.failed + EventsIn(eventQueue) + Hand
  /\ counters.dropped + ToldDropped = pending.dropped + reported.dropped
  /\ counters.failed + ToldFailed = pending.failed + reported.failed

TeleInv == TeleTypes /\ QueueInOrder /\ Sums

LEMMA EventsCounted ==
  ASSUME NEW q \in Seq({EVENT, STOP}), NEW n \in Nat, FirstAreEvents(q, n)
  PROVE  EventsIn(q) = n
<1>1. {i \in 1..Len(q) : q[i] = EVENT} = 1..n
  BY DEF FirstAreEvents
<1>2. Cardinality(1..n) = n
  BY FS_Interval
<1> QED BY <1>1, <1>2 DEF EventsIn

LEMMA NoEventsCounted ==
  ASSUME NEW q \in Seq({EVENT, STOP}), FirstAreEvents(q, 0)
  PROVE  EventsIn(q) = 0
<1> DEFINE z == 0
<1>1. z \in Nat /\ FirstAreEvents(q, z)
  OBVIOUS
<1> HIDE DEF z
<1>2. EventsIn(q) = z
  BY <1>1, EventsCounted
<1> QED BY <1>2 DEF z

\* What an entry that comes or goes does to a queue.
LEMMA QueueMoves ==
  ASSUME NEW q \in Seq({EVENT, STOP}), NEW n \in Nat, FirstAreEvents(q, n)
  PROVE  /\ Append(q, STOP) \in Seq({EVENT, STOP}) /\ FirstAreEvents(Append(q, STOP), n)
         /\ n = Len(q) => /\ Append(q, EVENT) \in Seq({EVENT, STOP})
                          /\ FirstAreEvents(Append(q, EVENT), n + 1)
         /\ q # <<>> /\ Head(q) = EVENT =>
              Tail(q) \in Seq({EVENT, STOP}) /\ n > 0 /\ FirstAreEvents(Tail(q), n - 1)
         /\ q # <<>> /\ Head(q) = STOP =>
              Tail(q) \in Seq({EVENT, STOP}) /\ n = 0 /\ FirstAreEvents(Tail(q), 0)
<1> USE DEF FirstAreEvents, EVENT, STOP
<1>1. Append(q, STOP) \in Seq({EVENT, STOP}) /\ FirstAreEvents(Append(q, STOP), n)
  OBVIOUS
<1>2. ASSUME n = Len(q)
      PROVE  Append(q, EVENT) \in Seq({EVENT, STOP}) /\ FirstAreEvents(Append(q, EVENT), n + 1)
  BY <1>2
<1>3. ASSUME q # <<>>
      PROVE  /\ Tail(q) \in Seq({EVENT, STOP}) /\ Len(Tail(q)) = Len(q) - 1 /\ Len(q) \in Nat \ {0}
             /\ Head(q) = q[1]
             /\ \A i \in 1..Len(Tail(q)) : Tail(q)[i] = q[i + 1] /\ i + 1 \in 1..Len(q)
  BY <1>3
<1>4. ASSUME q # <<>>, Head(q) = EVENT
      PROVE  n > 0 /\ FirstAreEvents(Tail(q), n - 1)
  BY <1>3, <1>4
<1>5. ASSUME q # <<>>, Head(q) = STOP
      PROVE  n = 0 /\ FirstAreEvents(Tail(q), 0)
  <2>1. n = 0
    BY <1>3, <1>5
  <2> QED BY <2>1, <1>3, <1>5
<1> QED BY <1>1, <1>2, <1>3, <1>4, <1>5

LEMMA TeleStart == TeleInit => TeleInv
<1> SUFFICES ASSUME TeleInit PROVE TeleInv
  OBVIOUS
<1>1. FirstAreEvents(eventQueue, 0) /\ eventQueue \in Seq({EVENT, STOP}) /\ Len(eventQueue) = 0
  BY DEF TeleInit, FirstAreEvents
<1>2. EventsIn(eventQueue) = 0
  BY <1>1, NoEventsCounted
<1>3. snap \in Loss /\ pending \in Loss /\ reported \in Loss /\ counters \in Counts
  BY DEF TeleInit, NoLoss, NoCounts, Loss, Counts
<1>4. /\ writer = "none" /\ closer = "away" /\ closing = FALSE /\ eventQueue = <<>>
  BY DEF TeleInit
<1>5. TeleTypes
  BY <1>1, <1>3, <1>4 DEF TeleTypes
<1>8. QueueInOrder
  <2>1. 0 \in 0..Len(eventQueue)
    BY <1>1
  <2>2. \E n \in 0..Len(eventQueue) : FirstAreEvents(eventQueue, n)
    BY <1>1, <2>1
  <2> QED BY <1>4, <2>2 DEF QueueInOrder
<1>6. Half = 0 /\ Hand = 0 /\ ToldDropped = 0 /\ ToldFailed = 0
  BY <1>4 DEF Half, Hand, InHand, ToldDropped, ToldFailed
<1>7. Sums
  BY <1>2, <1>6 DEF TeleInit, Sums, NoLoss, NoCounts
<1> QED BY <1>5, <1>7, <1>8 DEF TeleInv

\* The sums are sums of integers.
LEMMA SumsAreInt ==
  ASSUME TeleTypes
  PROVE  /\ counters.emitted \in Int /\ counters.losses \in Int /\ counters.written \in Int
         /\ counters.failed \in Int /\ counters.dropped \in Int
         /\ pending.dropped \in Int /\ pending.failed \in Int
         /\ reported.dropped \in Int /\ reported.failed \in Int
         /\ snap.dropped \in Int /\ snap.failed \in Int
  BY DEF TeleTypes, Loss, Counts

\* Counting up one of the counters.
LEMMA CountOne ==
  ASSUME NEW c \in Counts, NEW d
  PROVE  /\ d = [c EXCEPT !.emitted = @ + 1] =>
              /\ d \in Counts /\ d.emitted = c.emitted + 1 /\ d.losses = c.losses
              /\ d.written = c.written /\ d.failed = c.failed /\ d.dropped = c.dropped
         /\ d = [c EXCEPT !.losses = @ + 1] =>
              /\ d \in Counts /\ d.emitted = c.emitted /\ d.losses = c.losses + 1
              /\ d.written = c.written /\ d.failed = c.failed /\ d.dropped = c.dropped
         /\ d = [c EXCEPT !.written = @ + 1] =>
              /\ d \in Counts /\ d.emitted = c.emitted /\ d.losses = c.losses
              /\ d.written = c.written + 1 /\ d.failed = c.failed /\ d.dropped = c.dropped
         /\ d = [c EXCEPT !.failed = @ + 1] =>
              /\ d \in Counts /\ d.emitted = c.emitted /\ d.losses = c.losses
              /\ d.written = c.written /\ d.failed = c.failed + 1 /\ d.dropped = c.dropped
         /\ d = [c EXCEPT !.dropped = @ + 1] =>
              /\ d \in Counts /\ d.emitted = c.emitted /\ d.losses = c.losses
              /\ d.written = c.written /\ d.failed = c.failed /\ d.dropped = c.dropped + 1
         /\ d = [c EXCEPT !.rejected = @ + 1] =>
              /\ d \in Counts /\ d.emitted = c.emitted /\ d.losses = c.losses
              /\ d.written = c.written /\ d.failed = c.failed /\ d.dropped = c.dropped
  BY DEF Counts

LEMMA TeleStep == TeleInv /\ [TeleNext]_teleVars => TeleInv'
<1> SUFFICES ASSUME TeleInv, [TeleNext]_teleVars PROVE TeleInv'
  OBVIOUS
<1> USE DEF TeleInv
<1>1. PICK n \in Nat : n \in 0..Len(eventQueue) /\ FirstAreEvents(eventQueue, n)
  BY DEF QueueInOrder
<1>2. EventsIn(eventQueue) = n /\ n \in Nat
  BY <1>1, EventsCounted DEF TeleTypes
<1>3. counters \in Counts
  BY DEF TeleTypes
<1>. /\ counters.emitted \in Int /\ counters.losses \in Int /\ counters.written \in Int
     /\ counters.failed \in Int /\ counters.dropped \in Int
     /\ pending.dropped \in Int /\ pending.failed \in Int
     /\ reported.dropped \in Int /\ reported.failed \in Int
     /\ snap.dropped \in Int /\ snap.failed \in Int
  BY SumsAreInt
<1>. Sums
  OBVIOUS
<1>4. CASE UNCHANGED teleVars
  BY <1>4 DEF teleVars, TeleTypes, QueueInOrder, Sums, Half, Hand, InHand, ToldDropped, ToldFailed
<1>5. CASE EmitEvent
  <2> DEFINE queued == IF Running THEN eventQueue ELSE <<>>
  <2>1. UNCHANGED <<snap, closer, closing, reported>>
    BY <1>5 DEF EmitEvent
  <2>2. CASE closing
    <3>1. UNCHANGED <<eventQueue, writer, pending>> /\ counters' = [counters EXCEPT !.rejected = @ + 1]
      BY <1>5, <2>2 DEF EmitEvent
    <3>2. /\ counters' \in Counts /\ counters'.emitted = counters.emitted
          /\ counters'.losses = counters.losses /\ counters'.written = counters.written
          /\ counters'.failed = counters.failed /\ counters'.dropped = counters.dropped
      BY <1>3, <3>1, CountOne
    <3>3. TeleTypes' /\ QueueInOrder'
      BY <2>1, <3>1, <3>2 DEF TeleTypes, QueueInOrder
    <3>4. Sums'
      BY <2>1, <3>1, <3>2 DEF Sums, Half, Hand, InHand, ToldDropped, ToldFailed
    <3> QED BY <3>3, <3>4
  <2>3. CASE ~closing
    <3>1. /\ queued \in Seq({EVENT, STOP}) /\ FirstAreEvents(queued, n) /\ n = Len(queued)
          /\ \A i \in 1..Len(queued) : queued[i] = EVENT
          /\ EventsIn(queued) = n
      <4>1. CASE Running
        BY <1>1, <1>2, <2>1, <2>3, <4>1 DEF TeleTypes, QueueInOrder, FirstAreEvents
      <4>2. CASE ~Running
        <5>1. writer = "none" /\ eventQueue = <<>>
          BY <2>1, <2>3, <4>2 DEF TeleTypes, QueueInOrder, Running, InHand
        <5> QED BY <1>1, <1>2, <4>2, <5>1 DEF FirstAreEvents
      <4> QED BY <4>1, <4>2
    <3> HIDE DEF queued
    <3>2. writer' = IF Running THEN writer ELSE "idle"
      BY <1>5, <2>3 DEF EmitEvent
    <3>3. writer' \in {"idle", "got", "loss", "counting", "event"}
      BY <3>2 DEF InHand, Running
    <3>7. /\ Half' = Half /\ Hand' = Hand /\ ToldDropped' = ToldDropped /\ ToldFailed' = ToldFailed
          /\ Half \in Int /\ Hand \in Int /\ ToldDropped \in Int /\ ToldFailed \in Int
      BY <2>1, <3>2 DEF InHand, Running, Half, Hand, ToldDropped, ToldFailed
    <3>4. closer' = "away" /\ ~closing'
      BY <2>1, <2>3 DEF QueueInOrder
    <3>5. CASE Len(queued) < QueueSize
      <4>1. /\ eventQueue' = Append(queued, EVENT) /\ pending' = pending
            /\ counters' = [counters EXCEPT !.emitted = @ + 1]
        BY <1>5, <2>3, <3>5 DEF EmitEvent, queued
      <4>2. eventQueue' \in Seq({EVENT, STOP}) /\ FirstAreEvents(eventQueue', n + 1)
        BY <1>2, <3>1, <4>1, QueueMoves
      <4>3. Len(eventQueue') = n + 1
        BY <3>1, <4>1
      <4>4. EventsIn(eventQueue') = n + 1
        BY <1>2, <4>2, EventsCounted
      <4>5. /\ counters' \in Counts /\ counters'.emitted = counters.emitted + 1
            /\ counters'.losses = counters.losses /\ counters'.written = counters.written
            /\ counters'.failed = counters.failed /\ counters'.dropped = counters.dropped
        BY <1>3, <4>1, CountOne
      <4>6. TeleTypes'
        BY <2>1, <3>3, <4>1, <4>2, <4>5 DEF TeleTypes
      <4>7. QueueInOrder'
        <5>1. n + 1 \in 0..Len(eventQueue')
          BY <1>2, <4>3
        <5>2. \A i \in 1..Len(eventQueue') : eventQueue'[i] = EVENT
          BY <4>2, <4>3 DEF FirstAreEvents
        <5> QED BY <3>3, <3>4, <4>2, <5>1, <5>2 DEF QueueInOrder
      <4>8. Sums'
        <5>1. UNCHANGED <<pending, reported>>
          BY <2>1, <4>1
        <5> QED BY <1>2, <3>7, <4>4, <4>5, <5>1 DEF Sums
      <4> QED BY <4>6, <4>7, <4>8
    <3>6. CASE ~(Len(queued) < QueueSize)
      <4>1. /\ eventQueue' = queued /\ pending' = [pending EXCEPT !.dropped = @ + 1]
            /\ counters' = [counters EXCEPT !.dropped = @ + 1]
        BY <1>5, <2>3, <3>6 DEF EmitEvent, queued
      <4>2. /\ counters' \in Counts /\ counters'.emitted = counters.emitted
            /\ counters'.losses = counters.losses /\ counters'.written = counters.written
            /\ counters'.failed = counters.failed /\ counters'.dropped = counters.dropped + 1
        BY <1>3, <4>1, CountOne
      <4>3. pending' \in Loss /\ pending'.dropped = pending.dropped + 1 /\ pending'.failed = pending.failed
        BY <4>1 DEF TeleTypes, Loss
      <4>4. TeleTypes'
        BY <2>1, <3>1, <3>3, <4>1, <4>2, <4>3 DEF TeleTypes
      <4>5. QueueInOrder'
        BY <1>2, <3>1, <3>3, <3>4, <4>1 DEF QueueInOrder, FirstAreEvents
      <4>6. Sums'
        <5>1. reported' = reported /\ EventsIn(eventQueue') = n
          BY <2>1, <3>1, <4>1
        <5> QED BY <1>2, <3>7, <4>2, <4>3, <5>1 DEF Sums
      <4> QED BY <4>4, <4>5, <4>6
    <3> QED BY <3>5, <3>6
  <2> QED BY <2>2, <2>3
<1>6. CASE GetEvent
  <2>1. /\ writer = "idle" /\ writer' = "got" /\ eventQueue' = Tail(eventQueue)
        /\ eventQueue # <<>> /\ Head(eventQueue) = EVENT
        /\ UNCHANGED <<snap, closer, closing, emits, counters, pending, reported>>
    BY <1>6 DEF GetEvent
  <2>2. eventQueue' \in Seq({EVENT, STOP}) /\ n > 0 /\ FirstAreEvents(eventQueue', n - 1)
    BY <1>1, <2>1, QueueMoves DEF TeleTypes
  <2>3. EventsIn(eventQueue') = n - 1
    BY <2>2, EventsCounted
  <2>4. TeleTypes'
    BY <2>1, <2>2 DEF TeleTypes
  <2>5. \A i \in 1..Len(eventQueue') : i + 1 \in 1..Len(eventQueue) /\ eventQueue'[i] = eventQueue[i + 1]
    BY <2>1 DEF TeleTypes
  <2>6. QueueInOrder'
    BY <2>1, <2>2, <2>5 DEF QueueInOrder, FirstAreEvents
  <2>7. Sums'
    <3>1. UNCHANGED <<counters, pending, reported>>
      BY <2>1
    <3>2. Half = 0 /\ Half' = 0 /\ Hand = 0 /\ Hand' = 1 /\ ToldDropped = 0 /\ ToldDropped' = 0
          /\ ToldFailed = 0 /\ ToldFailed' = 0
      BY <2>1 DEF Half, Hand, InHand, ToldDropped, ToldFailed
    <3> QED BY <1>2, <2>3, <3>1, <3>2 DEF Sums
  <2> QED BY <2>4, <2>6, <2>7
<1>7. CASE ReadLoss
  <2>1. /\ writer = "got" /\ writer' \in {"event", "loss"} /\ snap' = pending
        /\ UNCHANGED <<eventQueue, closer, closing, emits, counters, pending, reported>>
    BY <1>7 DEF ReadLoss
  <2>2. TeleTypes' /\ QueueInOrder'
    BY <2>1 DEF TeleTypes, QueueInOrder
  <2>3. Sums'
    BY <2>1 DEF Sums, Half, Hand, InHand, ToldDropped, ToldFailed
  <2> QED BY <2>2, <2>3
<1>8. CASE GetStop
  <2>1. /\ writer = "idle" /\ writer' = "dead" /\ eventQueue' = Tail(eventQueue)
        /\ eventQueue # <<>> /\ Head(eventQueue) = STOP
        /\ UNCHANGED <<snap, closer, closing, emits, counters, pending, reported>>
    BY <1>8 DEF GetStop
  <2>2. eventQueue' \in Seq({EVENT, STOP}) /\ n = 0 /\ FirstAreEvents(eventQueue', 0)
    BY <1>1, <2>1, QueueMoves DEF TeleTypes
  <2>3. EventsIn(eventQueue') = 0
    BY <2>2, EventsCounted
  <2>4. closing
    BY <2>1 DEF TeleTypes, QueueInOrder, EVENT, STOP
  <2>5. TeleTypes' /\ QueueInOrder'
    BY <2>1, <2>2, <2>4 DEF TeleTypes, QueueInOrder, FirstAreEvents
  <2>6. Sums'
    BY <1>2, <2>1, <2>2, <2>3 DEF Sums, Half, Hand, InHand, ToldDropped, ToldFailed
  <2> QED BY <2>5, <2>6
<1>9. CASE WriteFails
  <2>1. /\ writer \in {"loss", "event"} /\ writer' = "idle"
        /\ counters' = [counters EXCEPT !.failed = @ + 1]
        /\ pending' = [pending EXCEPT !.failed = @ + 1]
        /\ UNCHANGED <<eventQueue, snap, closer, closing, emits, reported>>
    BY <1>9 DEF WriteFails
  <2>2. /\ counters' \in Counts /\ counters'.emitted = counters.emitted
        /\ counters'.losses = counters.losses /\ counters'.written = counters.written
        /\ counters'.failed = counters.failed + 1 /\ counters'.dropped = counters.dropped
    BY <1>3, <2>1, CountOne
  <2>3. pending' \in Loss /\ pending'.dropped = pending.dropped /\ pending'.failed = pending.failed + 1
    BY <2>1 DEF TeleTypes, Loss
  <2>4. TeleTypes' /\ QueueInOrder'
    BY <2>1, <2>2, <2>3 DEF TeleTypes, QueueInOrder
  <2>5. Half = 0 /\ Half' = 0 /\ Hand = 1 /\ Hand' = 0 /\ ToldDropped = 0 /\ ToldDropped' = 0
        /\ ToldFailed = 0 /\ ToldFailed' = 0
    BY <2>1 DEF Half, Hand, InHand, ToldDropped, ToldFailed
  <2>6. Sums'
    BY <1>2, <2>1, <2>2, <2>3, <2>5 DEF Sums
  <2> QED BY <2>4, <2>6
<1>10. CASE WriteLoss
  <2>1. /\ writer = "loss" /\ writer' = "counting"
        /\ counters' = [counters EXCEPT !.written = @ + 1]
        /\ reported' = [dropped |-> reported.dropped + snap.dropped,
                        failed |-> reported.failed + snap.failed]
        /\ UNCHANGED <<eventQueue, snap, closer, closing, emits, pending>>
    BY <1>10 DEF WriteLoss
  <2>2. /\ counters' \in Counts /\ counters'.emitted = counters.emitted
        /\ counters'.losses = counters.losses /\ counters'.written = counters.written + 1
        /\ counters'.failed = counters.failed /\ counters'.dropped = counters.dropped
    BY <1>3, <2>1, CountOne
  <2>3. /\ reported' \in Loss /\ reported'.dropped = reported.dropped + snap.dropped
        /\ reported'.failed = reported.failed + snap.failed
    BY <2>1, SumsAreInt DEF Loss
  <2>4. TeleTypes' /\ QueueInOrder'
    BY <2>1, <2>2, <2>3 DEF TeleTypes, QueueInOrder
  <2>5. Half = 0 /\ Half' = 1 /\ Hand = 1 /\ Hand' = 1 /\ ToldDropped = 0 /\ ToldDropped' = snap.dropped
        /\ ToldFailed = 0 /\ ToldFailed' = snap.failed
    BY <2>1 DEF Half, Hand, InHand, ToldDropped, ToldFailed
  <2>6. Sums'
    BY <1>2, <2>1, <2>2, <2>3, <2>5 DEF Sums
  <2> QED BY <2>4, <2>6
<1>11. CASE SubtractLoss
  <2>1. /\ writer = "counting" /\ writer' = "event"
        /\ counters' = [counters EXCEPT !.losses = @ + 1]
        /\ pending' = [dropped |-> pending.dropped - snap.dropped,
                       failed |-> pending.failed - snap.failed]
        /\ UNCHANGED <<eventQueue, snap, closer, closing, emits, reported>>
    BY <1>11 DEF SubtractLoss
  <2>2. /\ counters' \in Counts /\ counters'.emitted = counters.emitted
        /\ counters'.losses = counters.losses + 1 /\ counters'.written = counters.written
        /\ counters'.failed = counters.failed /\ counters'.dropped = counters.dropped
    BY <1>3, <2>1, CountOne
  <2>3. /\ pending' \in Loss /\ pending'.dropped = pending.dropped - snap.dropped
        /\ pending'.failed = pending.failed - snap.failed
    BY <2>1, SumsAreInt DEF Loss
  <2>4. TeleTypes' /\ QueueInOrder'
    BY <2>1, <2>2, <2>3 DEF TeleTypes, QueueInOrder
  <2>5. Half = 1 /\ Half' = 0 /\ Hand = 1 /\ Hand' = 1 /\ ToldDropped = snap.dropped /\ ToldDropped' = 0
        /\ ToldFailed = snap.failed /\ ToldFailed' = 0
    BY <2>1 DEF Half, Hand, InHand, ToldDropped, ToldFailed
  <2>6. Sums'
    BY <1>2, <2>1, <2>2, <2>3, <2>5 DEF Sums
  <2> QED BY <2>4, <2>6
<1>12. CASE WriteEvent
  <2>1. /\ writer = "event" /\ writer' = "idle"
        /\ counters' = [counters EXCEPT !.written = @ + 1]
        /\ UNCHANGED <<eventQueue, snap, closer, closing, emits, pending, reported>>
    BY <1>12 DEF WriteEvent
  <2>2. /\ counters' \in Counts /\ counters'.emitted = counters.emitted
        /\ counters'.losses = counters.losses /\ counters'.written = counters.written + 1
        /\ counters'.failed = counters.failed /\ counters'.dropped = counters.dropped
    BY <1>3, <2>1, CountOne
  <2>3. TeleTypes' /\ QueueInOrder'
    BY <2>1, <2>2 DEF TeleTypes, QueueInOrder
  <2>4. Half = 0 /\ Half' = 0 /\ Hand = 1 /\ Hand' = 0 /\ ToldDropped = 0 /\ ToldDropped' = 0
        /\ ToldFailed = 0 /\ ToldFailed' = 0
    BY <2>1 DEF Half, Hand, InHand, ToldDropped, ToldFailed
  <2>5. Sums'
    BY <1>2, <2>1, <2>2, <2>4 DEF Sums
  <2> QED BY <2>3, <2>5
<1>13. CASE BeginShutdown \/ Flushed \/ Returned
  <2>1. /\ closer' \in {"flushing", "putting", "joining", "away"}
        /\ closing' \in BOOLEAN /\ (closing => closing') /\ (closer' # "away" => closing')
        /\ closer' = "putting" => Running
        /\ UNCHANGED <<eventQueue, writer, snap, emits, counters, pending, reported>>
    BY <1>13 DEF BeginShutdown, Flushed, Returned, TeleTypes, QueueInOrder
  <2>2. TeleTypes'
    BY <2>1 DEF TeleTypes
  <2>3. QueueInOrder'
    BY <1>1, <2>1 DEF QueueInOrder, Running, InHand
  <2>4. Sums'
    BY <2>1 DEF Sums, Half, Hand, InHand, ToldDropped, ToldFailed
  <2> QED BY <2>2, <2>3, <2>4
<1>14. CASE PutStop
  <2>1. /\ closer = "putting" /\ closer' \in {"joining", "timed_out"}
        /\ eventQueue' = Append(eventQueue, STOP) \/ eventQueue' = eventQueue
        /\ UNCHANGED <<writer, snap, closing, emits, counters, pending, reported>>
    BY <1>14 DEF PutStop
  <2>2. /\ eventQueue' \in Seq({EVENT, STOP}) /\ FirstAreEvents(eventQueue', n)
        /\ closing /\ writer # "none"
    BY <1>1, <1>2, <2>1, QueueMoves DEF TeleTypes, QueueInOrder
  <2>3. EventsIn(eventQueue') = n /\ n \in 0..Len(eventQueue')
    BY <1>2, <2>2, EventsCounted DEF FirstAreEvents
  <2>4. writer = "dead" => n = 0
    BY <1>1 DEF QueueInOrder, FirstAreEvents, TeleTypes
  <2>5. TeleTypes' /\ QueueInOrder'
    BY <2>1, <2>2, <2>3, <2>4 DEF TeleTypes, QueueInOrder
  <2>6. Sums'
    BY <1>2, <2>1, <2>3 DEF Sums, Half, Hand, InHand, ToldDropped, ToldFailed
  <2> QED BY <2>5, <2>6
<1>15. CASE Joined
  <2>1. /\ closer = "joining" /\ closing
        /\ UNCHANGED <<snap, closing, emits, counters, pending, reported>>
    BY <1>15 DEF Joined, QueueInOrder
  <2>2. CASE Running
    <3>1. closer' = "timed_out" /\ UNCHANGED <<eventQueue, writer>>
      BY <1>15, <2>2 DEF Joined
    <3>2. TeleTypes' /\ QueueInOrder'
      BY <2>1, <3>1 DEF TeleTypes, QueueInOrder
    <3>3. Sums'
      BY <2>1, <3>1 DEF Sums, Half, Hand, InHand, ToldDropped, ToldFailed
    <3> QED BY <3>2, <3>3
  <2>3. CASE ~Running
    <3>1. closer' = "stopped" /\ eventQueue' = <<>> /\ writer' = "none"
      BY <1>15, <2>3 DEF Joined
    <3>2. writer \in {"none", "dead"}
      BY <2>3 DEF Running, InHand, TeleTypes
    <3>3. n = 0
      BY <1>1, <3>2 DEF QueueInOrder, FirstAreEvents, TeleTypes
    <3>4. FirstAreEvents(eventQueue', 0) /\ eventQueue' \in Seq({EVENT, STOP}) /\ Len(eventQueue') = 0
      BY <3>1 DEF FirstAreEvents
    <3>5. EventsIn(eventQueue') = 0
      BY <3>4, NoEventsCounted
    <3>6. TeleTypes' /\ QueueInOrder'
      BY <2>1, <3>1, <3>4 DEF TeleTypes, QueueInOrder
    <3>7. Sums'
      BY <1>2, <2>1, <3>1, <3>2, <3>3, <3>5 DEF Sums, Half, Hand, InHand, ToldDropped, ToldFailed
    <3> QED BY <3>6, <3>7
  <2> QED BY <2>2, <2>3
<1>16. CASE Configured
  <2>1. /\ writer = "none" /\ writer' = "none" /\ eventQueue = <<>> /\ eventQueue' = <<>>
        /\ closer' = "away" /\ closing' = FALSE /\ snap' = snap
        /\ counters' = NoCounts /\ pending' = NoLoss /\ reported' = NoLoss
    BY <1>16 DEF Configured, QueueInOrder
  <2>2. n = 0
    BY <1>1, <2>1 DEF FirstAreEvents
  <2>3. NoLoss \in Loss /\ NoCounts \in Counts
    BY DEF NoLoss, NoCounts, Loss, Counts
  <2>4. TeleTypes' /\ QueueInOrder'
    <3>1. TeleTypes'
      BY <2>1, <2>3 DEF TeleTypes
    <3>2. FirstAreEvents(eventQueue', n) /\ n \in 0..Len(eventQueue') /\ Len(eventQueue') = 0
      BY <1>1, <2>1, <2>2
    <3> QED BY <2>1, <3>1, <3>2 DEF QueueInOrder
  <2>5. EventsIn(eventQueue') = 0
    BY <1>2, <2>1, <2>2
  <2>6. Sums'
    BY <2>1, <2>5 DEF Sums, NoLoss, NoCounts, Half, Hand, InHand, ToldDropped, ToldFailed
  <2> QED BY <2>4, <2>6
<1> QED BY <1>4, <1>5, <1>6, <1>7, <1>8, <1>9, <1>10, <1>11, <1>12, <1>13, <1>14, <1>15, <1>16
        DEF TeleNext

\* No telemetry event and no loss goes unaccounted for, for any queue size and any
\* number of emits, failed writes and shutdowns (telemetry.py, emit, _writer_loop
\* and shutdown).
THEOREM TelemetryIsAccounted == Spec => []TelemetryAccounts
<1>1. TeleInv => TelemetryAccounts
  BY SumsAreInt DEF TeleInv, Sums, Half, Hand, ToldDropped, ToldFailed, TelemetryAccounts, NoLoss
<1> QED BY PartsStart, StepsOfParts, TeleStart, TeleStep, <1>1, PTL DEF Spec

-----------------------------------------------------------------------------
(* Execution events.  The side that is published is the one extracted from *)
(* the callback.                                                           *)

\* What a callback can be: an object of the terminal, fields of it left out.
Reported(x) ==
  /\ x.kind \in {"order", "trade"} /\ x.product \in {"stock", "future"}
  /\ x.side \in {"BUY", "SELL"}
  /\ x.direction \in {NoCode, IF x.product = "stock" THEN 48 ELSE CodeOf(x.side)}
  /\ x.product = "stock" => x.offset \in {NoCode, CodeOf(x.side)}
  /\ x.product = "future" => x.offset \in {NoCode, 48, 49, 51, 52}
  /\ x.op \in {NoCode, IF x.kind = "trade" THEN NoCode ELSE IF x.side = "BUY" THEN 23 ELSE 24}

ExecInv ==
  /\ callback # NoCallback => Reported(callback)
  /\ about # NoCallback => Reported(about)
  /\ ActionIsSide

LEMMA ActionOfCode ==
  ASSUME NEW c PROVE (c \in Buys => ActionOf(c) = "BUY") /\ (c \in Sells => ActionOf(c) = "SELL")
<1>1. c \in Sells => c \notin Buys
  BY DEF Buys, Sells
<1> QED BY <1>1 DEF ActionOf

\* What is told is extracted.
LEMMA SideExtracted ==
  ASSUME NEW x, Reported(x), FieldsTellSide(x)
  PROVE  ActionOf(ExtractDirection(x.direction, x.offset, x.op)) = x.side
<1> DEFINE d == x.direction
           o == x.offset
           t == x.op
<1> USE DEF Reported, FieldsTellSide, NoCode, CodeOf
<1>0. x.side \in {"BUY", "SELL"}
  OBVIOUS
<1>1. CASE x.product = "stock" /\ o # NoCode
  <2>1. o = CodeOf(x.side) /\ d \in {NoCode, 48} /\ t \in {NoCode, 23, 24}
    BY <1>1
  <2>2. ExtractDirection(d, o, t) \in (IF x.side = "BUY" THEN Buys ELSE Sells)
    BY <2>1 DEF ExtractDirection, Arbitrate, Known, Buys, Sells
  <2> QED BY <2>2, <1>0, ActionOfCode
<1>2. CASE x.product = "future" /\ d # NoCode /\ (o \in {NoCode, d} \/ t # NoCode)
  <2>1. d = CodeOf(x.side) /\ o \in {NoCode, 48, 49, 51, 52} /\ t \in {NoCode, 23, 24}
    BY <1>2
  <2>2. ExtractDirection(d, o, t) \in (IF x.side = "BUY" THEN Buys ELSE Sells)
    BY <1>2, <2>1 DEF ExtractDirection, Arbitrate, Known, Buys, Sells
  <2> QED BY <2>2, <1>0, ActionOfCode
<1>3. CASE d = NoCode /\ o = NoCode /\ t # NoCode
  <2>1. t = (IF x.side = "BUY" THEN 23 ELSE 24)
    BY <1>3
  <2>2. ExtractDirection(d, o, t) = t
    BY <1>3 DEF ExtractDirection, Known, Buys, Sells
  <2>3. ExtractDirection(d, o, t) \in (IF x.side = "BUY" THEN Buys ELSE Sells)
    BY <2>1, <2>2 DEF Buys, Sells
  <2> QED BY <2>3, <1>0, ActionOfCode
<1> QED BY <1>1, <1>2, <1>3

LEMMA ExecStart == ExecInit => ExecInv
  BY DEF ExecInit, ExecInv, ActionIsSide

LEMMA ExecStep == ExecInv /\ [ExecNext]_execVars => ExecInv'
<1> SUFFICES ASSUME ExecInv, [ExecNext]_execVars PROVE ExecInv'
  OBVIOUS
<1>1. CASE UNCHANGED execVars
  BY <1>1 DEF execVars, ExecInv, ActionIsSide
<1>2. CASE OnOrder
  <2>1. PICK x \in TerminalObjects, d \in BOOLEAN, o \in BOOLEAN, t \in BOOLEAN :
          callback' = [x EXCEPT !.direction = IF d THEN @ ELSE NoCode,
                                !.offset = IF o THEN @ ELSE NoCode,
                                !.op = IF t THEN @ ELSE NoCode]
    BY <1>2 DEF OnOrder
  <2>2. PICK k \in {"order", "trade"}, p \in {"stock", "future"}, s \in {"BUY", "SELL"},
             e \in {48, 49, 51, 52} :
          x = [kind |-> k, product |-> p, side |-> s, effect |-> e,
               direction |-> IF p = "stock" THEN 48 ELSE CodeOf(s),
               offset |-> IF p = "stock" THEN CodeOf(s) ELSE e,
               op |-> IF k = "trade" THEN NoCode ELSE IF s = "BUY" THEN 23 ELSE 24]
    BY <2>1 DEF TerminalObjects
  <2>3. Reported(callback')
    BY <2>1, <2>2 DEF Reported
  <2> QED BY <1>2, <2>3 DEF OnOrder, ExecInv, ActionIsSide
<1>3. CASE PublishExecEvent
  <2>1. /\ about' = callback /\ callback' = NoCallback /\ callback # NoCallback
        /\ channel'.action =
             ActionOf(ExtractDirection(callback.direction, callback.offset, callback.op))
    BY <1>3 DEF PublishExecEvent
  <2>2. Reported(callback)
    BY <2>1 DEF ExecInv
  <2>3. ActionIsSide'
    BY <2>1, <2>2, SideExtracted DEF ActionIsSide, FieldsTellSide
  <2> QED BY <2>1, <2>2, <2>3 DEF ExecInv
<1>4. CASE PublishFails
  BY <1>4 DEF PublishFails, ExecInv, ActionIsSide
<1> QED BY <1>1, <1>2, <1>3, <1>4 DEF ExecNext

\* What is published of an order or a deal is its side, whenever its fields tell
\* it (exec_events.py, _extract_direction and _conflict_resolve).
THEOREM ActionsAreSides == Spec => []ActionIsSide
<1>1. ExecInv => ActionIsSide
  BY DEF ExecInv
<1> QED BY PartsStart, StepsOfParts, ExecStart, ExecStep, <1>1, PTL DEF Spec

-----------------------------------------------------------------------------
(* Runtime installation.  Files are written in order, and whatever is      *)
(* overwritten is in a whole backup.                                       *)

Contents == [Targets -> Int]
BackupType == [second : Nat, files : Contents, whole : BOOLEAN]
InstallType ==
  [run : Nat, at : {"away", "validated", "backing", "copying"}, done : 0..8, half : BOOLEAN,
   compiled : BOOLEAN, second : Nat]

\* What the values are; a file has no run that is still to come.
InstallTypes ==
  /\ disk \in Contents /\ good \in Contents
  /\ install \in InstallType
  /\ install.at # "away" => install.run > 0
  /\ backups \subseteq BackupType
  /\ clock \in Nat
  /\ \A t \in Targets : disk[t] <= install.run

IsKept == \E b \in backups : b.whole /\ b.files = good

\* Before a run has copied anything, all files are older than it, and the backup
\* it makes is of the files as they are.
NothingCopied ==
  install.at \in {"validated", "backing"} =>
    /\ install.done = 0 /\ ~install.half
    /\ \A t \in Targets : disk[t] < install.run

BackedUp ==
  install.at = "backing" =>
    /\ \E b \in backups : b.second = install.second
    /\ \A b \in backups : b.second = install.second => b.files = disk

\* Whatever it overwrites is in a whole backup.
CopyingIsKept == install.at = "copying" => IsKept

\* Files are written in their order.
CopiedInOrder ==
  /\ install.half => install.at = "copying" /\ install.done < 8
  /\ install.at = "copying" =>
       \A i \in 1..8 :
         /\ i <= install.done => disk[Order[i]] = install.run
         /\ i > install.done => disk[Order[i]] < install.run
  /\ install.run > 0 =>
       \A i, j \in 1..8 : j <= i /\ disk[Order[i]] = install.run => disk[Order[j]] = install.run
  /\ install.run = 0 /\ disk["manifest"] = 0 => \A t \in Program : disk[t] = 0

InstallInv ==
  /\ InstallTypes /\ (disk = good \/ IsKept)
  /\ NothingCopied /\ BackedUp /\ CopyingIsKept /\ CopiedInOrder

\* The order of the targets.
LEMMA OrderFacts ==
  /\ Len(Order) = 8
  /\ \A i \in 1..8 : Order[i] \in Targets
  /\ \A t \in Targets : \E i \in 1..8 : t = Order[i]
  /\ \A i, j \in 1..8 : Order[i] = Order[j] => i = j
  /\ Order[7] = "manifest"
  /\ \A t \in Program : \E i \in 1..6 : t = Order[i]
  /\ "manifest" \in Targets
<1>1. Len(Order) = 8
  BY DEF Order
<1>2. \A i \in 1..8 : i = 1 \/ i = 2 \/ i = 3 \/ i = 4 \/ i = 5 \/ i = 6 \/ i = 7 \/ i = 8
  OBVIOUS
<1>3. /\ Order[1] = "package" /\ Order[2] = "strategy" /\ Order[3] = "rpc_runtime"
      /\ Order[4] = "entry" /\ Order[5] = "runner" /\ Order[6] = "config"
      /\ Order[7] = "manifest" /\ Order[8] = "catalog"
  BY DEF Order
<1>4. \A i \in 1..8 : Order[i] \in Targets
  BY <1>1 DEF Targets
<1>5. \A t \in Targets : \E i \in 1..8 : t = Order[i]
  BY <1>1 DEF Targets
<1>6. \A i, j \in 1..8 : Order[i] = Order[j] => i = j
  BY <1>2, <1>3
<1>7. \A t \in Program : \E i \in 1..6 : t = Order[i]
  <2> SUFFICES ASSUME NEW t \in Program PROVE \E i \in 1..6 : t = Order[i]
    OBVIOUS
  <2>1. PICK i \in 1..8 : t = Order[i]
    BY <1>5 DEF Program
  <2>2. i # 7 /\ i # 8
    BY <2>1, <1>3 DEF Program
  <2> QED BY <2>1, <2>2
<1> QED BY <1>1, <1>3, <1>4, <1>5, <1>6, <1>7

LEMMA InstallStart == InstallInit => InstallInv
<1> SUFFICES ASSUME InstallInit PROVE InstallInv
  OBVIOUS
<1>1. /\ disk \in Contents /\ good = disk /\ \A t \in Targets : disk[t] <= 0
      /\ disk["manifest"] = 0 => \A t \in Program : disk[t] = 0
  <2>1. "manifest" \in Targets /\ Program \subseteq Targets /\ "manifest" # "catalog"
    BY OrderFacts DEF Program
  <2> QED BY <2>1 DEF InstallInit, Contents, ABSENT
<1>2. install = [run |-> 0, at |-> "away", done |-> 0, half |-> FALSE, compiled |-> FALSE,
                 second |-> 0]
  BY DEF InstallInit
<1>3. InstallTypes
  BY <1>1, <1>2 DEF InstallInit, InstallTypes, InstallType
<1> QED BY <1>1, <1>2, <1>3 DEF InstallInv, NothingCopied, BackedUp, CopyingIsKept, CopiedInOrder

\* The manifest of the last run vouches for the program files.
LEMMA Restorable == InstallInv => InstallRestorable
<1> SUFFICES ASSUME InstallInv, disk["manifest"] = install.run, NEW t \in Program
             PROVE  disk[t] = install.run
  BY DEF InstallInv, InstallRestorable, IsKept
<1>1. PICK i \in 1..6 : t = Order[i]
  BY OrderFacts
<1>2. install.run \in Nat
  BY DEF InstallInv, InstallTypes, InstallType
<1>3. CASE install.run > 0
  BY <1>1, <1>3, OrderFacts DEF InstallInv, CopiedInOrder
<1>4. CASE install.run = 0
  BY <1>4 DEF InstallInv, CopiedInOrder
<1> QED BY <1>2, <1>3, <1>4

LEMMA InstallStep == InstallInv /\ [InstallNext]_installVars => InstallInv'
<1> SUFFICES ASSUME InstallInv, [InstallNext]_installVars PROVE InstallInv'
  OBVIOUS
<1> USE DEF InstallInv
<1>t. /\ install.run \in Nat /\ install.done \in 0..8 /\ install.half \in BOOLEAN
      /\ install.second \in Nat /\ install.compiled \in BOOLEAN
      /\ install.at \in {"away", "validated", "backing", "copying"}
  BY DEF InstallTypes, InstallType
<1>1. CASE UNCHANGED installVars
  BY <1>1 DEF installVars, InstallTypes, IsKept, NothingCopied, BackedUp, CopyingIsKept, CopiedInOrder
<1>2. CASE Tick
  BY <1>2 DEF Tick, InstallTypes, IsKept, NothingCopied, BackedUp, CopyingIsKept, CopiedInOrder
<1>3. CASE StartInstall
  <2>1. PICK b \in BOOLEAN :
          install' = [run |-> install.run + 1, at |-> "validated", done |-> 0,
                      half |-> FALSE, compiled |-> b, second |-> 0]
    BY <1>3 DEF StartInstall
  <2>2. /\ install'.run = install.run + 1 /\ install'.at = "validated" /\ install'.done = 0
        /\ install'.half = FALSE
        /\ install' \in InstallType
    BY <1>t, <2>1 DEF InstallType
  <2>3. UNCHANGED <<disk, clock, backups, good>>
    BY <1>3 DEF StartInstall
  <2> HIDE <2>1
  <2>4. \A t \in Targets : disk'[t] < install'.run /\ disk[t] \in Int
    BY <1>t, <2>2, <2>3 DEF InstallTypes, Contents
  <2>5. InstallTypes'
    BY <2>2, <2>3, <2>4 DEF InstallTypes, InstallType
  <2>6. CopiedInOrder'
    BY <1>t, <2>2, <2>3, <2>4, OrderFacts DEF CopiedInOrder
  <2> QED BY <2>2, <2>3, <2>4, <2>5, <2>6 DEF NothingCopied, BackedUp, CopyingIsKept, IsKept
<1>4. CASE Backup
  <2>1. install.at = "validated" /\ UNCHANGED <<disk, clock, good>>
    BY <1>4 DEF Backup
  <2>2. ASSUME install' = [install EXCEPT !.at = "away"], backups' = backups PROVE InstallInv'
    <3>1. /\ install'.at = "away" /\ install'.run = install.run /\ install'.half = install.half
          /\ install' \in InstallType
      BY <2>2 DEF InstallTypes, InstallType
    <3> QED BY <2>1, <2>2, <3>1 DEF InstallTypes, IsKept, NothingCopied, BackedUp, CopyingIsKept,
               CopiedInOrder
  <2>3. ASSUME backups' = backups \union {[second |-> clock, files |-> disk, whole |-> FALSE]},
               \A b \in backups : b.second # clock,
               install' = [install EXCEPT !.at = "backing", !.second = clock]
        PROVE  InstallInv'
    <3>1. /\ install'.at = "backing" /\ install'.run = install.run /\ install'.half = install.half
          /\ install'.done = install.done /\ install'.second = clock
          /\ install' \in InstallType
      BY <2>3 DEF InstallTypes, InstallType
    <3> DEFINE fresh == [second |-> clock, files |-> disk, whole |-> FALSE]
    <3>6. /\ fresh \in BackupType /\ fresh.second = clock /\ fresh.files = disk
          /\ backups' = backups \union {fresh}
      BY <2>3 DEF InstallTypes, BackupType
    <3> HIDE DEF fresh
    <3>2. InstallTypes'
      BY <2>1, <3>1, <3>6 DEF InstallTypes
    <3>3. IsKept => IsKept'
      BY <2>1, <3>6 DEF IsKept
    <3>4. BackedUp'
      BY <2>1, <2>3, <3>1, <3>6 DEF BackedUp
    <3>5. NothingCopied' /\ CopyingIsKept' /\ CopiedInOrder'
      BY <2>1, <3>1 DEF NothingCopied, CopyingIsKept, CopiedInOrder
    <3> QED BY <2>1, <3>2, <3>3, <3>4, <3>5
  <2> QED BY <1>4, <2>2, <2>3 DEF Backup
<1>5. CASE BackupEnds
  <2>1. /\ install.at = "backing" /\ UNCHANGED <<disk, clock, good>>
        /\ backups' = {[b EXCEPT !.whole = b.whole \/ b.second = install.second] : b \in backups}
        /\ install' = [install EXCEPT !.at = "copying"]
    BY <1>5 DEF BackupEnds
  <2>2. /\ install'.at = "copying" /\ install'.run = install.run /\ install'.half = install.half
        /\ install'.done = install.done
        /\ install' \in InstallType
    BY <2>1 DEF InstallTypes, InstallType
  <2>3. \A b \in backups :
          \E c \in backups' : /\ c.files = b.files
                              /\ b.whole \/ b.second = install.second => c.whole
    <3>1. ASSUME NEW b \in BackupType, NEW w
          PROVE  [b EXCEPT !.whole = w].files = b.files /\ [b EXCEPT !.whole = w].whole = w
      BY DEF BackupType
    <3>2. ASSUME NEW b \in backups
          PROVE  \E c \in backups' : c.files = b.files /\ c.whole = (b.whole \/ b.second = install.second)
      <4>1. [b EXCEPT !.whole = b.whole \/ b.second = install.second] \in backups' /\ b \in BackupType
        BY <2>1 DEF InstallTypes
      <4> QED BY <3>1, <4>1, Zenon
    <3> QED BY <3>2
  <2>4. backups' \subseteq BackupType
    <3>1. ASSUME NEW b \in BackupType
          PROVE  [b EXCEPT !.whole = b.whole \/ b.second = install.second] \in BackupType
      BY DEF BackupType
    <3> QED BY <2>1, <3>1 DEF InstallTypes
  <2>5. IsKept'
    BY <2>1, <2>3, ZenonT(30) DEF IsKept, BackedUp
  <2>6. InstallTypes'
    BY <2>1, <2>2, <2>4 DEF InstallTypes, InstallType
  <2>7. CopiedInOrder'
    BY <1>t, <2>1, <2>2, OrderFacts DEF CopiedInOrder, NothingCopied
  <2> QED BY <2>2, <2>5, <2>6, <2>7 DEF NothingCopied, BackedUp, CopyingIsKept
<1>6. CASE BeginCopy
  <2> DEFINE k == install.done + 1
  <2>1. /\ install.at = "copying" /\ ~install.half /\ UNCHANGED <<clock, backups, good>>
        /\ install.done < 8
        /\ disk' = [disk EXCEPT ![Order[k]] = HALF]
        /\ install' = [install EXCEPT !.half = TRUE]
    BY <1>6, <1>t, OrderFacts DEF BeginCopy
  <2>2. /\ install'.at = "copying" /\ install'.run = install.run /\ install'.half
        /\ install'.done = install.done
        /\ install' \in InstallType
    BY <2>1 DEF InstallTypes, InstallType
  <2>3. k \in 1..8 /\ k = install.done + 1
    BY <1>t, <2>1
  <2> HIDE DEF k
  <2>4. /\ disk' \in Contents /\ disk'[Order[k]] = HALF
        /\ \A i \in 1..8 : i # k => disk'[Order[i]] = disk[Order[i]]
        /\ \A t \in Targets : disk'[t] <= install.run
    BY <1>t, <2>1, <2>3, OrderFacts DEF InstallTypes, Contents, HALF
  <2>5. CopiedInOrder'
    BY <1>t, <2>1, <2>2, <2>3, <2>4, OrderFacts DEF CopiedInOrder, HALF
  <2>6. InstallTypes'
    BY <2>1, <2>2, <2>4 DEF InstallTypes, InstallType
  <2> QED BY <2>1, <2>2, <2>5, <2>6 DEF NothingCopied, BackedUp, CopyingIsKept, IsKept
<1>7. CASE EndCopy
  <2> DEFINE k == install.done + 1
  <2>1. /\ install.half /\ UNCHANGED <<clock, backups, good>>
        /\ disk' = [disk EXCEPT ![Order[k]] = install.run]
        /\ install' = [install EXCEPT !.half = FALSE, !.done = @ + 1]
    BY <1>7 DEF EndCopy
  <2>2. install.at = "copying" /\ install.done < 8
    BY <2>1 DEF CopiedInOrder
  <2>3. k \in 1..8 /\ k = install.done + 1
    BY <1>t, <2>2
  <2>4. /\ install'.at = "copying" /\ install'.run = install.run /\ ~install'.half
        /\ install'.done = k
        /\ install' \in InstallType
    <3>1. k \in 0..8
      BY <2>3
    <3> QED BY <2>1, <2>2, <3>1 DEF InstallTypes, InstallType
  <2> HIDE DEF k
  <2>5. /\ disk' \in Contents /\ disk'[Order[k]] = install.run
        /\ \A i \in 1..8 : i # k => disk'[Order[i]] = disk[Order[i]]
        /\ \A t \in Targets : disk'[t] <= install.run
    BY <1>t, <2>1, <2>3, OrderFacts DEF InstallTypes, Contents
  <2>6. \A i \in 1..8 : disk[Order[i]] \in Int
    BY OrderFacts DEF InstallTypes, Contents
  <2>7. \A i \in 1..8 : (i <= k => disk'[Order[i]] = install.run) /\ (i > k => disk'[Order[i]] < install.run)
    BY <1>t, <2>2, <2>3, <2>5 DEF CopiedInOrder
  <2>8. CopiedInOrder'
    <3>1. install.run > 0
      BY <2>2 DEF InstallTypes
    <3> QED BY <1>t, <2>3, <2>4, <2>7, <3>1 DEF CopiedInOrder
  <2>9. InstallTypes'
    BY <2>1, <2>4, <2>5 DEF InstallTypes, InstallType
  <2> QED BY <2>1, <2>2, <2>4, <2>8, <2>9 DEF NothingCopied, BackedUp, CopyingIsKept, IsKept
<1>8. CASE InstallDone \/ InstallBreaks
  <2>1. UNCHANGED <<disk, clock, backups>> /\ (good' = disk \/ good' = good)
    BY <1>8 DEF InstallDone, InstallBreaks
  <2>2. install'.at = "away" /\ install'.run = install.run /\ install' \in InstallType /\ ~install'.half
    <3>1. CASE InstallDone
      BY <3>1 DEF InstallDone, InstallTypes, InstallType
    <3>2. CASE InstallBreaks
      BY <3>2 DEF InstallBreaks, InstallTypes, InstallType
    <3> QED BY <1>8, <3>1, <3>2
  <2>3. InstallTypes'
    BY <2>1, <2>2 DEF InstallTypes, InstallType
  <2>4. (disk = good \/ IsKept)'
    BY <2>1 DEF IsKept
  <2> QED BY <2>1, <2>2, <2>3, <2>4 DEF NothingCopied, BackedUp, CopyingIsKept, CopiedInOrder
<1> QED BY <1>1, <1>2, <1>3, <1>4, <1>5, <1>6, <1>7, <1>8 DEF InstallNext

\* What the last successful run left can be had back, and a manifest vouches for
\* every program file, for any number of runs that break off anywhere
\* (install_runtime.py).
THEOREM InstallsAreRestorable == Spec => []InstallRestorable
  BY PartsStart, StepsOfParts, InstallStart, InstallStep, Restorable, PTL DEF Spec

-----------------------------------------------------------------------------
(* The history probe.  A request is recorded at most once, and only while  *)
(* it is the newest.                                                       *)

Fences == [key : Windows \union {NoWindow}, generation : Nat, request : Nat]
ResultRecord == [key : Windows \union {NoWindow}, generation : Nat, request : Nat, result : Results]
ProbeStates == [key : Windows \union {NoWindow}, generation : Nat, request : Nat,
                success : BOOLEAN, failures : Nat]

\* What the values are.
ProbeTypes ==
  /\ state \in ProbeStates
  /\ fence \in [Readers -> Fences]
  /\ verdict \in [Readers -> Results \union {"none"}]
  /\ recorded \in Seq(ResultRecord)
  /\ began \in Seq(Nat) /\ Len(began) = state.generation
  /\ state.generation = 0 <=> state.key = NoWindow
  /\ state.generation > 0 => began[state.generation] <= state.request

\* Nothing is recorded of what has not begun, and nothing twice.
RecordedOnce ==
  /\ \A r \in Readers : fence[r].request <= state.request
  /\ \A r \in Readers : verdict[r] # "none" => fence[r] # NoFence
  /\ \A r \in Readers : fence[r] # NoFence => fence[r].request > 0 /\ fence[r].key \in Windows
  /\ \A r, q \in Readers : fence[r].request = fence[q].request /\ fence[r] # NoFence => r = q
  /\ \A i \in 1..Len(recorded) :
       /\ recorded[i].request <= state.request
       /\ recorded[i].generation <= state.generation
       /\ \A r \in Readers : fence[r] # NoFence => recorded[i].request # fence[r].request

ProbeInv == ProbeTypes /\ RecordedOnce /\ ReportIsOfWindow

LEMMA ProbeStart == ProbeInit => ProbeInv
<1> SUFFICES ASSUME ProbeInit PROVE ProbeInv
  OBVIOUS
<1>1. state \in ProbeStates /\ state.generation = 0 /\ state.key = NoWindow /\ state.request = 0
      /\ state.success = FALSE /\ state.failures = 0 /\ recorded = <<>> /\ began = <<>>
  BY DEF ProbeInit, ProbeStates
<1>2. NoFence \in Fences /\ NoFence.request = 0
  BY DEF NoFence, Fences
<1>3. ProbeTypes
  BY <1>1, <1>2 DEF ProbeInit, ProbeTypes
<1>4. RecordedOnce
  BY <1>1, <1>2 DEF ProbeInit, RecordedOnce
<1>5. ReportIsOfWindow
  BY <1>1 DEF ReportIsOfWindow, Recent, BrokenRun
<1> QED BY <1>3, <1>4, <1>5 DEF ProbeInv

\* A new probe of the same window leaves the report alone, one of another window
\* starts from nothing.
LEMMA BeginKeeps ==
  ASSUME ProbeInv, NEW r \in Readers, NEW k \in Windows, Begin(r, k)
  PROVE  ProbeInv'
<1> USE DEF ProbeInv
<1> DEFINE same == state.key = k
<1>1. /\ fence[r] = NoFence /\ UNCHANGED <<verdict, blocked, recorded>>
      /\ state' = [key |-> k,
                   generation |-> IF same THEN state.generation ELSE state.generation + 1,
                   request |-> state.request + 1,
                   success |-> same /\ state.success,
                   failures |-> IF same THEN state.failures ELSE 0]
      /\ fence' = [fence EXCEPT ![r] = [key |-> k, generation |-> state'.generation,
                                        request |-> state'.request]]
      /\ began' = IF same THEN began ELSE Append(began, state'.request)
  BY DEF Begin
<1>2. /\ state.generation \in Nat /\ state.request \in Nat /\ state.failures \in Nat
      /\ state.success \in BOOLEAN /\ Len(recorded) \in Nat /\ began \in Seq(Nat)
      /\ k # NoWindow
  BY ProbeAssumption DEF ProbeTypes, ProbeStates
<1>3. /\ state'.key = k /\ state'.request = state.request + 1
      /\ state'.generation = IF same THEN state.generation ELSE state.generation + 1
      /\ state'.failures = IF same THEN state.failures ELSE 0
      /\ state'.success <=> same /\ state.success
  BY <1>1
<1>a. state' \in ProbeStates
  <2>1. DEFINE w == same /\ state.success
               n == IF same THEN state.failures ELSE 0
               g == IF same THEN state.generation ELSE state.generation + 1
  <2>2. w \in BOOLEAN /\ n \in Nat /\ g \in Nat /\ state.request + 1 \in Nat
    BY <1>2
  <2>3. state' = [key |-> k, generation |-> g, request |-> state.request + 1, success |-> w,
                  failures |-> n]
    BY <1>1
  <2> HIDE DEF w, n, g
  <2>4. state \in ProbeStates
    BY DEF ProbeTypes
  <2> QED BY <2>2, <2>3, Zenon DEF ProbeStates
<1>4. /\ fence'[r].request = state.request + 1 /\ fence'[r] # NoFence /\ fence'[r].key = k
      /\ fence' \in [Readers -> Fences]
      /\ \A q \in Readers : q # r => fence'[q] = fence[q]
  BY <1>1, <1>2, <1>3 DEF ProbeTypes, Fences, NoFence
<1>5. began' \in Seq(Nat) /\ Len(began') = state'.generation
  BY <1>1, <1>2, <1>3 DEF ProbeTypes
<1>6. ProbeTypes'
  <2>1. CASE same
    BY <1>1, <1>2, <1>3, <1>a, <1>4, <1>5, <2>1 DEF ProbeTypes
  <2>2. CASE ~same
    <3>1. began'[state'.generation] = state.request + 1
      BY <1>1, <1>2, <1>3, <2>2 DEF ProbeTypes
    <3> QED BY <1>1, <1>2, <1>3, <1>a, <1>4, <1>5, <2>2, <3>1 DEF ProbeTypes
  <2> QED BY <2>1, <2>2
<1>7. \A i \in 1..Len(recorded) :
        recorded[i].request \in Nat /\ recorded[i].generation \in Nat
  <2>1. \A i \in 1..Len(recorded) : recorded[i] \in ResultRecord
    BY DEF ProbeTypes
  <2> QED BY <2>1 DEF ResultRecord
<1>8. \A q \in Readers : fence[q].request \in Nat
  BY DEF ProbeTypes, Fences
<1>9. RecordedOnce'
  BY <1>1, <1>2, <1>3, <1>4, <1>7, <1>8 DEF RecordedOnce
<1>10. ReportIsOfWindow'
  <2>1. CASE same
    <3>1. UNCHANGED <<recorded, began>> /\ state'.generation = state.generation
          /\ state'.failures = state.failures /\ state'.key = state.key
          /\ (state'.success <=> state.success)
      BY <1>1, <1>3, <2>1
    <3>2. Recent' = Recent
      BY <3>1 DEF Recent
    <3> QED BY <1>2, <3>1, <3>2 DEF ReportIsOfWindow
  <2>2. CASE ~same
    <3>1. Recent' = {}
      BY <1>1, <1>2, <1>3, <1>7, <2>2 DEF Recent, RecordedOnce
    <3>2. recorded' = recorded /\ state'.failures = 0 /\ ~state'.success
      BY <1>1, <1>3, <2>2
    <3>3. BrokenRun(recorded, state'.generation, 0)
      BY <1>2 DEF BrokenRun
    <3>4. ~BrokenRun(recorded, state'.generation, 1)
      <4>1. CASE Len(recorded) = 0
        BY <4>1 DEF BrokenRun
      <4>2. CASE Len(recorded) > 0
        <5>1. Len(recorded) \in 1..Len(recorded) /\ Len(recorded) \in Len(recorded) - 1 + 1 .. Len(recorded)
          BY <1>2, <4>2
        <5>2. recorded[Len(recorded)].generation # state'.generation
          BY <3>1, <3>2, <5>1 DEF Recent
        <5> QED BY <5>1, <5>2 DEF BrokenRun
      <4> QED BY <1>2, <4>1, <4>2
    <3> QED BY <3>1, <3>2, <3>3, <3>4 DEF ReportIsOfWindow
  <2> QED BY <2>1, <2>2
<1> QED BY <1>6, <1>9, <1>10

\* A broken result makes the run of broken results at the end one longer.
LEMMA BrokenRunGrows ==
  ASSUME NEW q, NEW t, NEW g, NEW L \in Nat, Len(q) = L, Len(t) = L + 1,
         \A i \in 1..L : t[i] = q[i], t[L + 1].generation = g, t[L + 1].result = "broken",
         NEW n \in Nat
  PROVE  BrokenRun(t, g, n + 1) <=> BrokenRun(q, g, n)
<1>1. CASE n <= L
  <2>1. \A i : i \in L + 1 - (n + 1) + 1 .. L + 1 <=> i \in L - n + 1 .. L \/ i = L + 1
    BY <1>1
  <2>2. \A i \in L - n + 1 .. L : i \in 1..L
    BY <1>1
  <2>3. n + 1 <= L + 1
    BY <1>1
  <2> QED BY <1>1, <2>1, <2>2, <2>3 DEF BrokenRun
<1>2. CASE ~(n <= L)
  BY <1>2 DEF BrokenRun
<1> QED BY <1>1, <1>2

\* A result that is recorded is the last one, and of the window asked for last.
LEMMA UpdateKeeps ==
  ASSUME ProbeInv, NEW r \in Readers, Update(r)
  PROVE  ProbeInv'
<1> USE DEF ProbeInv
<1> DEFINE f == fence[r]
           v == verdict[r]
           new == [key |-> f.key, generation |-> f.generation, request |-> f.request, result |-> v]
<1>1. /\ v # "none" /\ UNCHANGED <<blocked, began>>
      /\ fence' = [fence EXCEPT ![r] = NoFence]
      /\ verdict' = [verdict EXCEPT ![r] = "none"]
      /\ fence[r] # NoFence /\ v \in Results
  BY DEF Update, ProbeTypes, RecordedOnce
<1>2. /\ state.generation \in Nat /\ state.request \in Nat /\ state.failures \in Nat
      /\ state.success \in BOOLEAN /\ Len(recorded) \in Nat
      /\ f \in Fences /\ f.request \in Nat
  BY DEF ProbeTypes, ProbeStates, Fences
<1>3. /\ NoFence \in Fences /\ NoFence.request = 0
      /\ fence' \in [Readers -> Fences] /\ fence'[r] = NoFence
      /\ verdict' \in [Readers -> Results \union {"none"}] /\ verdict'[r] = "none"
      /\ \A q \in Readers : q # r => fence'[q] = fence[q] /\ verdict'[q] = verdict[q]
  BY <1>1 DEF NoFence, Fences, ProbeTypes
<1>4. \A i \in 1..Len(recorded) :
        recorded[i].request \in Nat /\ recorded[i].generation \in Nat
  <2>1. \A i \in 1..Len(recorded) : recorded[i] \in ResultRecord
    BY DEF ProbeTypes
  <2> QED BY <2>1 DEF ResultRecord
<1>5. CASE ~Newest(f)
  <2>1. UNCHANGED <<state, recorded>>
    BY <1>5 DEF Update
  <2>2. ProbeTypes'
    BY <1>1, <1>3, <2>1 DEF ProbeTypes
  <2>3. RecordedOnce'
    BY <1>1, <1>2, <1>3, <2>1 DEF RecordedOnce
  <2>4. ReportIsOfWindow'
    BY <1>1, <2>1 DEF ReportIsOfWindow, Recent, BrokenRun
  <2> QED BY <2>2, <2>3, <2>4
<1>6. CASE Newest(f)
  <2> DEFINE L == Len(recorded)
  <2>1. /\ state' = [state EXCEPT !.failures = Failures(v, state.failures),
                                  !.success = state.success \/ v = "complete"]
        /\ recorded' = Append(recorded, new)
    BY <1>6 DEF Update
  <2>2. /\ state'.key = state.key /\ state'.generation = state.generation
        /\ state'.request = state.request /\ state'.failures = Failures(v, state.failures)
        /\ state'.success = (state.success \/ v = "complete")
        /\ state' \in ProbeStates
    <3>1. DEFINE w == state.success \/ v = "complete"
                 n == Failures(v, state.failures)
    <3>2. w \in BOOLEAN /\ n \in Nat /\ state \in ProbeStates
      BY <1>2 DEF ProbeTypes, Failures
    <3>3. state' = [state EXCEPT !.failures = n, !.success = w]
      BY <2>1
    <3> HIDE DEF w, n
    <3>4. /\ state'.key = state.key /\ state'.generation = state.generation
          /\ state'.request = state.request /\ state'.failures = n /\ state'.success = w
          /\ state' \in ProbeStates
      <4>1. \A t : t = [state EXCEPT !.failures = n, !.success = w] =>
              /\ t \in ProbeStates /\ t.key = state.key /\ t.generation = state.generation
              /\ t.request = state.request /\ t.failures = n /\ t.success = w
        <5>1. state \in ProbeStates
          BY <3>2
        <5>2. n \in Nat
          BY <3>2
        <5>3. w \in BOOLEAN
          BY <3>2
        <5> QED BY ONLY <5>1, <5>2, <5>3, Zenon DEF ProbeStates
      <4> QED BY <3>3, <4>1, Zenon
    <3> QED BY <3>4, Zenon DEF w, n
  <2>3. /\ new.request = state.request /\ new.generation = state.generation
        /\ new.key = state.key /\ new.result = v /\ new \in ResultRecord
    BY <1>1, <1>2, <1>6 DEF Newest, ResultRecord, ProbeTypes, ProbeStates
  <2> HIDE DEF new
  <2>4. /\ recorded' \in Seq(ResultRecord) /\ Len(recorded') = L + 1
        /\ recorded'[L + 1] = new /\ \A i \in 1..L : recorded'[i] = recorded[i]
    BY <2>1, <2>3 DEF ProbeTypes
  <2>5. ProbeTypes'
    BY <1>1, <1>3, <2>2, <2>4 DEF ProbeTypes
  <2>6. \A i \in 1..L : recorded[i].request < state.request
    BY <1>1, <1>2, <1>4, <1>6 DEF RecordedOnce, Newest
  <2> HIDE DEF L
  <2>7. L \in Nat /\ L = Len(recorded)
    BY <1>2 DEF L
  <2>8. \A q \in Readers : fence'[q] # NoFence => fence'[q].request # state.request
    BY <1>1, <1>3, <1>6 DEF RecordedOnce, Newest
  <2>9. RecordedOnce'
    <3>1. \A q \in Readers :
            /\ fence'[q].request <= state'.request
            /\ verdict'[q] # "none" => fence'[q] # NoFence
            /\ fence'[q] # NoFence => fence'[q].request > 0 /\ fence'[q].key \in Windows
      BY <1>1, <1>2, <1>3, <2>2 DEF RecordedOnce
    <3>2. \A p, q \in Readers :
            fence'[p].request = fence'[q].request /\ fence'[p] # NoFence => p = q
      BY <1>1, <1>3 DEF RecordedOnce
    <3>3. \A i \in 1..L :
            /\ recorded[i].request <= state.request /\ recorded[i].generation <= state.generation
            /\ \A q \in Readers : fence'[q] # NoFence => recorded[i].request # fence'[q].request
      BY <1>3, <2>7 DEF RecordedOnce
    <3>4. ASSUME NEW i \in 1..Len(recorded')
          PROVE  /\ recorded'[i].request <= state'.request
                 /\ recorded'[i].generation <= state'.generation
                 /\ \A q \in Readers :
                      fence'[q] # NoFence => recorded'[i].request # fence'[q].request
      <4>1. CASE i = L + 1
        BY <1>2, <2>2, <2>3, <2>4, <2>8, <4>1
      <4>2. CASE i # L + 1
        BY <2>2, <2>4, <2>7, <3>3, <4>2
      <4> QED BY <4>1, <4>2
    <3> QED BY <3>1, <3>2, <3>4 DEF RecordedOnce
  <2>10. Recent' = Recent \union {L + 1}
    BY <2>2, <2>3, <2>4, <2>7 DEF Recent
  <2>11. L + 1 \notin Recent /\ Recent \subseteq 1..L
    BY <2>7 DEF Recent
  <2>12. began[state.generation] <= state.request
    <3>1. state.key # NoWindow
      BY <1>1, <1>6, ProbeAssumption DEF RecordedOnce, Newest
    <3> QED BY <1>2, <3>1 DEF ProbeTypes
  <2>13. \A i \in Recent' :
           recorded'[i].key = state'.key /\ recorded'[i].request >= began'[state'.generation]
    BY <1>1, <1>2, <2>2, <2>3, <2>4, <2>7, <2>10, <2>11, <2>12 DEF ReportIsOfWindow
  <2>14. \A i, j \in 1..Len(recorded') : i < j => recorded'[i].request < recorded'[j].request
    <3>1. \A i, j \in 1..L : i < j => recorded[i].request < recorded[j].request
      BY <2>7 DEF ReportIsOfWindow
    <3>2. ASSUME NEW i \in 1..Len(recorded'), NEW j \in 1..Len(recorded'), i < j
          PROVE  recorded'[i].request < recorded'[j].request
      <4>1. i \in 1..L /\ recorded'[i] = recorded[i]
        BY <2>4, <2>7, <3>2
      <4>2. CASE j = L + 1
        BY <2>3, <2>4, <2>6, <4>1, <4>2
      <4>3. CASE j # L + 1
        BY <2>4, <2>7, <3>1, <3>2, <4>1, <4>3
      <4> QED BY <4>2, <4>3
    <3> QED BY <3>2
  <2>15. state'.success <=> \E i \in Recent' : recorded'[i].result = "complete"
    BY <2>2, <2>3, <2>4, <2>7, <2>10, <2>11 DEF ReportIsOfWindow
  <2>16. /\ BrokenRun(recorded, state.generation, state.failures)
         /\ ~BrokenRun(recorded, state.generation, state.failures + 1)
    BY DEF ReportIsOfWindow
  <2>17. /\ BrokenRun(recorded', state.generation, state'.failures)
         /\ ~BrokenRun(recorded', state.generation, state'.failures + 1)
    <3>1. new.generation = state.generation /\ new.result = v
      BY <2>3
    <3>2. CASE v = "broken"
      <4>1. state'.failures = state.failures + 1
        BY <2>2, <3>2 DEF Failures
      <4>2. state.failures \in Nat /\ state.failures + 1 \in Nat
        BY <1>2
      <4>3. recorded'[L + 1].generation = state.generation /\ recorded'[L + 1].result = "broken"
            /\ Len(recorded') = L + 1 /\ \A i \in 1..L : recorded'[i] = recorded[i]
        BY <2>4, <3>1, <3>2
      <4>4. \A n \in Nat : BrokenRun(recorded', state.generation, n + 1)
                              <=> BrokenRun(recorded, state.generation, n)
        BY <2>7, <4>3, BrokenRunGrows
      <4> QED BY <2>16, <4>1, <4>2, <4>4
    <3>3. CASE v # "broken"
      <4>1. state'.failures = 0
        BY <2>2, <3>3 DEF Failures
      <4>2. L + 1 \in L + 1 - 1 + 1 .. L + 1 /\ L + 1 - 0 + 1 .. L + 1 = {}
        BY <2>7
      <4>3. ~BrokenRun(recorded', state.generation, 1)
        BY <2>4, <3>1, <3>3, <4>2 DEF BrokenRun
      <4>4. BrokenRun(recorded', state.generation, 0)
        BY <2>4, <2>7, <4>2 DEF BrokenRun
      <4> QED BY <4>1, <4>3, <4>4
    <3> QED BY <3>2, <3>3
  <2>18. ReportIsOfWindow'
    BY <2>2, <2>13, <2>14, <2>15, <2>17 DEF ReportIsOfWindow
  <2> QED BY <2>5, <2>9, <2>18
<1> QED BY <1>5, <1>6

LEMMA ProbeStep == ProbeInv /\ [ProbeNext]_probeVars => ProbeInv'
<1> SUFFICES ASSUME ProbeInv, [ProbeNext]_probeVars PROVE ProbeInv'
  OBVIOUS
<1> USE DEF ProbeInv
<1>1. ASSUME UNCHANGED <<state, fence, recorded, began>>, 
             verdict' \in [Readers -> Results \union {"none"}],
             \A r \in Readers : verdict'[r] # "none" => fence[r] # NoFence
      PROVE  ProbeInv'
  <2>1. ProbeTypes' /\ RecordedOnce'
    BY <1>1 DEF ProbeTypes, RecordedOnce
  <2>2. ReportIsOfWindow'
    BY <1>1 DEF ReportIsOfWindow, Recent, BrokenRun
  <2> QED BY <2>1, <2>2
<1>2. CASE UNCHANGED probeVars \/ LaneCloses
  BY <1>1, <1>2 DEF probeVars, LaneCloses, ProbeTypes, RecordedOnce
<1>3. ASSUME NEW r \in Readers, Ask(r) PROVE ProbeInv'
  <2>1. PICK v \in Results : verdict' = [verdict EXCEPT ![r] = v]
    BY <1>3 DEF Ask, Results
  <2> QED BY <1>1, <1>3, <2>1 DEF Ask, ProbeTypes, RecordedOnce
<1>4. ASSUME NEW r \in Readers, Update(r) PROVE ProbeInv'
  BY <1>4, UpdateKeeps
<1>5. ASSUME NEW r \in Readers, NEW k \in Windows, Begin(r, k) PROVE ProbeInv'
  BY <1>5, BeginKeeps
<1> QED BY <1>2, <1>3, <1>4, <1>5 DEF ProbeNext

\* What the readiness endpoint reports is about the window asked for last, for any
\* number of probes that overlap and end in any order (history_readiness.py,
\* ProbeState.begin and update).
THEOREM ReportsAreOfWindow == Spec => []ReportIsOfWindow
<1>1. ProbeInv => ReportIsOfWindow
  BY DEF ProbeInv
<1> QED BY PartsStart, StepsOfParts, ProbeStart, ProbeStep, <1>1, PTL DEF Spec

-----------------------------------------------------------------------------
(* Trade events.  What a connected listener is owed is in its queue or in  *)
(* the deque, or a gap is; a listener that gave up holds one.              *)

EventNumbers == 0..MaxEvents

\* What the values are.
TradeTypes ==
  /\ native \in EventNumbers
  /\ events \in Seq(EventNumbers)
  /\ loop \in {"open", "closed"}
  /\ lq \in [Listeners -> Seq(EventNumbers)]
  /\ conn \in [Listeners -> {"new", "open", "reconcile", "closed"}]
  /\ since \in [Listeners -> EventNumbers]
  /\ got \in [Listeners -> SUBSET EventNumbers]
  /\ nq \in Seq(EventNumbers)
  /\ inflight \in EventNumbers \union {None}
  /\ worker \in {"running", "stopping", "stopped"}
  /\ cancelled \in BOOLEAN
  /\ count \in [offered : Int, sent : Int, dropped : Int]

\* A listener that gave up on its backlog has a gap on its way, and a closed loop
\* has no connection.
GivenUpIsTold ==
  /\ \A l \in Listeners : l \in overflowed /\ conn[l] = "open" => Gap \in ToSet(lq[l])
  /\ \A l \in overflowed : l \in Listeners /\ conn[l] # "new"
  /\ loop = "closed" => \A l \in Listeners : conn[l] # "open"

\* What stop() found in flight is still there when the queue is purged.
StopKnows == worker = "stopping" => (cancelled <=> inflight # None)

\* What a connected listener is owed it has, or a gap is on its way.
Owed(l) ==
  conn[l] = "open" =>
    \/ Gap \in ToSet(lq[l]) \/ Gap \in ToSet(events)
    \/ \A x \in EventNumbers :
         since[l] < x /\ x <= native => x \in got[l] \/ x \in ToSet(lq[l]) \/ x \in ToSet(events)

\* What is in the deque of a running loop will be drained.
DrainFollows == loop = "open" /\ events # <<>> => drain

TradeInv == /\ TradeTypes /\ GivenUpIsTold /\ StopKnows /\ DrainFollows
            /\ NotificationsAccounted /\ \A l \in Listeners : Owed(l)


LEMMA EventsOfAppend ==
  ASSUME NEW S, NEW s \in Seq(S), NEW e \in S
  PROVE  /\ Append(s, e) \in Seq(S) /\ Len(Append(s, e)) = Len(s) + 1
         /\ ToSet(Append(s, e)) = ToSet(s) \union {e}
<1>1. /\ Append(s, e) \in Seq(S) /\ Len(Append(s, e)) = Len(s) + 1
      /\ Len(s) \in Nat /\ DOMAIN s = 1..Len(s)
      /\ DOMAIN Append(s, e) = 1..Len(s) + 1
      /\ Append(s, e)[Len(s) + 1] = e
      /\ \A i \in 1..Len(s) : Append(s, e)[i] = s[i]
  OBVIOUS
<1>2. 1..Len(s) + 1 = (1..Len(s)) \union {Len(s) + 1}
  BY <1>1
<1> QED BY <1>1, <1>2 DEF ToSet

LEMMA EventsOfTail ==
  ASSUME NEW S, NEW s \in Seq(S), s # <<>>
  PROVE  /\ Head(s) \in S /\ Tail(s) \in Seq(S) /\ Len(Tail(s)) = Len(s) - 1 /\ Len(s) >= 1
         /\ ToSet(s) = ToSet(Tail(s)) \union {Head(s)}
<1>1. /\ Head(s) \in S /\ Tail(s) \in Seq(S) /\ Len(Tail(s)) = Len(s) - 1 /\ Len(s) >= 1
      /\ Len(s) \in Nat /\ DOMAIN s = 1..Len(s) /\ DOMAIN Tail(s) = 1..Len(s) - 1
      /\ Head(s) = s[1]
      /\ \A i \in 1..Len(s) - 1 : Tail(s)[i] = s[i + 1]
  OBVIOUS
<1>2. \A i : i \in 1..Len(s) <=> i = 1 \/ (i - 1 \in 1..Len(s) - 1 /\ i \in Int)
  BY <1>1
<1>3. \A i \in 1..Len(s) - 1 : i + 1 \in 1..Len(s)
  BY <1>1
<1>4. ASSUME NEW x \in ToSet(s) PROVE x \in ToSet(Tail(s)) \union {Head(s)}
  <2>1. PICK i \in 1..Len(s) : x = s[i]
    BY <1>1, <1>4 DEF ToSet
  <2>2. CASE i = 1
    BY <1>1, <2>1, <2>2
  <2>3. CASE i # 1
    <3>1. i - 1 \in 1..Len(s) - 1 /\ (i - 1) + 1 = i
      BY <1>1, <2>1, <2>3
    <3>2. Tail(s)[i - 1] = x
      BY <1>1, <2>1, <3>1
    <3> QED BY <1>1, <3>1, <3>2 DEF ToSet
  <2> QED BY <2>2, <2>3
<1>5. ASSUME NEW x \in ToSet(Tail(s)) PROVE x \in ToSet(s)
  BY <1>1, <1>3, <1>5 DEF ToSet
<1>6. Head(s) \in ToSet(s)
  BY <1>1 DEF ToSet
<1> QED BY <1>1, <1>4, <1>5, <1>6

LEMMA EventsOfOne == \A e : ToSet(<<e>>) = {e} /\ ToSet(<<>>) = {}
  BY DEF ToSet

LEMMA TradeStart == TradeInit => TradeInv
<1> SUFFICES ASSUME TradeInit PROVE TradeInv
  OBVIOUS
<1>1. TradeTypes
  <2>1. /\ native = 0 /\ events = <<>> /\ loop = "open" /\ nq = <<>> /\ inflight = None
        /\ worker = "running" /\ cancelled = FALSE /\ 0 \in EventNumbers
        /\ count = [offered |-> 0, sent |-> 0, dropped |-> 0]
    BY TradeAssumption DEF TradeInit, EventNumbers
  <2>2. /\ lq = [l \in Listeners |-> <<>>] /\ conn = [l \in Listeners |-> "new"]
        /\ since = [l \in Listeners |-> 0] /\ got = [l \in Listeners |-> {}]
    BY DEF TradeInit
  <2>3. <<>> \in Seq(EventNumbers) /\ count \in [offered : Int, sent : Int, dropped : Int]
    BY <2>1
  <2> QED BY <2>1, <2>2, <2>3 DEF TradeTypes
<1>2. GivenUpIsTold /\ StopKnows
  BY DEF TradeInit, GivenUpIsTold, StopKnows
<1>3. DrainFollows /\ NotificationsAccounted /\ \A l \in Listeners : Owed(l)
  BY DEF TradeInit, DrainFollows, NotificationsAccounted, Owed, None
<1> QED BY <1>1, <1>2, <1>3 DEF TradeInv

\* A push keeps the event and every earlier one, or leaves a gap.
LEMMA PushTells ==
  ASSUME TradeTypes, NEW e \in EventNumbers
  PROVE  /\ Push(e) \in Seq(EventNumbers)
         /\ Gap \in ToSet(Push(e)) \/ ToSet(Push(e)) = ToSet(events) \union {e}
         /\ Gap \in ToSet(events) => Gap \in ToSet(Push(e))
<1>1. events \in Seq(EventNumbers) /\ Gap \in EventNumbers /\ DequeCap \in Nat /\ DequeCap >= 2
  BY TradeAssumption DEF TradeTypes, EventNumbers, Gap
<1>2. CASE Len(events) = DequeCap
  <2> DEFINE u == Append(Tail(events), Gap)
             t == Append(u, e)
  <2>1. events # <<>>
    BY <1>1, <1>2
  <2>2. Tail(events) \in Seq(EventNumbers) /\ Len(Tail(events)) = DequeCap - 1
    BY <1>1, <1>2, <2>1
  <2>3. u \in Seq(EventNumbers) /\ Len(u) = DequeCap /\ u[DequeCap] = Gap
    BY <1>1, <2>2
  <2> HIDE DEF u
  <2>4. t \in Seq(EventNumbers) /\ Len(t) = DequeCap + 1 /\ t[DequeCap] = Gap
    BY <1>1, <2>3
  <2>5. Push(e) = Tail(t)
    BY <1>1, <1>2, <2>4 DEF Push, Bounded, u
  <2> HIDE DEF t
  <2>6. Tail(t) \in Seq(EventNumbers) /\ DOMAIN Tail(t) = 1..DequeCap
        /\ Tail(t)[DequeCap - 1] = t[DequeCap - 1 + 1]
    BY <1>1, <2>4
  <2>7. DequeCap - 1 + 1 = DequeCap /\ DequeCap - 1 \in 1..DequeCap
    BY <1>1
  <2>8. Gap \in ToSet(Tail(t))
    BY <2>4, <2>6, <2>7 DEF ToSet
  <2> QED BY <2>5, <2>6, <2>8
<1>3. CASE Len(events) # DequeCap
  <2>1. Push(e) = Append(events, e)
    BY <1>3 DEF Push
  <2> QED BY <1>1, <2>1, EventsOfAppend
<1> QED BY <1>2, <1>3

LEMMA DispatchKeeps ==
  ASSUME TradeInv, Dispatch
  PROVE  TradeInv'
<1> USE DEF TradeInv
<1>1. native' = native + 1 /\ native < MaxEvents /\ UNCHANGED <<loop, wsVars, notifyVars>>
  BY DEF Dispatch
<1>2. native' \in EventNumbers
  BY <1>1, TradeAssumption DEF TradeTypes, EventNumbers
<1>3. CASE loop = "closed" /\ ~drain
  <2>1. events' = <<>> /\ drain' = FALSE
    BY <1>3 DEF Dispatch
  <2>2. TradeTypes'
    BY <1>1, <1>2, <2>1 DEF TradeTypes, wsVars, notifyVars, None
  <2>3. GivenUpIsTold' /\ StopKnows' /\ DrainFollows' /\ NotificationsAccounted'
    BY <1>1, <2>1 DEF GivenUpIsTold, StopKnows, DrainFollows, NotificationsAccounted, wsVars, notifyVars
  <2>4. \A l \in Listeners : Owed(l)'
    BY <1>1, <1>3 DEF Owed, GivenUpIsTold, wsVars
  <2> QED BY <2>2, <2>3, <2>4
<1>4. CASE ~(loop = "closed" /\ ~drain)
  <2>1. events' = Push(native') /\ drain' = TRUE
    BY <1>1, <1>4 DEF Dispatch
  <2>2. /\ events' \in Seq(EventNumbers)
        /\ Gap \in ToSet(events') \/ ToSet(events') = ToSet(events) \union {native'}
        /\ Gap \in ToSet(events) => Gap \in ToSet(events')
    BY <1>2, <2>1, PushTells
  <2>3. TradeTypes'
    BY <1>1, <1>2, <2>2 DEF TradeTypes, wsVars, notifyVars, None
  <2>4. GivenUpIsTold' /\ StopKnows' /\ DrainFollows' /\ NotificationsAccounted'
    BY <1>1, <2>1 DEF GivenUpIsTold, StopKnows, DrainFollows, NotificationsAccounted, wsVars, notifyVars
  <2>5. native \in Nat /\ \A x \in EventNumbers : x <= native' <=> x <= native \/ x = native'
    BY <1>1, TradeAssumption DEF TradeTypes, EventNumbers
  <2>6. ASSUME NEW l \in Listeners PROVE Owed(l)'
    <3>1. Owed(l)
      OBVIOUS
    <3>2. UNCHANGED <<conn, lq, got, since>>
      BY <1>1 DEF wsVars
    <3> QED BY <2>2, <2>5, <3>1, <3>2 DEF Owed
  <2> QED BY <2>3, <2>4, <2>6
<1> QED BY <1>3, <1>4

\* Two counters of notifications go up.
LEMMA CountBoth ==
  ASSUME NEW c \in [offered : Int, sent : Int, dropped : Int], NEW n \in Int, NEW k \in Int
  PROVE  /\ [c EXCEPT !.offered = n, !.dropped = k] \in [offered : Int, sent : Int, dropped : Int]
         /\ [c EXCEPT !.offered = n, !.dropped = k].offered = n
         /\ [c EXCEPT !.offered = n, !.dropped = k].sent = c.sent
         /\ [c EXCEPT !.offered = n, !.dropped = k].dropped = k
  BY Zenon

\* What publishing an event does to a listener.
LEMMA PublishTells ==
  ASSUME TradeInv, NEW e \in EventNumbers, Publish(e), NEW l \in Listeners, UNCHANGED conn
  PROVE  /\ lq'[l] \in Seq(EventNumbers)
         /\ Gap \in ToSet(lq[l]) => Gap \in ToSet(lq'[l])
         /\ conn[l] = "open" => \/ Gap \in ToSet(lq'[l])
                                \/ ToSet(lq'[l]) = ToSet(lq[l]) \union {e}
         /\ l \in overflowed' /\ conn[l] = "open" => Gap \in ToSet(lq'[l])
<1> USE DEF TradeInv
<1>1. lq[l] \in Seq(EventNumbers) /\ ListenerCap \in Nat /\ Gap \in EventNumbers
  BY TradeAssumption DEF TradeTypes, EventNumbers, Gap
<1>2. CASE conn[l] = "open" /\ l \notin overflowed
  <2>1. lq'[l] = Offered(lq[l], e)
    BY <1>2 DEF Publish
  <2>2. CASE Len(lq[l]) < ListenerCap
    <3>1. lq'[l] = Append(lq[l], e)
      BY <2>1, <2>2 DEF Offered
    <3>2. l \notin overflowed'
      BY <1>1, <1>2, <2>2 DEF Publish
    <3> QED BY <1>1, <3>1, <3>2, EventsOfAppend
  <2>3. CASE ~(Len(lq[l]) < ListenerCap)
    <3>1. lq'[l] = <<Gap>>
      BY <2>1, <2>3 DEF Offered
    <3> QED BY <1>1, <3>1, EventsOfOne
  <2> QED BY <2>2, <2>3
<1>3. CASE ~(conn[l] = "open" /\ l \notin overflowed)
  <2>1. lq'[l] = lq[l]
    BY <1>3 DEF Publish
  <2>2. conn[l] = "open" => l \in overflowed
    BY <1>3
  <2> QED BY <1>1, <2>1, <2>2 DEF GivenUpIsTold
<1> QED BY <1>2, <1>3

LEMMA DrainKeeps ==
  ASSUME TradeInv, Drain
  PROVE  TradeInv'
<1> USE DEF TradeInv
<1>1. drain /\ loop = "open" /\ UNCHANGED <<native, loop, conn, since, got>>
  BY DEF Drain
<1>2. CASE events = <<>>
  <2>1. UNCHANGED <<events, lq, overflowed, notifyVars>>
    BY <1>2 DEF Drain
  <2>2. TradeTypes'
    BY <1>1, <2>1 DEF TradeTypes, notifyVars, None
  <2>3. GivenUpIsTold' /\ StopKnows' /\ DrainFollows' /\ NotificationsAccounted'
    BY <1>1, <1>2, <2>1 DEF GivenUpIsTold, StopKnows, DrainFollows, NotificationsAccounted, notifyVars
  <2>4. \A l \in Listeners : Owed(l)'
    BY <1>1, <2>1 DEF Owed
  <2> QED BY <2>2, <2>3, <2>4
<1>3. CASE events # <<>>
  <2> DEFINE e == Head(events)
  <2>1. /\ events' = Tail(events) /\ drain' = drain /\ Publish(e) /\ SubmitEvent(e)
    BY <1>3 DEF Drain
  <2>2. /\ e \in EventNumbers /\ events' \in Seq(EventNumbers)
        /\ ToSet(events) = ToSet(events') \union {e}
    BY <1>3, <2>1, EventsOfTail DEF TradeTypes
  <2> HIDE DEF e
  <2>3. \A l \in Listeners :
          /\ lq'[l] \in Seq(EventNumbers)
          /\ Gap \in ToSet(lq[l]) => Gap \in ToSet(lq'[l])
          /\ conn[l] = "open" => \/ Gap \in ToSet(lq'[l])
                                 \/ ToSet(lq'[l]) = ToSet(lq[l]) \union {e}
          /\ l \in overflowed' /\ conn[l] = "open" => Gap \in ToSet(lq'[l])
    BY <1>1, <2>1, <2>2, PublishTells
  <2>4. lq' \in [Listeners -> Seq(EventNumbers)]
    BY <2>1, <2>3 DEF Publish
  <2>5. /\ nq' \in Seq(EventNumbers) /\ count' \in [offered : Int, sent : Int, dropped : Int]
        /\ count'.offered - count'.sent - count'.dropped - Len(nq')
             = count.offered - count.sent - count.dropped - Len(nq)
        /\ UNCHANGED <<inflight, worker, cancelled>>
    <3>1. nq \in Seq(EventNumbers) /\ count \in [offered : Int, sent : Int, dropped : Int]
          /\ Len(nq) \in Nat
      BY DEF TradeTypes
    <3>2. CASE worker # "running"
      BY <2>1, <3>1, <3>2 DEF SubmitEvent
    <3>3. CASE worker = "running" /\ Len(nq) < NotifyCap
      <4>1. nq' = Append(nq, e) /\ count' = [count EXCEPT !.offered = @ + 1]
            /\ UNCHANGED <<inflight, worker, cancelled>>
        BY <2>1, <3>3 DEF SubmitEvent
      <4>2. nq' \in Seq(EventNumbers) /\ Len(nq') = Len(nq) + 1
        BY <2>2, <3>1, <4>1, EventsOfAppend
      <4>3. /\ count' \in [offered : Int, sent : Int, dropped : Int]
            /\ count'.offered = count.offered + 1 /\ count'.sent = count.sent
            /\ count'.dropped = count.dropped
        BY <3>1, <4>1
      <4>4. count.offered \in Int /\ count.sent \in Int /\ count.dropped \in Int
        BY <3>1
      <4> QED BY <3>1, <4>1, <4>2, <4>3, <4>4
    <3>4. CASE worker = "running" /\ ~(Len(nq) < NotifyCap)
      <4>1. nq' = nq /\ count' = [count EXCEPT !.offered = @ + 1, !.dropped = @ + 1]
            /\ UNCHANGED <<inflight, worker, cancelled>>
        BY <2>1, <3>4 DEF SubmitEvent
      <4>2. /\ count' \in [offered : Int, sent : Int, dropped : Int]
            /\ count'.offered = count.offered + 1 /\ count'.sent = count.sent
            /\ count'.dropped = count.dropped + 1
        <5> DEFINE n == count.offered + 1
                   k == count.dropped + 1
        <5>1. count' = [count EXCEPT !.offered = n, !.dropped = k]
          BY <4>1
        <5>2. n \in Int /\ k \in Int
          BY <3>1
        <5> HIDE DEF n, k
        <5>3. /\ count' \in [offered : Int, sent : Int, dropped : Int]
              /\ count'.offered = n /\ count'.sent = count.sent /\ count'.dropped = k
          BY <3>1, <5>1, <5>2, CountBoth
        <5> QED BY <5>3 DEF n, k
      <4>3. count.offered \in Int /\ count.sent \in Int /\ count.dropped \in Int
        BY <3>1
      <4> QED BY <3>1, <4>1, <4>2, <4>3
    <3> QED BY <3>2, <3>3, <3>4
  <2>6. TradeTypes'
    BY <1>1, <2>2, <2>4, <2>5 DEF TradeTypes, None
  <2>7. NotificationsAccounted'
    <3>1. /\ Len(nq) \in Nat /\ Len(nq') \in Nat /\ count.offered \in Int /\ count.sent \in Int
          /\ count.dropped \in Int /\ count'.offered \in Int /\ count'.sent \in Int
          /\ count'.dropped \in Int
      BY <2>5 DEF TradeTypes
    <3> DEFINE h == IF inflight = None THEN 0 ELSE 1
    <3>2. h \in Nat /\ h' = h
      BY <2>5
    <3>3. count.offered = count.sent + Len(nq) + count.dropped + h
      BY DEF NotificationsAccounted
    <3> HIDE DEF h
    <3>4. count'.offered - count'.sent - count'.dropped - Len(nq')
            = count.offered - count.sent - count.dropped - Len(nq)
      BY <2>5
    <3>5. count'.offered = count'.sent + Len(nq') + count'.dropped + h
      <4> DEFINE o == count.offered
                 s == count.sent
                 d == count.dropped
                 n == Len(nq)
                 newO == count'.offered
                 newS == count'.sent
                 newD == count'.dropped
                 newN == Len(nq')
      <4>1. /\ o \in Int /\ s \in Int /\ d \in Int /\ n \in Int /\ h \in Int
            /\ newO \in Int /\ newS \in Int /\ newD \in Int /\ newN \in Int
            /\ newO - newS - newD - newN = o - s - d - n /\ o = s + n + d + h
        BY <3>1, <3>2, <3>3, <3>4
      <4> HIDE DEF o, s, d, n, newO, newS, newD, newN
      <4>2. newO = newS + newN + newD + h
        BY <4>1
      <4> QED BY <4>2 DEF newO, newS, newD, newN
    <3> QED BY <3>2, <3>5 DEF NotificationsAccounted, h
  <2>8. GivenUpIsTold' /\ StopKnows' /\ DrainFollows'
    <3>1. \A l \in overflowed' : l \in Listeners /\ conn'[l] # "new"
      BY <1>1, <2>1 DEF GivenUpIsTold, Publish
    <3>2. GivenUpIsTold'
      BY <1>1, <2>3, <3>1 DEF GivenUpIsTold
    <3>3. StopKnows' /\ DrainFollows'
      BY <1>1, <2>1, <2>5 DEF StopKnows, DrainFollows, None
    <3> QED BY <3>2, <3>3
  <2>9. ASSUME NEW l \in Listeners PROVE Owed(l)'
    BY <1>1, <2>2, <2>3 DEF Owed
  <2> QED BY <2>6, <2>7, <2>8, <2>9
<1> QED BY <1>2, <1>3
LEMMA TradeStep == TradeInv /\ [TradeNext]_tradeVars => TradeInv'
<1> SUFFICES ASSUME TradeInv, [TradeNext]_tradeVars PROVE TradeInv'
  OBVIOUS
<1> USE DEF TradeInv
<1>1. CASE UNCHANGED tradeVars
  BY <1>1 DEF tradeVars, feedVars, wsVars, notifyVars, TradeTypes, None, GivenUpIsTold, StopKnows,
     DrainFollows, NotificationsAccounted, Owed
<1>2. CASE Dispatch
  BY <1>2, DispatchKeeps
<1>3. CASE Drain
  BY <1>3, DrainKeeps
\* The worker: nothing that a listener is owed changes.
<1>4. ASSUME UNCHANGED <<feedVars, wsVars>>, nq' \in Seq(EventNumbers),
             inflight' \in EventNumbers \union {None},
             worker' \in {"running", "stopping", "stopped"}, cancelled' \in BOOLEAN,
             count' \in [offered : Int, sent : Int, dropped : Int],
             StopKnows', NotificationsAccounted'
      PROVE  TradeInv'
  BY <1>4 DEF feedVars, wsVars, TradeTypes, None, GivenUpIsTold, DrainFollows, Owed
<1>5. /\ nq \in Seq(EventNumbers) /\ Len(nq) \in Nat
      /\ count \in [offered : Int, sent : Int, dropped : Int]
      /\ count.offered \in Int /\ count.sent \in Int /\ count.dropped \in Int
      /\ inflight \in EventNumbers \union {None} /\ None \notin EventNumbers
  BY TradeAssumption DEF TradeTypes, None, EventNumbers
<1>6. CASE WorkerTakes
  <2>1. /\ worker = "running" /\ inflight = None /\ nq # <<>> /\ inflight' = Head(nq)
        /\ nq' = Tail(nq) /\ UNCHANGED <<feedVars, wsVars, worker, cancelled, count>>
    BY <1>6 DEF WorkerTakes
  <2>2. inflight' \in EventNumbers /\ nq' \in Seq(EventNumbers) /\ Len(nq') = Len(nq) - 1
    BY <1>5, <2>1, EventsOfTail
  <2>3. NotificationsAccounted'
    BY <1>5, <2>1, <2>2 DEF NotificationsAccounted, None
  <2> QED BY <1>4, <2>1, <2>2, <2>3 DEF TradeTypes, StopKnows
<1>7. CASE WorkerSent
  <2>1. /\ worker = "running" /\ inflight # None /\ inflight' = None
        /\ count' = [count EXCEPT !.sent = @ + 1]
        /\ UNCHANGED <<feedVars, wsVars, nq, worker, cancelled>>
    BY <1>7 DEF WorkerSent
  <2>2. /\ count' \in [offered : Int, sent : Int, dropped : Int]
        /\ count'.offered = count.offered /\ count'.sent = count.sent + 1
        /\ count'.dropped = count.dropped
    BY <1>5, <2>1
  <2>3. NotificationsAccounted'
    BY <1>5, <2>1, <2>2 DEF NotificationsAccounted, None
  <2> QED BY <1>4, <1>5, <2>1, <2>2, <2>3 DEF TradeTypes, StopKnows
<1>8. CASE StopNotifier
  <2>1. /\ worker' = "stopping" /\ cancelled' = (inflight # None)
        /\ UNCHANGED <<feedVars, wsVars, nq, inflight, count>>
    BY <1>8 DEF StopNotifier
  <2>2. NotificationsAccounted' /\ StopKnows' /\ cancelled' \in BOOLEAN
    BY <2>1 DEF NotificationsAccounted, None, StopKnows
  <2> QED BY <1>4, <1>5, <2>1, <2>2
<1>9. CASE Purge
  <2> DEFINE k == IF cancelled THEN 1 ELSE 0
             h == IF inflight = None THEN 0 ELSE 1
  <2>1. /\ worker = "stopping" /\ worker' = "stopped" /\ inflight' = None /\ nq' = <<>>
        /\ count' = [count EXCEPT !.dropped = @ + Len(nq) + k]
        /\ UNCHANGED <<feedVars, wsVars, cancelled>>
    BY <1>9 DEF Purge
  <2>2. k = h /\ h \in Nat
    BY <2>1 DEF StopKnows
  <2>3. count.offered = count.sent + Len(nq) + count.dropped + h
    BY DEF NotificationsAccounted
  <2> HIDE DEF k, h
  <2>4. /\ count' \in [offered : Int, sent : Int, dropped : Int]
        /\ count'.offered = count.offered /\ count'.sent = count.sent
        /\ count'.dropped = count.dropped + Len(nq) + k
    BY <1>5, <2>1, <2>2
  <2>5. NotificationsAccounted'
    <3>1. Len(nq') = 0
      BY <2>1
    <3>2. count'.offered = count'.sent + 0 + count'.dropped + 0
      BY <1>5, <2>2, <2>3, <2>4
    <3> QED BY <2>1, <3>1, <3>2 DEF NotificationsAccounted, None
  <2>6. nq' \in Seq(EventNumbers) /\ StopKnows'
    BY <2>1 DEF StopKnows
  <2> QED BY <1>4, <1>5, <2>1, <2>4, <2>5, <2>6 DEF TradeTypes
\* The connections: the feed and the notifier stay as they are.
<1>10. ASSUME UNCHANGED <<native, events, drain, notifyVars>>, loop' \in {"open", "closed"},
              loop' = "open" => loop = "open",
              lq' \in [Listeners -> Seq(EventNumbers)],
              conn' \in [Listeners -> {"new", "open", "reconcile", "closed"}],
              since' \in [Listeners -> EventNumbers], got' \in [Listeners -> SUBSET EventNumbers],
              GivenUpIsTold', \A l \in Listeners : Owed(l)'
       PROVE  TradeInv'
  BY <1>10 DEF notifyVars, TradeTypes, None, StopKnows, DrainFollows, NotificationsAccounted
<1>11. CASE CloseLoop
  BY <1>10, <1>11 DEF CloseLoop, wsVars, TradeTypes, GivenUpIsTold, Owed
<1>12. ASSUME NEW l \in Listeners, Connect(l) PROVE TradeInv'
  <2>1. /\ conn[l] = "new" /\ loop = "open" /\ conn' = [conn EXCEPT ![l] = "open"]
        /\ since' = [since EXCEPT ![l] = native]
        /\ UNCHANGED <<feedVars, notifyVars, lq, overflowed, got>>
    BY <1>12 DEF Connect
  <2>2. GivenUpIsTold'
    BY <2>1 DEF GivenUpIsTold, TradeTypes, feedVars
  <2>3. ASSUME NEW m \in Listeners PROVE Owed(m)'
    <3>1. CASE m = l
      <4>1. since'[m] = native /\ native' = native
        BY <2>1, <3>1 DEF TradeTypes, feedVars
      <4>2. \A x \in EventNumbers : ~(native < x /\ x <= native)
        BY DEF TradeTypes, EventNumbers
      <4> QED BY <4>1, <4>2 DEF Owed
    <3>2. CASE m # l
      BY <2>1, <3>2 DEF Owed, TradeTypes, feedVars
    <3> QED BY <3>1, <3>2
  <2> QED BY <1>10, <2>1, <2>2, <2>3 DEF TradeTypes, feedVars
<1>13. ASSUME NEW l \in Listeners, SendNext(l) PROVE TradeInv'
  <2> DEFINE e == Head(lq[l])
  <2>1. /\ conn[l] = "open" /\ lq[l] # <<>> /\ lq' = [lq EXCEPT ![l] = Tail(lq[l])]
        /\ got' = [got EXCEPT ![l] = got[l] \union {e}]
        /\ conn' = [conn EXCEPT ![l] = IF e = Gap THEN "reconcile" ELSE "open"]
        /\ UNCHANGED <<feedVars, notifyVars, overflowed, since>>
    BY <1>13 DEF SendNext
  <2>2. /\ e \in EventNumbers /\ Tail(lq[l]) \in Seq(EventNumbers)
        /\ ToSet(lq[l]) = ToSet(Tail(lq[l])) \union {e}
    BY <2>1, EventsOfTail DEF TradeTypes
  <2> HIDE DEF e
  <2>3. GivenUpIsTold'
    BY <2>1, <2>2 DEF GivenUpIsTold, TradeTypes, feedVars
  <2>4. ASSUME NEW m \in Listeners PROVE Owed(m)'
    <3>1. CASE m = l
      BY <2>1, <2>2, <3>1 DEF Owed, TradeTypes, feedVars
    <3>2. CASE m # l
      BY <2>1, <3>2 DEF Owed, TradeTypes, feedVars
    <3> QED BY <3>1, <3>2
  <2> QED BY <1>10, <2>1, <2>2, <2>3, <2>4 DEF TradeTypes, feedVars
<1>14. ASSUME NEW l \in Listeners, Disconnect(l) PROVE TradeInv'
  <2>1. /\ conn' = [conn EXCEPT ![l] = "closed"] /\ lq' = [lq EXCEPT ![l] = <<>>]
        /\ UNCHANGED <<feedVars, notifyVars, overflowed, since, got>>
    BY <1>14 DEF Disconnect
  <2>2. GivenUpIsTold'
    <3>1. conn'[l] = "closed" /\ \A m \in Listeners : m # l => conn'[m] = conn[m] /\ lq'[m] = lq[m]
      BY <2>1 DEF TradeTypes
    <3> QED BY <2>1, <3>1 DEF GivenUpIsTold, feedVars
  <2>3. ASSUME NEW m \in Listeners PROVE Owed(m)'
    BY <2>1 DEF Owed, TradeTypes, feedVars
  <2>4. lq' \in [Listeners -> Seq(EventNumbers)]
    BY <2>1 DEF TradeTypes
  <2> QED BY <1>10, <2>1, <2>2, <2>3, <2>4 DEF TradeTypes, feedVars
<1> QED BY <1>1, <1>2, <1>3, <1>6, <1>7, <1>8, <1>9, <1>11, <1>12, <1>13, <1>14 DEF TradeNext

LEMMA OwedIsAnnounced == TradeInv => EventsAccounted
<1> SUFFICES ASSUME TradeInv PROVE EventsAccounted
  OBVIOUS
<1> USE DEF TradeInv
<1>1. ASSUME NEW l \in Listeners
      PROVE  conn[l] = "open" /\ Missing(l) # {} => Gap \in ToSet(lq[l]) \cup ToSet(events)
  <2>1. since[l] \in Nat /\ native \in Nat /\ native <= MaxEvents
    BY TradeAssumption DEF TradeTypes, EventNumbers
  <2>2. \A x : x \in since[l] + 1 .. native <=> x \in EventNumbers /\ since[l] < x /\ x <= native
    BY <2>1, TradeAssumption DEF EventNumbers
  <2> QED BY <2>2 DEF Owed, Missing
<1> QED BY <1>1 DEF LossAnnounced, DrainFollows, EventsAccounted


\* Every event reaches its readers, or a gap or a counter says that it did not, for
\* any number of listeners and events and for queues of any length
\* (trading/callbacks.py, ws/trade_callback.py, notify/base.py).
THEOREM EventsAreAccounted == Spec => []EventsAccounted
BY PartsStart, StepsOfParts, TradeStart, TradeStep, OwedIsAnnounced, PTL DEF Spec

-----------------------------------------------------------------------------
(* The runtime's clients.  What is used has been published, the minute   *)
(* lane is one read's, and a close waits for whoever is binding a client. *)

Stages == {"none", "connecting", "open", "closing", "stopping", "closed"}
ReadPlaces == {"idle", "entered", "runtime", "binding", "client", "building"}
AskPlaces == {"idle", "call", "sequence", "starting"}
ListenerType == [thread : Listening \union {"none"}, wanted : BOOLEAN, callback : BOOLEAN,
                 failed : BOOLEAN, late : BOOLEAN]

\* What the values are.
ClientTypes ==
  /\ stage \in [Runtimes -> Stages]
  /\ current \in Runtimes \union {NoRuntime}
  /\ transport \in [Runtimes \X Lanes -> Nat]
  /\ reading \in [Reads -> [at : ReadPlaces, of : Runtimes \union {NoRuntime}]]
  /\ listener \in [Runtimes -> ListenerType]
  /\ asking \in [at : AskPlaces, of : Runtimes \union {NoRuntime}]
  /\ \A t \in live : t[1] \in Runtimes \X Lanes

\* What is used has been published: it is, or was, the runtime of the module.
UsedWasPublished ==
  /\ current # NoRuntime => stage[current] = "open"
  /\ \A q \in Reads : reading[q].at \notin {"idle", "entered"} =>
       /\ reading[q].of \in Runtimes
       /\ stage[reading[q].of] \notin {"none", "connecting"}
  /\ asking.at # "idle" =>
       /\ asking.of \in Runtimes
       /\ stage[asking.of] \notin {"none", "connecting"}

\* One read at a time is on the minute lane; the main client's transport is
\* built with it, and the minute client's by the read that found none.
BuiltOnce ==
  /\ \A q \in Reads : reading[q].at # "idle" => minuteLane = q
  /\ \A r \in Runtimes : stage[r] = "none" => transport[<<r, "main">>] = 0
  /\ \A c \in Runtimes \X Lanes : transport[c] <= 1
  /\ \A q \in Reads :
       reading[q].at = "building" => transport[<<reading[q].of, "minute">>] = 0

\* Whoever binds a minute client holds up the close of its runtime, and a read
\* that has a client of a runtime that is closed was overtaken.
ReadsAreOvertaken ==
  \A q \in Reads :
    /\ reading[q].at = "binding" => stage[reading[q].of] \notin {"stopping", "closed"}
    /\ reading[q].at \in {"client", "building"} /\ stage[reading[q].of] \in {"stopping", "closed"}
         => <<reading[q].of, "minute">> \in overtook

\* What a close leaves.
LeftByClose ==
  \A r \in Runtimes : stage[r] \in {"stopping", "closed"} =>
    /\ \A c \in bound : c[1] # r
    /\ \A t \in live : t[1] = <<r, "minute">> => t[1] \in overtook
    /\ stage[r] = "closed" => \A t \in live : t[1] # <<r, "main">>

\* A listener runs for a callback, unless it failed or is about to be started.
ListenerFollows ==
  \A r \in Runtimes :
    /\ stage[r] \in {"none", "connecting"} => listener[r].thread = "none" /\ ~listener[r].callback
    /\ listener[r].thread = "failing" => listener[r].failed
    /\ listener[r].thread = "running" /\ stage[r] \in {"open", "closing"} => listener[r].wanted
    /\ stage[r] = "closed" /\ listener[r].thread \in Listening => listener[r].late
    /\ stage[r] \in {"open", "closing"} /\ listener[r].callback =>
         \/ listener[r].thread = "running" \/ listener[r].failed
         \/ asking = [at |-> "starting", of |-> r]

ClientsInv == /\ ClientTypes /\ UsedWasPublished /\ BuiltOnce /\ ReadsAreOvertaken
              /\ LeftByClose /\ ListenerFollows






LEMMA ClientsStart == ClientsInit => ClientsInv
  BY ClientsAssumption DEF ClientsInit, ClientsInv, ClientTypes, UsedWasPublished, BuiltOnce,
     ReadsAreOvertaken, LeftByClose, ListenerFollows, Stages, ReadPlaces, AskPlaces,
     ListenerType, Listening, Silent, Idle, NoRuntime, Lanes

LEMMA ClientsStep == ClientsInv /\ [ClientsNext]_clientVars => ClientsInv'
<1> SUFFICES ASSUME ClientsInv, [ClientsNext]_clientVars PROVE ClientsInv'
  OBVIOUS
<1> USE ClientsAssumption DEF ClientsInv, Stages, ReadPlaces, AskPlaces, ListenerType,
        Listening, Lanes, NoRuntime, Idle, owners, clients, failure, reads, quotes
<1>1. CASE UNCHANGED clientVars
  BY <1>1 DEF clientVars, ClientTypes, UsedWasPublished, BuiltOnce, ReadsAreOvertaken,
     LeftByClose, ListenerFollows
<1>2. ASSUME NEW r \in Runtimes, ConnectClient(r) PROVE ClientsInv'
  <2>1. ClientTypes'
    BY <1>2 DEF ConnectClient, BuildsTransport, ClientTypes, UsedWasPublished
  <2>2. UsedWasPublished'
    BY <1>2 DEF ConnectClient, BuildsTransport, ClientTypes, UsedWasPublished
  <2>3. BuiltOnce'
    BY <1>2 DEF ConnectClient, BuildsTransport, ClientTypes, UsedWasPublished, BuiltOnce
  <2>4. ReadsAreOvertaken'
    BY <1>2 DEF ConnectClient, BuildsTransport, ClientTypes, UsedWasPublished, ReadsAreOvertaken
  <2>5. LeftByClose'
    BY <1>2 DEF ConnectClient, BuildsTransport, ClientTypes, UsedWasPublished,
       ReadsAreOvertaken, LeftByClose
  <2>6. ListenerFollows'
    BY <1>2 DEF ConnectClient, BuildsTransport, ClientTypes, UsedWasPublished, ListenerFollows
  <2> QED BY <2>1, <2>2, <2>3, <2>4, <2>5, <2>6
<1>3. ASSUME NEW r \in Runtimes, ConnectFails(r) PROVE ClientsInv'
  <2>1. ClientTypes'
    BY <1>3 DEF ConnectFails, ClientTypes, UsedWasPublished
  <2>2. UsedWasPublished'
    BY <1>3 DEF ConnectFails, ClientTypes, UsedWasPublished
  <2>3. BuiltOnce'
    BY <1>3 DEF ConnectFails, ClientTypes, UsedWasPublished, BuiltOnce
  <2>4. ReadsAreOvertaken'
    BY <1>3 DEF ConnectFails, ClientTypes, UsedWasPublished, ReadsAreOvertaken
  <2>5. LeftByClose'
    BY <1>3 DEF ConnectFails, ClientTypes, UsedWasPublished, ReadsAreOvertaken, LeftByClose
  <2>6. ListenerFollows'
    BY <1>3 DEF ConnectFails, ClientTypes, UsedWasPublished, ListenerFollows
  <2> QED BY <2>1, <2>2, <2>3, <2>4, <2>5, <2>6
<1>4. ASSUME NEW r \in Runtimes, PublishRuntime(r) PROVE ClientsInv'
  <2>0. /\ stage[r] = "connecting" /\ stage'[r] = "open" /\ UNCHANGED <<listener, asking>>
        /\ \A s \in Runtimes : s # r =>
             (stage'[s] = stage[s]) \/ (stage[s] = "open" /\ stage'[s] = "closing")
    <3>1. /\ stage[r] = "connecting" /\ UNCHANGED <<listener, asking>>
          /\ stage \in [Runtimes -> Stages]
          /\ current # NoRuntime => stage[current] = "open"
      BY <1>4 DEF PublishRuntime, ClientTypes, UsedWasPublished
    <3>2. stage' = [s \in Runtimes |-> IF s = r THEN "open"
                                      ELSE IF s = current THEN "closing" ELSE stage[s]]
      BY <1>4 DEF PublishRuntime
    <3>3. \A s \in Runtimes : s # NoRuntime
      BY DEF Runtimes
    <3> QED BY <3>1, <3>2, <3>3
  <2>1. ClientTypes'
    BY <1>4 DEF PublishRuntime, ClientTypes, UsedWasPublished
  <2>2. UsedWasPublished'
    BY <1>4 DEF PublishRuntime, ClientTypes, UsedWasPublished
  <2>3. BuiltOnce'
    BY <1>4 DEF PublishRuntime, ClientTypes, UsedWasPublished, BuiltOnce
  <2>4. ReadsAreOvertaken'
    BY <1>4 DEF PublishRuntime, ClientTypes, UsedWasPublished, ReadsAreOvertaken
  <2>5. LeftByClose'
    BY <1>4 DEF PublishRuntime, ClientTypes, UsedWasPublished, ReadsAreOvertaken, LeftByClose
  <2>6. ListenerFollows'
    BY <2>0 DEF ClientTypes, UsedWasPublished, ListenerFollows
  <2> QED BY <2>1, <2>2, <2>3, <2>4, <2>5, <2>6
<1>5. ASSUME NEW r \in Runtimes, BindRuntime(r) PROVE ClientsInv'
  <2>1. ClientTypes'
    BY <1>5 DEF BindRuntime, ClientTypes, UsedWasPublished
  <2>2. UsedWasPublished'
    BY <1>5 DEF BindRuntime, ClientTypes, UsedWasPublished
  <2>3. BuiltOnce'
    BY <1>5 DEF BindRuntime, ClientTypes, UsedWasPublished, BuiltOnce
  <2>4. ReadsAreOvertaken'
    BY <1>5 DEF BindRuntime, ClientTypes, UsedWasPublished, ReadsAreOvertaken
  <2>5. LeftByClose'
    BY <1>5 DEF BindRuntime, ClientTypes, UsedWasPublished, ReadsAreOvertaken, LeftByClose
  <2>6. ListenerFollows'
    BY <1>5 DEF BindRuntime, ClientTypes, UsedWasPublished, ListenerFollows
  <2> QED BY <2>1, <2>2, <2>3, <2>4, <2>5, <2>6
<1>6. ASSUME NEW r \in Runtimes, Discard(r) PROVE ClientsInv'
  <2>0. /\ stage[r] = "open" /\ stage'[r] = "closing" /\ UNCHANGED <<listener, asking>>
        /\ \A s \in Runtimes : s # r => stage'[s] = stage[s]
    BY <1>6 DEF Discard, ClientTypes, UsedWasPublished, Runtimes
  <2>1. ClientTypes'
    BY <1>6 DEF Discard, ClientTypes, UsedWasPublished
  <2>2. UsedWasPublished'
    BY <1>6 DEF Discard, ClientTypes, UsedWasPublished
  <2>3. BuiltOnce'
    BY <1>6 DEF Discard, ClientTypes, UsedWasPublished, BuiltOnce
  <2>4. ReadsAreOvertaken'
    BY <1>6 DEF Discard, ClientTypes, UsedWasPublished, ReadsAreOvertaken
  <2>5. LeftByClose'
    BY <1>6 DEF Discard, ClientTypes, UsedWasPublished, ReadsAreOvertaken, LeftByClose
  <2>6. ListenerFollows'
    BY <2>0 DEF ClientTypes, UsedWasPublished, ListenerFollows
  <2> QED BY <2>1, <2>2, <2>3, <2>4, <2>5, <2>6
<1>7. ASSUME NEW r \in Runtimes, CloseMinute(r) PROVE ClientsInv'
  <2>1. ClientTypes'
    BY <1>7, ZenonT(30) DEF CloseMinute, Busy, ClientTypes, UsedWasPublished
  <2>2. UsedWasPublished'
    BY <1>7 DEF CloseMinute, Busy, ClientTypes, UsedWasPublished
  <2>3. BuiltOnce'
    BY <1>7 DEF CloseMinute, Busy, ClientTypes, UsedWasPublished, BuiltOnce
  <2>4. ReadsAreOvertaken'
    BY <1>7 DEF CloseMinute, Busy, ClientTypes, UsedWasPublished, ReadsAreOvertaken
  <2>5. LeftByClose'
    BY <1>7 DEF CloseMinute, Busy, ClientTypes, UsedWasPublished, ReadsAreOvertaken, LeftByClose
  <2>6. ListenerFollows'
    BY <1>7 DEF CloseMinute, Busy, ClientTypes, UsedWasPublished, ListenerFollows
  <2> QED BY <2>1, <2>2, <2>3, <2>4, <2>5, <2>6
<1>8. ASSUME NEW r \in Runtimes, CloseMain(r) PROVE ClientsInv'
  <2>1. ClientTypes'
    BY <1>8 DEF CloseMain, ClientTypes, UsedWasPublished
  <2>2. UsedWasPublished'
    BY <1>8 DEF CloseMain, ClientTypes, UsedWasPublished
  <2>3. BuiltOnce'
    BY <1>8 DEF CloseMain, ClientTypes, UsedWasPublished, BuiltOnce
  <2>4. ReadsAreOvertaken'
    BY <1>8 DEF CloseMain, ClientTypes, UsedWasPublished, ReadsAreOvertaken
  <2>5. LeftByClose'
    BY <1>8 DEF CloseMain, ClientTypes, UsedWasPublished, ReadsAreOvertaken, LeftByClose
  <2>6. ListenerFollows'
    BY <1>8 DEF CloseMain, ClientTypes, UsedWasPublished, ListenerFollows
  <2> QED BY <2>1, <2>2, <2>3, <2>4, <2>5, <2>6
<1>9. ASSUME NEW r \in Runtimes, ListenerEnds(r) PROVE ClientsInv'
  <2>0. /\ listener'[r] \in ListenerType /\ listener' \in [Runtimes -> ListenerType]
        /\ listener'[r].callback = listener[r].callback /\ listener'[r].late = listener[r].late
        /\ listener'[r].wanted = listener[r].wanted
        /\ \/ /\ listener[r].thread = "running" /\ ~listener[r].wanted
              /\ listener'[r].thread = "none"
           \/ /\ listener[r].thread = "running"
              /\ listener'[r].thread = "failing" /\ listener'[r].failed
           \/ /\ listener[r].thread = "failing" /\ listener'[r].thread = "none"
              /\ listener'[r].failed = listener[r].failed
        /\ \A s \in Runtimes : s # r => listener'[s] = listener[s]
        /\ UNCHANGED <<stage, asking>>
    <3>1. listener[r] \in ListenerType
      BY DEF ClientTypes
    <3>2. CASE listener[r].thread = "running" /\ ~listener[r].wanted
               /\ listener' = [listener EXCEPT ![r].thread = "none"]
      <4>1. listener'[r] = [listener[r] EXCEPT !.thread = "none"]
        BY <3>2 DEF ClientTypes
      <4> QED BY <1>9, <3>1, <3>2, <4>1 DEF ListenerEnds, ClientTypes
    <3>3. CASE listener[r].thread = "running"
               /\ listener' = [listener EXCEPT ![r] =
                                 [@ EXCEPT !.thread = "failing", !.failed = TRUE]]
      <4>1. listener'[r] = [listener[r] EXCEPT !.thread = "failing", !.failed = TRUE]
        BY <3>3 DEF ClientTypes
      <4> QED BY <1>9, <3>1, <3>3, <4>1 DEF ListenerEnds, ClientTypes
    <3>4. CASE listener[r].thread = "failing" /\ listener' = [listener EXCEPT ![r].thread = "none"]
      <4>1. listener'[r] = [listener[r] EXCEPT !.thread = "none"]
        BY <3>4 DEF ClientTypes
      <4> QED BY <1>9, <3>1, <3>4, <4>1 DEF ListenerEnds, ClientTypes
    <3> QED BY <1>9, <3>2, <3>3, <3>4 DEF ListenerEnds
  <2>1. ClientTypes'
    BY <1>9, <2>0 DEF ListenerEnds, ClientTypes, UsedWasPublished
  <2>2. UsedWasPublished'
    BY <1>9 DEF ListenerEnds, ClientTypes, UsedWasPublished
  <2>3. BuiltOnce'
    BY <1>9 DEF ListenerEnds, ClientTypes, UsedWasPublished, BuiltOnce
  <2>4. ReadsAreOvertaken'
    BY <1>9 DEF ListenerEnds, ClientTypes, UsedWasPublished, ReadsAreOvertaken
  <2>5. LeftByClose'
    BY <1>9 DEF ListenerEnds, ClientTypes, UsedWasPublished, ReadsAreOvertaken, LeftByClose
  <2>6. ListenerFollows'
    BY <2>0 DEF ClientTypes, UsedWasPublished, ListenerFollows
  <2> QED BY <2>1, <2>2, <2>3, <2>4, <2>5, <2>6
<1>10. ASSUME NEW q \in Reads, EnterMinute(q) PROVE ClientsInv'
  <2>1. ClientTypes'
    BY <1>10 DEF EnterMinute, ReadAt, ClientTypes, UsedWasPublished
  <2>2. UsedWasPublished'
    BY <1>10 DEF EnterMinute, ReadAt, ClientTypes, UsedWasPublished
  <2>3. BuiltOnce'
    BY <1>10 DEF EnterMinute, ReadAt, ClientTypes, UsedWasPublished, BuiltOnce
  <2>4. ReadsAreOvertaken'
    BY <1>10 DEF EnterMinute, ReadAt, ClientTypes, UsedWasPublished, ReadsAreOvertaken
  <2>5. LeftByClose'
    BY <1>10 DEF EnterMinute, ReadAt, ClientTypes, UsedWasPublished, ReadsAreOvertaken,
       LeftByClose
  <2>6. ListenerFollows'
    BY <1>10 DEF EnterMinute, ReadAt, ClientTypes, UsedWasPublished, ListenerFollows
  <2> QED BY <2>1, <2>2, <2>3, <2>4, <2>5, <2>6
<1>11. ASSUME NEW q \in Reads, LookUpRuntime(q) PROVE ClientsInv'
  <2>1. ClientTypes'
    BY <1>11 DEF LookUpRuntime, ReadAt, ClientTypes, UsedWasPublished
  <2>2. UsedWasPublished'
    BY <1>11 DEF LookUpRuntime, ReadAt, ClientTypes, UsedWasPublished
  <2>3. BuiltOnce'
    BY <1>11 DEF LookUpRuntime, ReadAt, ClientTypes, UsedWasPublished, BuiltOnce
  <2>4. ReadsAreOvertaken'
    BY <1>11 DEF LookUpRuntime, ReadAt, ClientTypes, UsedWasPublished, ReadsAreOvertaken
  <2>5. LeftByClose'
    BY <1>11 DEF LookUpRuntime, ReadAt, ClientTypes, UsedWasPublished, ReadsAreOvertaken,
       LeftByClose
  <2>6. ListenerFollows'
    BY <1>11 DEF LookUpRuntime, ReadAt, ClientTypes, UsedWasPublished, ListenerFollows
  <2> QED BY <2>1, <2>2, <2>3, <2>4, <2>5, <2>6
<1>12. ASSUME NEW q \in Reads, MinuteClient(q) PROVE ClientsInv'
  <2>0. /\ reading[q].at = "runtime" /\ stage[reading[q].of] \notin {"stopping", "closed"}
        /\ UNCHANGED <<stage, current, transport, live, minuteLane, overtook, asking, listener>>
        /\ \E x \in {"client", "binding"} :
             reading' = [reading EXCEPT ![q] = [at |-> x, of |-> reading[q].of]]
    BY <1>12 DEF MinuteClient, ReadAt
  <2>1. ClientTypes'
    BY <2>0 DEF ClientTypes, UsedWasPublished
  <2>2. UsedWasPublished'
    BY <2>0 DEF ClientTypes, UsedWasPublished
  <2>3. BuiltOnce'
    BY <2>0 DEF ClientTypes, UsedWasPublished, BuiltOnce
  <2>4. ReadsAreOvertaken'
    BY <2>0 DEF ClientTypes, UsedWasPublished, ReadsAreOvertaken
  <2>5. LeftByClose'
    BY <1>12, <2>0 DEF MinuteClient, ClientTypes, UsedWasPublished, ReadsAreOvertaken,
       LeftByClose
  <2>6. ListenerFollows'
    BY <2>0 DEF ClientTypes, UsedWasPublished, ListenerFollows
  <2> QED BY <2>1, <2>2, <2>3, <2>4, <2>5, <2>6
<1>13. ASSUME NEW q \in Reads, BindMinute(q) PROVE ClientsInv'
  <2>1. ClientTypes'
    BY <1>13 DEF BindMinute, ReadAt, ClientTypes, UsedWasPublished
  <2>2. UsedWasPublished'
    BY <1>13 DEF BindMinute, ReadAt, ClientTypes, UsedWasPublished
  <2>3. BuiltOnce'
    BY <1>13 DEF BindMinute, ReadAt, ClientTypes, UsedWasPublished, BuiltOnce
  <2>4. ReadsAreOvertaken'
    BY <1>13 DEF BindMinute, ReadAt, ClientTypes, UsedWasPublished, ReadsAreOvertaken
  <2>5. LeftByClose'
    BY <1>13 DEF BindMinute, ReadAt, ClientTypes, UsedWasPublished, ReadsAreOvertaken,
       LeftByClose
  <2>6. ListenerFollows'
    BY <1>13 DEF BindMinute, ReadAt, ClientTypes, UsedWasPublished, ListenerFollows
  <2> QED BY <2>1, <2>2, <2>3, <2>4, <2>5, <2>6
<1>14. ASSUME NEW q \in Reads, CheckTransport(q) PROVE ClientsInv'
  <2>1. ClientTypes'
    BY <1>14 DEF CheckTransport, ReadAt, ClientTypes, UsedWasPublished
  <2>2. UsedWasPublished'
    BY <1>14 DEF CheckTransport, ReadAt, ClientTypes, UsedWasPublished
  <2>3. BuiltOnce'
    BY <1>14 DEF CheckTransport, ReadAt, ClientTypes, UsedWasPublished, BuiltOnce
  <2>4. ReadsAreOvertaken'
    BY <1>14 DEF CheckTransport, ReadAt, ClientTypes, UsedWasPublished, ReadsAreOvertaken
  <2>5. LeftByClose'
    BY <1>14 DEF CheckTransport, ReadAt, ClientTypes, UsedWasPublished, ReadsAreOvertaken,
       LeftByClose
  <2>6. ListenerFollows'
    BY <1>14 DEF CheckTransport, ReadAt, ClientTypes, UsedWasPublished, ListenerFollows
  <2> QED BY <2>1, <2>2, <2>3, <2>4, <2>5, <2>6
<1>15. ASSUME NEW q \in Reads, BuildTransport(q) PROVE ClientsInv'
  <2>1. ClientTypes'
    BY <1>15 DEF BuildTransport, ReadAt, BuildsTransport, ClientTypes, UsedWasPublished
  <2>2. UsedWasPublished'
    BY <1>15 DEF BuildTransport, ReadAt, BuildsTransport, ClientTypes, UsedWasPublished
  <2>3. BuiltOnce'
    BY <1>15 DEF BuildTransport, ReadAt, BuildsTransport, ClientTypes, UsedWasPublished,
       BuiltOnce
  <2>4. ReadsAreOvertaken'
    BY <1>15 DEF BuildTransport, ReadAt, BuildsTransport, ClientTypes, UsedWasPublished,
       ReadsAreOvertaken
  <2>5. LeftByClose'
    BY <1>15 DEF BuildTransport, ReadAt, BuildsTransport, ClientTypes, UsedWasPublished,
       ReadsAreOvertaken, LeftByClose
  <2>6. ListenerFollows'
    BY <1>15 DEF BuildTransport, ReadAt, BuildsTransport, ClientTypes, UsedWasPublished,
       ListenerFollows
  <2> QED BY <2>1, <2>2, <2>3, <2>4, <2>5, <2>6
<1>16. ASSUME NEW q \in Reads, LeaveMinute(q) PROVE ClientsInv'
  <2>1. ClientTypes'
    BY <1>16 DEF LeaveMinute, ClientTypes, UsedWasPublished
  <2>2. UsedWasPublished'
    BY <1>16 DEF LeaveMinute, ClientTypes, UsedWasPublished
  <2>3. BuiltOnce'
    BY <1>16 DEF LeaveMinute, ClientTypes, UsedWasPublished, BuiltOnce
  <2>4. ReadsAreOvertaken'
    BY <1>16 DEF LeaveMinute, ClientTypes, UsedWasPublished, ReadsAreOvertaken
  <2>5. LeftByClose'
    BY <1>16 DEF LeaveMinute, ClientTypes, UsedWasPublished, ReadsAreOvertaken, LeftByClose
  <2>6. ListenerFollows'
    BY <1>16 DEF LeaveMinute, ClientTypes, UsedWasPublished, ListenerFollows
  <2> QED BY <2>1, <2>2, <2>3, <2>4, <2>5, <2>6
<1>17. CASE AskQuotes
  <2>1. ClientTypes'
    BY <1>17 DEF AskQuotes, ClientTypes, UsedWasPublished
  <2>2. UsedWasPublished'
    BY <1>17 DEF AskQuotes, ClientTypes, UsedWasPublished
  <2>3. BuiltOnce'
    BY <1>17 DEF AskQuotes, ClientTypes, UsedWasPublished, BuiltOnce
  <2>4. ReadsAreOvertaken'
    BY <1>17 DEF AskQuotes, ClientTypes, UsedWasPublished, ReadsAreOvertaken
  <2>5. LeftByClose'
    BY <1>17 DEF AskQuotes, ClientTypes, UsedWasPublished, ReadsAreOvertaken, LeftByClose
  <2>6. ListenerFollows'
    BY <1>17 DEF AskQuotes, ClientTypes, UsedWasPublished, ListenerFollows
  <2> QED BY <2>1, <2>2, <2>3, <2>4, <2>5, <2>6
<1>18. CASE QuoteSequence
  <2>1. ClientTypes'
    BY <1>18 DEF QuoteSequence, ClientTypes, UsedWasPublished
  <2>2. UsedWasPublished'
    BY <1>18 DEF QuoteSequence, ClientTypes, UsedWasPublished
  <2>3. BuiltOnce'
    BY <1>18 DEF QuoteSequence, ClientTypes, UsedWasPublished, BuiltOnce
  <2>4. ReadsAreOvertaken'
    BY <1>18 DEF QuoteSequence, ClientTypes, UsedWasPublished, ReadsAreOvertaken
  <2>5. LeftByClose'
    BY <1>18 DEF QuoteSequence, ClientTypes, UsedWasPublished, ReadsAreOvertaken, LeftByClose
  <2>6. ListenerFollows'
    BY <1>18 DEF QuoteSequence, ClientTypes, UsedWasPublished, ListenerFollows
  <2> QED BY <2>1, <2>2, <2>3, <2>4, <2>5, <2>6
<1>19. CASE QuotesRefused
  <2>1. ClientTypes'
    BY <1>19 DEF QuotesRefused, ClientTypes, UsedWasPublished
  <2>2. UsedWasPublished'
    BY <1>19 DEF QuotesRefused, ClientTypes, UsedWasPublished
  <2>3. BuiltOnce'
    BY <1>19 DEF QuotesRefused, ClientTypes, UsedWasPublished, BuiltOnce
  <2>4. ReadsAreOvertaken'
    BY <1>19 DEF QuotesRefused, ClientTypes, UsedWasPublished, ReadsAreOvertaken
  <2>5. LeftByClose'
    BY <1>19 DEF QuotesRefused, ClientTypes, UsedWasPublished, ReadsAreOvertaken, LeftByClose
  <2>6. ListenerFollows'
    BY <1>19 DEF QuotesRefused, ClientTypes, UsedWasPublished, ListenerFollows
  <2> QED BY <2>1, <2>2, <2>3, <2>4, <2>5, <2>6
<1>20. CASE RegisterCallback
  <2>1. ClientTypes'
    BY <1>20, ZenonT(30) DEF RegisterCallback, ClientTypes, UsedWasPublished
  <2>2. UsedWasPublished'
    BY <1>20 DEF RegisterCallback, ClientTypes, UsedWasPublished
  <2>3. BuiltOnce'
    BY <1>20 DEF RegisterCallback, ClientTypes, UsedWasPublished, BuiltOnce
  <2>4. ReadsAreOvertaken'
    BY <1>20 DEF RegisterCallback, ClientTypes, UsedWasPublished, ReadsAreOvertaken
  <2>5. LeftByClose'
    BY <1>20 DEF RegisterCallback, ClientTypes, UsedWasPublished, ReadsAreOvertaken, LeftByClose
  <2>6. ListenerFollows'
    BY <1>20 DEF RegisterCallback, ClientTypes, UsedWasPublished, ListenerFollows
  <2> QED BY <2>1, <2>2, <2>3, <2>4, <2>5, <2>6
<1>21. CASE StartListener
  <2> DEFINE r == asking.of
  <2>0. /\ r \in Runtimes /\ asking.at = "starting" /\ asking' = Idle
        /\ stage[r] \notin {"none", "connecting"}
        /\ listener'[r] \in ListenerType /\ listener' \in [Runtimes -> ListenerType]
        /\ listener'[r].thread = "running" /\ listener'[r].wanted
        /\ (stage[r] = "closed" => listener'[r].late)
        /\ \A s \in Runtimes : s # r => listener'[s] = listener[s]
        /\ UNCHANGED stage
    <3>1. r \in Runtimes /\ listener[r] \in ListenerType /\ asking.at = "starting"
      BY <1>21 DEF StartListener, ClientTypes, UsedWasPublished
    <3> DEFINE b == stage[r] \in {"stopping", "closed"}
    <3>2. listener'[r] = [listener[r] EXCEPT !.thread = "running", !.wanted = TRUE,
                                             !.failed = FALSE, !.late = b]
      BY <1>21, <3>1 DEF StartListener, ClientTypes
    <3>3. b \in BOOLEAN /\ (stage[r] = "closed" => b)
      OBVIOUS
    <3> HIDE DEF b
    <3>4. /\ listener'[r] \in ListenerType /\ listener'[r].thread = "running"
          /\ listener'[r].wanted = TRUE /\ listener'[r].late = b
      BY <3>1, <3>2, <3>3, Zenon
    <3> QED BY <1>21, <3>1, <3>3, <3>4 DEF StartListener, ClientTypes, UsedWasPublished
  <2>1. ClientTypes'
    BY <1>21, <2>0 DEF StartListener, ClientTypes, UsedWasPublished
  <2>2. UsedWasPublished'
    BY <1>21 DEF StartListener, ClientTypes, UsedWasPublished
  <2>3. BuiltOnce'
    BY <1>21 DEF StartListener, ClientTypes, UsedWasPublished, BuiltOnce
  <2>4. ReadsAreOvertaken'
    BY <1>21 DEF StartListener, ClientTypes, UsedWasPublished, ReadsAreOvertaken
  <2>5. LeftByClose'
    BY <1>21 DEF StartListener, ClientTypes, UsedWasPublished, ReadsAreOvertaken, LeftByClose
  <2>6. ListenerFollows'
    BY <2>0 DEF ClientTypes, UsedWasPublished, ListenerFollows
  <2> QED BY <2>1, <2>2, <2>3, <2>4, <2>5, <2>6
<1>22. CASE DropCallback
  <2>1. ClientTypes'
    <3>1. /\ current \in Runtimes /\ listener' = [listener EXCEPT ![current].callback = FALSE]
          /\ UNCHANGED <<owners, clients, failure, reads, asking>>
      BY <1>22 DEF DropCallback, ClientTypes
    <3>2. listener' \in [Runtimes -> ListenerType]
      BY <3>1, Zenon DEF ClientTypes, ListenerType
    <3> QED BY <3>1, <3>2 DEF ClientTypes, owners, clients, reads
  <2>2. UsedWasPublished'
    BY <1>22 DEF DropCallback, ClientTypes, UsedWasPublished
  <2>3. BuiltOnce'
    BY <1>22 DEF DropCallback, ClientTypes, UsedWasPublished, BuiltOnce
  <2>4. ReadsAreOvertaken'
    BY <1>22 DEF DropCallback, ClientTypes, UsedWasPublished, ReadsAreOvertaken
  <2>5. LeftByClose'
    BY <1>22 DEF DropCallback, ClientTypes, UsedWasPublished, ReadsAreOvertaken, LeftByClose
  <2>6. ListenerFollows'
    <3>1. /\ current \in Runtimes /\ listener' = [listener EXCEPT ![current].callback = FALSE]
          /\ listener \in [Runtimes -> ListenerType] /\ UNCHANGED <<stage, asking>>
      BY <1>22 DEF DropCallback, ClientTypes
    <3> QED BY <3>1 DEF ListenerFollows
  <2> QED BY <2>1, <2>2, <2>3, <2>4, <2>5, <2>6
<1> QED BY <1>1, <1>2, <1>3, <1>4, <1>5, <1>6, <1>7, <1>8, <1>9, <1>10, <1>11, <1>12, <1>13, <1>14,
           <1>15, <1>16, <1>17, <1>18, <1>19, <1>20, <1>21, <1>22 DEF ClientsNext

\* A transport is that of the main client or of the minute client.
LEMMA ClientsQuiet == ClientsInv => ClosedIsQuiet
<1> SUFFICES ASSUME ClientsInv PROVE ClosedIsQuiet
  OBVIOUS
<1> USE DEF ClientsInv
<1>1. \A c \in Runtimes \X Lanes : transport[c] <= 1
  BY DEF BuiltOnce
<1>2. ASSUME NEW r \in Runtimes, stage[r] = "closed", NEW t \in live, t[1][1] = r
      PROVE  t[1] \in overtook
  <2>1. t[1] = <<r, "main">> \/ t[1] = <<r, "minute">>
    BY <1>2 DEF ClientTypes, Lanes
  <2> QED BY <1>2, <2>1 DEF LeftByClose
<1>3. ASSUME NEW r \in Runtimes, stage[r] = "closed"
      PROVE  /\ \A c \in bound : c[1] # r
             /\ listener[r].thread \in Listening => listener[r].late
  BY <1>3 DEF LeftByClose, ListenerFollows
<1>4. ASSUME NEW r \in Runtimes, stage[r] \in {"open", "closing"}, listener[r].callback
      PROVE  \/ listener[r].thread = "running" \/ listener[r].failed
             \/ asking = [at |-> "starting", of |-> r]
  BY <1>4 DEF ListenerFollows
<1> QED BY <1>1, <1>2, <1>3, <1>4 DEF ClosedIsQuiet

\* What a runtime leaves open when it is closed is what its close was overtaken
\* by, for any number of runtimes and of reads, however the close, the minute
\* reads and the hub's subscription interleave (bigqmt.py, minute_data_client and
\* close; rpc_client.py, _transport and _start_quote_event_listener).
THEOREM ClosedRuntimesAreQuiet == Spec => []ClosedIsQuiet
BY PartsStart, StepsOfParts, ClientsStart, ClientsStep, ClientsQuiet, PTL DEF Spec

-----------------------------------------------------------------------------
(* The quote hubs.  Codes lead to distinct running groups, a client keeps *)
(* its group, and native subscriptions carry distinct sequence numbers.    *)

Groups == 1..MaxGroups
ClientType == [at : {"new", "in", "leaving", "gone"}, group : Groups \union {NoGroup},
               codes : SUBSET Codes]
Live == {"polling", "sleeping"}

\* What the values are, on the side of the clients and of the samplers.
WholeTypes ==
  /\ groups \in [Codes -> Groups \union {NoGroup}]
  /\ members \in [Groups -> SUBSET Clients]
  /\ sampler \in [Groups -> Live \union {"none", "dead"}]
  /\ client \in [Clients -> ClientType]
  /\ slot \in [Clients -> {"empty", "data", "unavailable"}]

\* A code leads to a group whose sampler runs, and to one of its own; a sampler
\* that runs has a member and a code that leads to it.
GroupsRun ==
  /\ \A k \in Codes : groups[k] # NoGroup => sampler[groups[k]] \in Live
  /\ \A k, x \in Codes : groups[k] # NoGroup /\ groups[x] = groups[k] => x = k
  /\ \A g \in Groups : sampler[g] \in Live => members[g] # {} /\ \E k \in Codes : groups[k] = g

\* A client keeps the group it joined, and asked for the code that leads there.
ClientsJoined ==
  /\ \A c \in Clients : client[c].at = "new" => client[c].group = NoGroup
  /\ \A c \in Clients : client[c].at \in {"in", "leaving"} =>
       /\ client[c].group \in Groups
       /\ \E k \in Codes : client[c].codes = {k}
  /\ \A c \in Clients : \A g \in Groups :
       /\ client[c].group = g => sampler[g] # "none"
       /\ c \in members[g] => client[c].group = g
  /\ \A c \in Clients : \A k \in Codes :
       groups[k] # NoGroup /\ client[c].group = groups[k] => client[c].codes = {k}

\* Whoever was not told that its group failed is in a group that runs.
WaitsOnLive ==
  \A c \in Clients :
    client[c].at = "in" /\ slot[c] # "unavailable" =>
      /\ sampler[client[c].group] \in Live
      /\ c \in members[client[c].group]
      /\ \A k \in client[c].codes : groups[k] = client[c].group

RealIdle == entries = Empty /\ open = Empty

WholeInv == WholeTypes /\ GroupsRun /\ ClientsJoined /\ WaitsOnLive /\ RealIdle

LEMMA WholeStart == HubInit => WholeInv
<1> SUFFICES ASSUME HubInit PROVE WholeInv
  OBVIOUS
<1> USE DEF HubInit
<1>1. WholeTypes
  <2>1. [at |-> "new", group |-> NoGroup, codes |-> {}] \in ClientType
    BY DEF ClientType
  <2>2. client \in [Clients -> ClientType]
    BY <2>1
  <2>3. /\ groups \in [Codes -> Groups \union {NoGroup}] /\ members \in [Groups -> SUBSET Clients]
        /\ sampler \in [Groups -> Live \union {"none", "dead"}]
        /\ slot \in [Clients -> {"empty", "data", "unavailable"}]
    BY DEF Groups
  <2> QED BY <2>2, <2>3 DEF WholeTypes
<1>2. GroupsRun /\ ClientsJoined /\ WaitsOnLive
  BY HubAssumption DEF GroupsRun, ClientsJoined, WaitsOnLive, NoGroup, Groups, Live
<1> QED BY <1>1, <1>2 DEF WholeInv, RealIdle

LEMMA WholeStep == WholeInv /\ [WholeNext]_hubVars => WholeInv'
<1> SUFFICES ASSUME WholeInv, [WholeNext]_hubVars PROVE WholeInv'
  OBVIOUS
<1> USE HubAssumption DEF WholeInv, Live
<1>0. NoGroup \notin Groups /\ \A k \in Codes : groups[k] \in Groups \union {NoGroup}
  BY DEF NoGroup, Groups, WholeTypes
<1>a. /\ \A d \in Clients : \A x \in Codes :
            groups[x] # NoGroup /\ client[d].group = groups[x] => client[d].codes = {x}
      /\ \A d \in Clients : \A h \in Groups :
            (client[d].group = h => sampler[h] # "none") /\ (d \in members[h] => client[d].group = h)
  BY DEF ClientsJoined
<1>1. CASE UNCHANGED hubVars
  <2>1. UNCHANGED <<groups, members, sampler, client, slot, entries, open>>
    BY <1>1 DEF hubVars, wholeVars, realVars, hubState, nativeState
  <2> QED BY <2>1 DEF WholeTypes, GroupsRun, ClientsJoined, WaitsOnLive, RealIdle
\* What only moves a client on and empties its slot.
<1>2. ASSUME NEW c \in Clients, UNCHANGED wholeVars, UNCHANGED realVars,
             client[c].at \in {"in", "leaving"},
             \E x \in {client[c].at, "leaving", "gone"} : client' = [client EXCEPT ![c].at = x],
             slot' \in [Clients -> {"empty", "data", "unavailable"}],
             \A d \in Clients : d # c => slot'[d] = slot[d],
             client'[c].at = "in" => client[c].at = "in" /\ slot[c] # "unavailable"
      PROVE  WholeInv'
  <2>1. PICK x \in {client[c].at, "leaving", "gone"} : client' = [client EXCEPT ![c].at = x]
    BY <1>2
  <2>2. client[c] \in ClientType
    BY DEF WholeTypes
  <2>3. /\ client'[c].at = x /\ client'[c].group = client[c].group
        /\ client'[c].codes = client[c].codes /\ client' \in [Clients -> ClientType]
        /\ \A d \in Clients : d # c => client'[d] = client[d]
    BY <1>2, <2>1, <2>2 DEF WholeTypes, ClientType
  <2>4. WholeTypes' /\ GroupsRun' /\ RealIdle'
    BY <1>2, <2>3 DEF WholeTypes, GroupsRun, RealIdle, wholeVars, realVars, hubState, nativeState
  <2>5. ClientsJoined'
    BY <1>2, <2>3 DEF ClientsJoined, wholeVars
  <2>6. WaitsOnLive'
    BY <1>2, <2>3 DEF WaitsOnLive, wholeVars
  <2> QED BY <2>4, <2>5, <2>6
<1>3. ASSUME NEW c \in Clients, Send(c) PROVE WholeInv'
  <2>1. /\ client[c].at = "in" /\ slot' = [slot EXCEPT ![c] = "empty"]
        /\ client' = IF slot[c] = "unavailable" THEN [client EXCEPT ![c].at = "leaving"] ELSE client
        /\ UNCHANGED wholeVars /\ UNCHANGED realVars
    BY <1>3 DEF Send
  <2>2. client[c] \in ClientType /\ client \in [Clients -> ClientType]
    BY DEF WholeTypes
  <2>3. client = [client EXCEPT ![c].at = client[c].at]
    BY <2>2 DEF ClientType
  <2>4. CASE slot[c] = "unavailable"
    BY <1>2, <2>1, <2>2, <2>4 DEF WholeTypes, ClientType
  <2>5. CASE slot[c] # "unavailable"
    BY <1>2, <2>1, <2>3, <2>5 DEF WholeTypes
  <2> QED BY <2>4, <2>5
<1>4. ASSUME NEW c \in Clients, PeerLeaves(c) PROVE WholeInv'
  <2>1. client[c] \in ClientType /\ client[c].at = "in" /\ client' = [client EXCEPT ![c].at = "leaving"]
    BY <1>4 DEF WholeTypes, PeerLeaves
  <2>2. client'[c].at = "leaving"
    BY <2>1 DEF WholeTypes, ClientType
  <2> QED BY <1>2, <1>4, <2>1, <2>2 DEF PeerLeaves, WholeTypes
<1>5. ASSUME NEW c \in Clients, NEW k \in Codes, SubscribeWhole(c, k) PROVE WholeInv'
  <2> DEFINE g == IF groups[k] # NoGroup THEN groups[k]
                  ELSE CHOOSE i \in 1..MaxGroups : sampler[i] = "none"
             new == [at |-> "in", group |-> g, codes |-> {k}]
  <2>1. /\ client[c].at = "new"
        /\ groups[k] = NoGroup => \E i \in Groups : sampler[i] = "none"
        /\ groups' = [groups EXCEPT ![k] = g]
        /\ sampler' = IF groups[k] = NoGroup THEN [sampler EXCEPT ![g] = "polling"] ELSE sampler
        /\ members' = [members EXCEPT ![g] = members[g] \union {c}]
        /\ client' = [client EXCEPT ![c] = new]
        /\ UNCHANGED <<slot, realVars>>
    BY <1>5 DEF SubscribeWhole, Groups
  <2>2. g \in Groups /\ (groups[k] = NoGroup => sampler[g] = "none")
    BY <1>0, <2>1 DEF Groups
  <2>3. groups[k] # NoGroup => g = groups[k] /\ sampler[g] \in Live
    BY DEF GroupsRun
  <2> HIDE DEF g
  <2>4. new \in ClientType /\ new.at = "in" /\ new.group = g /\ new.codes = {k}
    BY <2>2 DEF ClientType
  <2> HIDE DEF new
  <2>5. /\ groups'[k] = g /\ \A x \in Codes : x # k => groups'[x] = groups[x]
        /\ sampler'[g] \in Live /\ \A h \in Groups : h # g => sampler'[h] = sampler[h]
        /\ members'[g] = members[g] \union {c} /\ \A h \in Groups : h # g => members'[h] = members[h]
        /\ client'[c] = new /\ \A d \in Clients : d # c => client'[d] = client[d]
    BY <2>1, <2>2, <2>3 DEF WholeTypes
  <2>6. WholeTypes' /\ RealIdle'
    BY <2>1, <2>2, <2>4 DEF WholeTypes, RealIdle, realVars, hubState, nativeState
  <2>7. GroupsRun'
    BY <1>0, <2>2, <2>3, <2>5 DEF GroupsRun, WholeTypes
  <2>8. ClientsJoined'
    <3>1. \A d \in Clients : client'[d].at \in {"in", "leaving"} =>
            client'[d].group \in Groups /\ \E x \in Codes : client'[d].codes = {x}
      <4>1. \A d \in Clients : client[d].at \in {"in", "leaving"} =>
              client[d].group \in Groups /\ \E x \in Codes : client[d].codes = {x}
        BY DEF ClientsJoined
      <4> QED BY ONLY <2>2, <2>4, <2>5, <4>1, k \in Codes
    <3>2. \A d \in Clients : \A h \in Groups :
            /\ client'[d].group = h => sampler'[h] # "none"
            /\ d \in members'[h] => client'[d].group = h
      <4>1. \A h \in Groups : c \notin members[h]
        BY <1>0, <2>1 DEF ClientsJoined
      <4>2. \A h \in Groups : sampler[h] # "none" => sampler'[h] # "none"
        BY <2>2, <2>5
      <4>3. \A d \in Clients : \A h \in Groups :
              d \in members'[h] <=> d \in members[h] \/ (d = c /\ h = g)
        BY <2>2, <2>5
      <4>4. \A d \in Clients : client'[d].group = IF d = c THEN g ELSE client[d].group
        BY <2>4, <2>5
      <4>5. sampler'[g] # "none"
        BY <2>5
      <4> QED BY <2>2, <4>1, <4>2, <4>3, <4>4, <4>5 DEF ClientsJoined
    <3>3. ASSUME NEW d \in Clients, NEW x \in Codes, groups'[x] # NoGroup,
                 client'[d].group = groups'[x]
          PROVE  client'[d].codes = {x}
      <4>1. CASE d = c /\ x = k
        BY <2>4, <2>5, <4>1
      <4>2. CASE d = c /\ x # k
        BY <2>2, <2>3, <2>4, <2>5, <3>3, <4>2 DEF GroupsRun
      <4>3. CASE d # c /\ x = k
        BY <2>2, <2>3, <2>5, <3>3, <4>3 DEF ClientsJoined
      <4>4. CASE d # c /\ x # k
        <5>1. groups'[x] = groups[x] /\ client'[d] = client[d]
          BY <2>5, <4>4
        <5> QED BY ONLY <1>a, <3>3, <5>1, ZenonT(30)
      <4> QED BY <4>1, <4>2, <4>3, <4>4
    <3>4. \A d \in Clients : client'[d].at = "new" => client'[d].group = NoGroup
      BY <2>4, <2>5 DEF ClientsJoined
    <3> QED BY <3>1, <3>2, <3>3, <3>4 DEF ClientsJoined
  <2>9. WaitsOnLive'
    BY <1>0, <2>1, <2>2, <2>3, <2>4, <2>5 DEF WaitsOnLive, ClientsJoined, WholeTypes
  <2> QED BY <2>6, <2>7, <2>8, <2>9
<1>6. ASSUME NEW g \in Groups, PollsAgain(g) PROVE WholeInv'
  BY <1>6 DEF PollsAgain, realVars, hubState, nativeState, WholeTypes, GroupsRun, ClientsJoined,
     WaitsOnLive, RealIdle
<1>7. ASSUME NEW g \in Groups, PollSucceeds(g) PROVE WholeInv'
  <2>1. /\ sampler[g] = "polling" /\ sampler' = [sampler EXCEPT ![g] = "sleeping"]
        /\ slot' = Fill(members[g], "data") /\ UNCHANGED <<groups, members, client, realVars>>
    BY <1>7 DEF PollSucceeds
  <2>2. WholeTypes' /\ RealIdle'
    BY <2>1 DEF WholeTypes, RealIdle, realVars, hubState, nativeState, Fill
  <2>3. GroupsRun' /\ ClientsJoined'
    <3>1. \A h \in Groups : /\ sampler'[h] \in Live <=> sampler[h] \in Live
                            /\ sampler'[h] = "none" <=> sampler[h] = "none"
      BY <2>1 DEF WholeTypes
    <3>2. GroupsRun'
      BY <1>0, <2>1, <3>1 DEF GroupsRun
    <3>3. ClientsJoined'
      BY <2>1, <3>1 DEF ClientsJoined
    <3> QED BY <3>2, <3>3
  <2>4. WaitsOnLive'
    <3>1. ASSUME NEW c \in Clients, client[c].at = "in", c \in members[g]
          PROVE  client[c].group = g /\ \A k \in client[c].codes : groups[k] = g
      <4>1. client[c].group = g
        BY <3>1 DEF ClientsJoined
      <4>2. PICK k \in Codes : groups[k] = g
        BY <2>1 DEF GroupsRun
      <4>3. client[c].codes = {k}
        BY <1>0, <4>1, <4>2 DEF ClientsJoined
      <4> QED BY <4>1, <4>2, <4>3
    <3>2. \A c \in Clients : c \notin members[g] => slot'[c] = slot[c]
      BY <2>1 DEF Fill
    <3> QED BY <2>1, <3>1, <3>2 DEF WaitsOnLive, WholeTypes
  <2> QED BY <2>2, <2>3, <2>4
<1>8. ASSUME NEW g \in Groups, PollFails(g) PROVE WholeInv'
  <2>1. /\ sampler[g] = "polling" /\ sampler' = [sampler EXCEPT ![g] = "dead"]
        /\ slot' = Fill(members[g], "unavailable")
        /\ groups' = [k \in Codes |-> IF groups[k] = g THEN NoGroup ELSE groups[k]]
        /\ UNCHANGED <<members, client, realVars>>
    BY <1>8 DEF PollFails
  <2>2. WholeTypes' /\ RealIdle'
    BY <2>1 DEF WholeTypes, RealIdle, realVars, hubState, nativeState, Fill
  <2>3. GroupsRun'
    BY <1>0, <2>1 DEF GroupsRun, WholeTypes
  <2>4. ClientsJoined'
    BY <1>0, <2>1 DEF ClientsJoined, WholeTypes
  <2>5. WaitsOnLive'
    <3>1. ASSUME NEW c \in Clients, client[c].at = "in", slot'[c] # "unavailable"
          PROVE  c \notin members[g] /\ slot'[c] = slot[c]
      BY <2>1, <3>1 DEF Fill
    <3>2. ASSUME NEW c \in Clients, client[c].at = "in", slot'[c] # "unavailable"
          PROVE  /\ client[c].group # g /\ sampler[client[c].group] \in Live
                 /\ client[c].group \in Groups /\ c \in members[client[c].group]
                 /\ \A k \in client[c].codes : groups[k] = client[c].group
      BY <3>1, <3>2 DEF WaitsOnLive, ClientsJoined
    <3>3. \A c \in Clients : \A k \in client[c].codes : k \in Codes
      BY DEF WholeTypes, ClientType
    <3> QED BY <2>1, <3>2, <3>3 DEF WaitsOnLive, WholeTypes
  <2> QED BY <2>2, <2>3, <2>4, <2>5
<1>9. CASE CloseWhole
  <2>1. /\ sampler' = [g \in Groups |-> IF \E k \in Codes : groups[k] = g THEN "dead" ELSE sampler[g]]
        /\ groups' = [k \in Codes |-> NoGroup]
        /\ client' = [c \in Clients |-> [client[c] EXCEPT !.at = "gone"]]
        /\ UNCHANGED <<members, slot, realVars>>
    BY <1>9 DEF CloseWhole, Groups
  <2>2. \A c \in Clients : /\ client'[c] \in ClientType /\ client'[c].at = "gone"
                           /\ client'[c].group = client[c].group
    BY <2>1 DEF WholeTypes, ClientType
  <2>3. WholeTypes' /\ RealIdle'
    BY <2>1, <2>2 DEF WholeTypes, RealIdle, realVars, hubState, nativeState
  <2>4. GroupsRun'
    BY <2>1 DEF GroupsRun, WholeTypes
  <2>5. ClientsJoined' /\ WaitsOnLive'
    BY <1>0, <2>1, <2>2 DEF ClientsJoined, WaitsOnLive, WholeTypes
  <2> QED BY <2>3, <2>4, <2>5
<1>10. ASSUME NEW c \in Clients, UnsubscribeWhole(c) PROVE WholeInv'
  <2> DEFINE k == CHOOSE x \in client[c].codes : TRUE
             g == groups[k]
             left == members[g] \ {c}
  <2>1. /\ client[c].at = "leaving" /\ client' = [client EXCEPT ![c].at = "gone"]
        /\ UNCHANGED <<slot, realVars>>
    BY <1>10 DEF UnsubscribeWhole
  <2>2. client[c].codes = {k} /\ k \in Codes
    BY <2>1 DEF ClientsJoined
  <2>3. /\ client'[c].at = "gone" /\ client'[c].group = client[c].group
        /\ client'[c].codes = client[c].codes /\ client' \in [Clients -> ClientType]
        /\ \A d \in Clients : d # c => client'[d] = client[d]
    <3>1. client[c] \in ClientType
      BY DEF WholeTypes
    <3> QED BY <2>1, <3>1 DEF WholeTypes, ClientType
  <2>4. CASE g = NoGroup
    <3>1. UNCHANGED wholeVars
      BY <1>10, <2>4 DEF UnsubscribeWhole
    <3> QED BY <1>2, <2>1, <2>3, <3>1 DEF WholeTypes
  <2>5. CASE g # NoGroup
    <3>1. /\ members' = [members EXCEPT ![g] = left]
          /\ groups' = IF left = {} THEN [groups EXCEPT ![k] = NoGroup] ELSE groups
          /\ sampler' = IF left = {} THEN [sampler EXCEPT ![g] = "dead"] ELSE sampler
      BY <1>10, <2>5 DEF UnsubscribeWhole
    <3>2. g \in Groups /\ groups[k] = g /\ left = members[g] \ {c} /\ left \subseteq members[g]
      BY <1>0, <2>2, <2>5
    <3> HIDE DEF k, g, left
    <3>3. WholeTypes' /\ RealIdle'
      BY <2>1, <2>3, <3>1, <3>2, <2>2 DEF WholeTypes, RealIdle, realVars, hubState, nativeState
    <3>4. GroupsRun'
      BY <1>0, <2>2, <3>1, <3>2 DEF GroupsRun, WholeTypes
    <3>5. ClientsJoined'
      <4>1. \A x \in Codes : groups'[x] \in {groups[x], NoGroup}
        BY <3>1 DEF WholeTypes
      <4>2. \A h \in Groups : /\ sampler'[h] \in {sampler[h], "dead"}
                              /\ members'[h] \subseteq members[h]
        BY <3>1, <3>2 DEF WholeTypes
      <4>3. \A d \in Clients : /\ client'[d].group = client[d].group
                               /\ client'[d].codes = client[d].codes
                               /\ client'[d].at = client[d].at \/ client'[d].at = "gone"
        BY <2>3
      <4>4. \A d \in Clients : client'[d].at \in {"in", "leaving"} =>
              client'[d].group \in Groups /\ \E x \in Codes : client'[d].codes = {x}
        BY <4>3 DEF ClientsJoined
      <4>5. \A d \in Clients : client'[d].at = "new" => client'[d].group = NoGroup
        BY <4>3 DEF ClientsJoined
      <4>6. \A d \in Clients : \A h \in Groups :
              /\ client'[d].group = h => sampler'[h] # "none"
              /\ d \in members'[h] => client'[d].group = h
        <5>1. ASSUME NEW d \in Clients, NEW h \in Groups
              PROVE  /\ client'[d].group = h => sampler'[h] # "none"
                     /\ d \in members'[h] => client'[d].group = h
          <6>1. sampler[h] # "none" => sampler'[h] # "none"
            BY <4>2
          <6>2. d \in members'[h] => d \in members[h]
            BY <4>2
          <6>3. client'[d].group = client[d].group
            BY <4>3
          <6> QED BY <1>a, <6>1, <6>2, <6>3
        <5> QED BY <5>1
      <4>7. \A d \in Clients : \A x \in Codes :
              groups'[x] # NoGroup /\ client'[d].group = groups'[x] => client'[d].codes = {x}
        <5>1. ASSUME NEW d \in Clients, NEW x \in Codes, groups'[x] # NoGroup,
                     client'[d].group = groups'[x]
              PROVE  client'[d].codes = {x}
          <6>1. groups[x] # NoGroup /\ client[d].group = groups[x] /\ client'[d].codes = client[d].codes
            BY <4>1, <4>3, <5>1
          <6> QED BY <1>a, <6>1, Zenon
        <5> QED BY <5>1
      <4> QED BY <4>4, <4>5, <4>6, <4>7 DEF ClientsJoined
    <3>6. WaitsOnLive'
      BY <1>0, <2>1, <2>2, <2>3, <3>1, <3>2 DEF WaitsOnLive, WholeTypes, ClientsJoined
    <3> QED BY <3>3, <3>4, <3>5, <3>6
  <2> QED BY <2>4, <2>5
<1> QED BY <1>1, <1>3, <1>4, <1>5, <1>6, <1>7, <1>8, <1>9, <1>10 DEF WholeNext, Groups

\* What the values are, on the side of the native subscriptions.
EntryType == [seq : Nat, life : Nat, subs : SUBSET Clients]

RealTypes ==
  /\ DOMAIN entries \subseteq Codes
  /\ \A k \in DOMAIN entries : entries[k] \in EntryType
  /\ client \in [Clients -> ClientType]
  /\ slot \in [Clients -> {"empty", "data", "unavailable"}]

NativeTypes ==
  /\ strategyRun \in [life : Nat, next : Nat]
  /\ DOMAIN open \subseteq Nat

\* Whoever is in an entry is connected or leaving, asked for it, and is in the
\* entries of all its codes; whoever was not told to reconnect is.
SubscribersKnown ==
  /\ \A c \in Clients : client[c].at = "new" => client[c].codes = {}
  /\ \A c \in Clients : client[c].group = NoGroup
  /\ \A k \in DOMAIN entries : entries[k].subs # {}
  /\ \A k \in DOMAIN entries : \A c \in entries[k].subs :
       k \in client[c].codes /\ \A x \in client[c].codes : x \in DOMAIN entries /\ c \in entries[x].subs
  /\ \A c \in Clients : client[c].at = "in" /\ slot[c] # "unavailable" =>
       \A k \in client[c].codes : k \in DOMAIN entries /\ c \in entries[k].subs

\* An entry of this life of the strategy has a number of its own, which is open
\* for its code unless it was released for another; what else is open is an orphan.
Own(k) == entries[k].life = strategyRun.life

EntriesOpen ==
  /\ \A k \in DOMAIN entries :
       /\ entries[k].life <= strategyRun.life
       /\ Own(k) =>
            /\ entries[k].seq < strategyRun.next
            /\ \/ entries[k].seq \in DOMAIN open /\ open[entries[k].seq] = k
               \/ entries[k].seq \in robbed
  /\ \A k, m \in DOMAIN entries : Own(k) /\ Own(m) /\ entries[k].seq = entries[m].seq => k = m
  /\ \A s \in DOMAIN open :
       /\ s < strategyRun.next
       /\ s \in orphans \/ \E k \in DOMAIN entries : Own(k) /\ entries[k].seq = s

WholeIdle ==
  /\ groups = [k \in Codes |-> NoGroup]
  /\ sampler = [g \in Groups |-> "none"]

EntryInv  == RealTypes /\ SubscribersKnown
NativeInv == NativeTypes /\ EntriesOpen
RealInv == EntryInv /\ NativeInv /\ WholeIdle

LEMMA RealStart == HubInit => RealInv
<1> SUFFICES ASSUME HubInit PROVE RealInv
  OBVIOUS
<1> USE HubAssumption DEF HubInit
<1>1. EntryInv
  <2>1. [at |-> "new", group |-> NoGroup, codes |-> {}] \in ClientType
    BY DEF ClientType
  <2>2. client \in [Clients -> ClientType] /\ slot \in [Clients -> {"empty", "data", "unavailable"}]
    BY <2>1
  <2> QED BY <2>2 DEF EntryInv, RealTypes, SubscribersKnown, Empty
<1>2. NativeInv /\ WholeIdle
  BY DEF NativeInv, NativeTypes, EntriesOpen, WholeIdle, Empty, Groups
<1> QED BY <1>1, <1>2 DEF RealInv

\* In a finite set of codes each has a rank of its own, below their number.
LEMMA Ranks ==
  ASSUME NEW F \in SUBSET Codes, NEW k \in F
  PROVE  /\ Cardinality(F) \in Nat /\ Cardinality({x \in F : x < k}) \in Nat
         /\ Cardinality({x \in F : x < k}) < Cardinality(F)
         /\ \A m \in F : m # k => Cardinality({x \in F : x < m}) # Cardinality({x \in F : x < k})
<1>1. \A m \in Codes : m \in Nat
  BY HubAssumption
<1>2. IsFiniteSet(F) /\ Cardinality(F) \in Nat
  BY HubAssumption, FS_Subset, FS_CardinalityType
<1>3. ASSUME NEW S \in SUBSET F, NEW T \in SUBSET S, NEW m \in S, m \notin T
      PROVE  /\ Cardinality(T) \in Nat /\ Cardinality(S) \in Nat /\ Cardinality(T) < Cardinality(S)
  <2>1. IsFiniteSet(S)
    BY <1>2, FS_Subset
  <2>2. IsFiniteSet(T) /\ Cardinality(T) <= Cardinality(S) /\ Cardinality(T) # Cardinality(S)
    BY <1>3, <2>1, FS_Subset
  <2> QED BY <2>1, <2>2, FS_CardinalityType
<1>4. ASSUME NEW i \in F, NEW j \in F, i < j
      PROVE  Cardinality({x \in F : x < i}) < Cardinality({x \in F : x < j})
  <2> DEFINE S == {x \in F : x < j}
             T == {x \in F : x < i}
  <2>1. S \in SUBSET F /\ T \in SUBSET S /\ i \in S /\ i \notin T
    BY <1>1, <1>4
  <2> QED BY <1>3, <2>1
<1>5. Cardinality({x \in F : x < k}) < Cardinality(F) /\ Cardinality({x \in F : x < k}) \in Nat
  <2> DEFINE T == {x \in F : x < k}
  <2>1. F \in SUBSET F /\ T \in SUBSET F /\ k \notin T
    BY <1>1
  <2> QED BY <1>3, <2>1
<1>6. ASSUME NEW m \in F, m # k
      PROVE  Cardinality({x \in F : x < m}) # Cardinality({x \in F : x < k})
  <2>1. /\ m \in Nat /\ k \in Nat /\ Cardinality({x \in F : x < m}) \in Nat
    <3> DEFINE T == {x \in F : x < m}
    <3>1. F \in SUBSET F /\ T \in SUBSET F /\ m \notin T
      BY <1>1
    <3>2. Cardinality(T) \in Nat
      BY <1>3, <3>1
    <3> QED BY <1>1, <3>2
  <2>2. m < k \/ k < m
    BY <1>6, <2>1
  <2> HIDE <1>6
  <2>3. CASE m < k
    BY <1>4, <1>5, <2>1, <2>3
  <2>4. CASE k < m
    BY <1>4, <1>5, <2>1, <2>4
  <2> QED BY <2>2, <2>3, <2>4
<1> QED BY <1>2, <1>5, <1>6

\* The numbers the terminal gives are new and distinct.
LEMMA Opening ==
  ASSUME NativeInv, NEW ks \in SUBSET Codes
  PROVE  /\ strategyRun.next + Cardinality(ks) \in Nat
         /\ strategyRun.next <= strategyRun.next + Cardinality(ks)
         /\ \A k \in ks : /\ NewSeq(ks, k) \in Nat /\ strategyRun.next <= NewSeq(ks, k)
                          /\ NewSeq(ks, k) < strategyRun.next + Cardinality(ks)
                          /\ NewSeq(ks, k) \notin DOMAIN open
                          /\ NewSeq(ks, k) \in DOMAIN Opened(ks) /\ Opened(ks)[NewSeq(ks, k)] = k
         /\ \A k, m \in ks : NewSeq(ks, k) = NewSeq(ks, m) => k = m
         /\ \A s \in DOMAIN open : s \in DOMAIN Opened(ks) /\ Opened(ks)[s] = open[s]
         /\ \A s \in DOMAIN Opened(ks) : s \in DOMAIN open \/ \E k \in ks : s = NewSeq(ks, k)
<1> USE DEF NativeInv
<1> DEFINE Rank(k) == Cardinality({x \in ks : x < k})
<1>1. IsFiniteSet(ks) /\ Cardinality(ks) \in Nat /\ strategyRun.next \in Nat
  BY HubAssumption, FS_Subset, FS_CardinalityType DEF NativeTypes
<1>2. /\ \A k \in ks : Rank(k) \in Nat /\ Rank(k) < Cardinality(ks)
      /\ \A k, m \in ks : m # k => Rank(m) # Rank(k)
  BY Ranks
<1>3. \A k \in ks : NewSeq(ks, k) = strategyRun.next + Rank(k)
  BY DEF NewSeq
<1> HIDE DEF Rank
<1>4. /\ \A k \in ks : /\ NewSeq(ks, k) \in Nat /\ strategyRun.next <= NewSeq(ks, k)
                       /\ NewSeq(ks, k) < strategyRun.next + Cardinality(ks)
      /\ \A k, m \in ks : NewSeq(ks, k) = NewSeq(ks, m) => k = m
  <2>1. ASSUME NEW k \in ks
        PROVE  /\ NewSeq(ks, k) \in Nat /\ strategyRun.next <= NewSeq(ks, k)
               /\ NewSeq(ks, k) < strategyRun.next + Cardinality(ks)
    <3>1. Rank(k) \in Nat /\ Rank(k) < Cardinality(ks)
      BY <1>2
    <3> QED BY <1>1, <1>3, <3>1
  <2>2. ASSUME NEW k \in ks, NEW m \in ks, NewSeq(ks, k) = NewSeq(ks, m) PROVE k = m
    <3>1. Rank(k) \in Nat /\ Rank(m) \in Nat /\ (m # k => Rank(m) # Rank(k))
      BY <1>2
    <3>2. strategyRun.next + Rank(k) = strategyRun.next + Rank(m)
      BY <1>3, <2>2
    <3> QED BY <1>1, <3>1, <3>2
  <2> QED BY <2>1, <2>2
<1>5. \A k \in ks : NewSeq(ks, k) \notin DOMAIN open
  <2>1. \A s \in DOMAIN open : s \in Nat /\ s < strategyRun.next
    BY DEF NativeTypes, EntriesOpen
  <2> QED BY <1>1, <1>4, <2>1
<1>6. ASSUME NEW k \in ks PROVE (CHOOSE m \in ks : NewSeq(ks, m) = NewSeq(ks, k)) = k
  BY <1>4
<1>7. /\ DOMAIN Opened(ks) = DOMAIN open \cup {NewSeq(ks, k) : k \in ks}
      /\ \A s \in DOMAIN open : Opened(ks)[s] = open[s]
      /\ \A k \in ks : Opened(ks)[NewSeq(ks, k)] = k
  BY <1>5, <1>6 DEF Opened
<1> QED BY <1>1, <1>4, <1>5, <1>7

\* However the releases of the entries that go turn out.
LEMMA Unsubscribing ==
  ASSUME NativeInv, NEW gone \in SUBSET DOMAIN entries, Unsubscribe(Handles(gone)),
         DOMAIN entries' = DOMAIN entries \ gone,
         \A k \in DOMAIN entries' : entries'[k].seq = entries[k].seq /\ entries'[k].life = entries[k].life
  PROVE  NativeInv'
<1> USE DEF NativeInv
<1> DEFINE hs == Handles(gone)
           own == {h \in hs : h.life = strategyRun.life}
<1>1. PICK done \in Reaches(hs) :
        /\ open' = Without(open, SeqsOf(done))
        /\ orphans' = (orphans \cup SeqsOf(own)) \ SeqsOf(done)
        /\ robbed' = robbed \cup IF runtime.up THEN SeqsOf(hs \ own) \cap DOMAIN open ELSE {}
        /\ strategyRun' = strategyRun
  BY DEF Unsubscribe, Unsubscribed
<1>2. done \subseteq hs /\ (~runtime.up => done = {})
  BY <1>1 DEF Reaches
<1>3. DOMAIN open' = DOMAIN open \ SeqsOf(done) /\ \A s \in DOMAIN open' : open'[s] = open[s]
  BY <1>1 DEF Without
<1>4. \A k \in gone : Handle(entries[k]) \in hs
  BY DEF Handles
<1>5. \A h \in hs : \E k \in gone : h.seq = entries[k].seq /\ h.life = entries[k].life
  BY DEF Handles, Handle
<1> HIDE DEF hs
<1>6. ASSUME NEW k \in DOMAIN entries', Own(k), entries[k].seq \in SeqsOf(done)
      PROVE  entries[k].seq \in robbed'
  <2>1. PICK h \in done : h.seq = entries[k].seq
    BY <1>6 DEF SeqsOf
  <2>2. PICK m \in gone : h.seq = entries[m].seq /\ h.life = entries[m].life
    BY <1>2, <1>5
  <2>3. h.life # strategyRun.life
    <3>1. ASSUME h.life = strategyRun.life PROVE FALSE
      <4>1. k \in DOMAIN entries /\ m \in DOMAIN entries /\ Own(m) /\ entries[m].seq = entries[k].seq
        BY <2>1, <2>2, <3>1 DEF Own
      <4>2. k = m
        BY <1>6, <4>1 DEF EntriesOpen
      <4> QED BY <2>2, <4>2
    <3> QED BY <3>1
  <2>4. entries[k].seq \in DOMAIN open \/ entries[k].seq \in robbed
    BY <1>6 DEF EntriesOpen
  <2>5. runtime.up /\ h \in hs \ own
    BY <1>2, <2>3
  <2>6. entries[k].seq \in SeqsOf(hs \ own)
    BY <2>1, <2>5 DEF SeqsOf
  <2> QED BY <1>1, <2>4, <2>5, <2>6
<1>7. \A k \in DOMAIN entries' : Own(k)' <=> Own(k)
  BY <1>1 DEF Own
<1>8. \A k \in DOMAIN entries' :
        /\ entries'[k].life <= strategyRun'.life
        /\ Own(k)' =>
             /\ entries'[k].seq < strategyRun'.next
             /\ \/ entries'[k].seq \in DOMAIN open' /\ open'[entries'[k].seq] = k
                \/ entries'[k].seq \in robbed'
  <2>1. ASSUME NEW k \in DOMAIN entries', Own(k)
        PROVE  (entries[k].seq \in DOMAIN open' /\ open'[entries[k].seq] = k) \/ entries[k].seq \in robbed'
    <3>1. (entries[k].seq \in DOMAIN open /\ open[entries[k].seq] = k) \/ entries[k].seq \in robbed
      BY <2>1 DEF EntriesOpen
    <3>2. CASE entries[k].seq \in robbed
      BY <1>1, <3>2
    <3>3. CASE entries[k].seq \in SeqsOf(done)
      BY <1>6, <2>1, <3>3
    <3>4. CASE entries[k].seq \notin robbed /\ entries[k].seq \notin SeqsOf(done)
      BY <1>3, <3>1, <3>4
    <3> QED BY <3>2, <3>3, <3>4
  <2> QED BY <1>1, <1>7, <2>1 DEF EntriesOpen
<1>9. \A k, m \in DOMAIN entries' : Own(k)' /\ Own(m)' /\ entries'[k].seq = entries'[m].seq => k = m
  BY <1>7 DEF EntriesOpen
<1>10. ASSUME NEW s \in DOMAIN open'
       PROVE  /\ s < strategyRun'.next
              /\ s \in orphans' \/ \E k \in DOMAIN entries' : Own(k)' /\ entries'[k].seq = s
  <2>1. s \in DOMAIN open /\ s \notin SeqsOf(done)
    BY <1>3
  <2>2. s < strategyRun.next /\ (s \in orphans \/ \E k \in DOMAIN entries : Own(k) /\ entries[k].seq = s)
    BY <2>1 DEF EntriesOpen
  <2>3. CASE s \in orphans
    BY <1>1, <2>1, <2>2, <2>3
  <2>4. ASSUME NEW k \in DOMAIN entries, Own(k), entries[k].seq = s
        PROVE  s \in orphans' \/ \E m \in DOMAIN entries' : Own(m)' /\ entries'[m].seq = s
    <3>1. CASE k \in gone
      <4>1. Handle(entries[k]) \in own /\ Handle(entries[k]).seq = s
        BY <1>4, <2>4, <3>1 DEF Own, Handle
      <4>2. s \in SeqsOf(own)
        BY <4>1 DEF SeqsOf
      <4> QED BY <1>1, <2>1, <4>2
    <3>2. CASE k \notin gone
      BY <1>7, <2>4, <3>2
    <3> QED BY <3>1, <3>2
  <2> QED BY <1>1, <2>2, <2>3, <2>4
<1>11. NativeTypes'
  BY <1>1, <1>3 DEF NativeTypes
<1> QED BY <1>8, <1>9, <1>10, <1>11 DEF EntriesOpen

\* The hub without its entries: their clients were told.  A client may be moved
\* to its end at the same time.
LEMMA Clearing ==
  ASSUME RealInv, ClearEntries, UNCHANGED wholeVars, client' \in [Clients -> ClientType],
         \A d \in Clients : /\ client'[d].codes = client[d].codes /\ client'[d].group = client[d].group
                            /\ client'[d].at \in {client[d].at, "gone"}
  PROVE  RealInv'
<1> USE DEF RealInv, EntryInv
<1>1. /\ entries' = Empty /\ slot' = Fill(Subs, "unavailable")
      /\ Unsubscribe(Handles(DOMAIN entries))
  BY DEF ClearEntries
<1>2. DOMAIN entries' = {}
  BY <1>1 DEF Empty
<1>3. NativeInv'
  <2>1. DOMAIN entries \in SUBSET DOMAIN entries
    OBVIOUS
  <2> QED BY <1>1, <1>2, <2>1, Unsubscribing
<1>4. ASSUME NEW c \in Clients, client'[c].at = "in", slot'[c] # "unavailable",
             NEW k \in client'[c].codes
      PROVE  FALSE
  <2>1. c \notin Subs /\ slot[c] # "unavailable" /\ client[c].at = "in" /\ k \in client[c].codes
    BY <1>1, <1>4 DEF Fill
  <2>2. k \in DOMAIN entries /\ c \in entries[k].subs
    BY <2>1 DEF SubscribersKnown
  <2> QED BY <2>1, <2>2 DEF Subs
<1>5. slot' \in [Clients -> {"empty", "data", "unavailable"}]
  BY <1>1 DEF Fill, RealTypes
<1>6. RealTypes' /\ SubscribersKnown'
  BY <1>2, <1>4, <1>5 DEF RealTypes, SubscribersKnown
<1> QED BY <1>3, <1>6 DEF WholeIdle, wholeVars

LEMMA SubscribeRealKeeps ==
  ASSUME RealInv, NEW c \in Clients, NEW ks \in SUBSET Codes, ks # {}, SubscribeReal(c, ks)
  PROVE  RealInv'
<1> USE DEF RealInv, EntryInv
<1> DEFINE fresh == ks \ DOMAIN entries
           SeqNo(k) == NewSeq(fresh, k)
           next == strategyRun.next + Cardinality(fresh)
           new == [at |-> "in", group |-> NoGroup, codes |-> ks]
<1>1. /\ client[c].at = "new"
      /\ entries' = [k \in DOMAIN entries \cup ks |->
             IF k \in fresh THEN [seq |-> SeqNo(k), life |-> strategyRun.life, subs |-> {c}]
             ELSE [entries[k] EXCEPT !.subs = IF k \in ks THEN @ \cup {c} ELSE @]]
      /\ open' = Opened(fresh)
      /\ strategyRun' = [strategyRun EXCEPT !.next = next]
      /\ client' = [client EXCEPT ![c] = new]
      /\ UNCHANGED <<wholeVars, slot, orphans, robbed>>
  BY DEF SubscribeReal
<1>2. /\ fresh \in SUBSET Codes /\ next \in Nat /\ strategyRun.next <= next
      /\ \A k \in fresh : /\ SeqNo(k) \in Nat /\ strategyRun.next <= SeqNo(k) /\ SeqNo(k) < next
                          /\ SeqNo(k) \notin DOMAIN open
                          /\ SeqNo(k) \in DOMAIN open' /\ open'[SeqNo(k)] = k
      /\ \A k, m \in fresh : SeqNo(k) = SeqNo(m) => k = m
      /\ \A s \in DOMAIN open : s \in DOMAIN open' /\ open'[s] = open[s]
      /\ \A s \in DOMAIN open' : s \in DOMAIN open \/ \E k \in fresh : s = SeqNo(k)
  BY <1>1, Opening
<1>3. /\ strategyRun.life \in Nat /\ strategyRun.next \in Nat
      /\ strategyRun' \in [life : Nat, next : Nat]
      /\ strategyRun'.next = next /\ strategyRun'.life = strategyRun.life
  BY <1>1, <1>2 DEF NativeInv, NativeTypes
<1>4. new \in ClientType /\ new.at = "in" /\ new.group = NoGroup /\ new.codes = ks
  BY DEF ClientType
<1> HIDE DEF SeqNo, next, new
<1>5. /\ client'[c] = new /\ \A d \in Clients : d # c => client'[d] = client[d]
      /\ client' \in [Clients -> ClientType]
  BY <1>1, <1>4 DEF RealTypes
<1>6. DOMAIN entries \subseteq Codes /\ \A k \in DOMAIN entries : entries[k] \in EntryType
  BY DEF RealTypes
<1>7. /\ DOMAIN entries' = DOMAIN entries \union ks
      /\ DOMAIN entries \union ks = DOMAIN entries \union fresh
      /\ \A k \in fresh : entries'[k] = [seq |-> SeqNo(k), life |-> strategyRun.life, subs |-> {c}]
      /\ \A k \in DOMAIN entries :
           entries'[k] = [entries[k] EXCEPT !.subs = IF k \in ks THEN @ \cup {c} ELSE @]
      /\ \A k \in DOMAIN entries : k \notin fresh
  BY <1>1
<1>8. \A k \in fresh : /\ entries'[k].seq = SeqNo(k) /\ entries'[k].life = strategyRun.life
                       /\ entries'[k].subs = {c} /\ entries'[k] \in EntryType
  BY <1>2, <1>3, <1>7 DEF EntryType
<1>9. \A k \in DOMAIN entries :
        /\ entries'[k].seq = entries[k].seq /\ entries'[k].life = entries[k].life
        /\ entries'[k].subs = entries[k].subs \union (IF k \in ks THEN {c} ELSE {})
        /\ entries'[k] \in EntryType
  BY <1>6, <1>7 DEF EntryType
<1>10. RealTypes'
  <2>1. DOMAIN entries' \subseteq Codes /\ \A k \in DOMAIN entries' : entries'[k] \in EntryType
    BY <1>6, <1>7, <1>8, <1>9
  <2> QED BY <1>1, <1>5, <2>1 DEF RealTypes
<1>11. SubscribersKnown'
  <2>1. \A k \in DOMAIN entries : c \notin entries[k].subs
    <3>1. client[c].codes = {}
      BY <1>1 DEF SubscribersKnown
    <3> QED BY <3>1 DEF SubscribersKnown
  <2>2. \A k \in DOMAIN entries' : k \in ks <=> c \in entries'[k].subs
    <3>1. \A k \in DOMAIN entries : k \in ks <=> c \in entries'[k].subs
      BY <1>9, <2>1
    <3>2. \A k \in fresh : k \in ks /\ c \in entries'[k].subs
      BY <1>8
    <3> HIDE DEF fresh
    <3> QED BY <1>7, <3>1, <3>2
  <2> HIDE DEF fresh
  <2>3. \A d \in Clients : d # c => \A k \in DOMAIN entries' :
          d \in entries'[k].subs <=> k \in DOMAIN entries /\ d \in entries[k].subs
    BY <1>7, <1>8, <1>9
  <2>4. \A k \in ks : k \in DOMAIN entries'
    BY <1>7
  <2>5. \A d \in Clients : client'[d].at = "new" => client'[d].codes = {}
    BY <1>4, <1>5 DEF SubscribersKnown
  <2>6. \A d \in Clients : client'[d].group = NoGroup
    BY <1>4, <1>5 DEF SubscribersKnown
  <2>7. \A k \in DOMAIN entries' : entries'[k].subs # {}
    BY <1>7, <1>8, <1>9 DEF SubscribersKnown
  <2>8. ASSUME NEW k \in DOMAIN entries', NEW d \in entries'[k].subs
        PROVE  k \in client'[d].codes /\ \A x \in client'[d].codes :
                 x \in DOMAIN entries' /\ d \in entries'[x].subs
    <3>1. CASE d = c
      BY <1>4, <1>5, <2>2, <2>4, <2>8, <3>1
    <3>2. CASE d # c
      <4>1. d \in Clients
        BY <1>10 DEF RealTypes, EntryType
      <4>2. k \in DOMAIN entries /\ d \in entries[k].subs
        BY <2>3, <2>8, <3>2, <4>1
      <4>3. k \in client[d].codes /\ \A x \in client[d].codes : x \in DOMAIN entries /\ d \in entries[x].subs
        BY <4>2 DEF SubscribersKnown
      <4> QED BY <1>5, <1>7, <2>3, <3>2, <4>1, <4>3
    <3> QED BY <3>1, <3>2
  <2>9. ASSUME NEW d \in Clients, client'[d].at = "in", slot'[d] # "unavailable",
               NEW k \in client'[d].codes
        PROVE  k \in DOMAIN entries' /\ d \in entries'[k].subs
    <3>1. CASE d = c
      BY <1>4, <1>5, <2>2, <2>4, <2>9, <3>1
    <3>2. CASE d # c
      <4>1. client[d].at = "in" /\ slot[d] # "unavailable" /\ k \in client[d].codes
        BY <1>1, <1>5, <2>9, <3>2
      <4>2. k \in DOMAIN entries /\ d \in entries[k].subs
        BY <4>1 DEF SubscribersKnown
      <4> QED BY <1>7, <2>3, <3>2, <4>2
    <3> QED BY <3>1, <3>2
  <2> QED BY <2>5, <2>6, <2>7, <2>8, <2>9 DEF SubscribersKnown
<1>12. NativeInv'
  <2> HIDE DEF fresh
  <2>0. EntriesOpen /\ robbed' = robbed /\ orphans' = orphans
    BY <1>1 DEF NativeInv
  <2>1. DOMAIN open' \subseteq Nat
    BY <1>2 DEF NativeInv, NativeTypes
  <2>2. /\ \A k \in DOMAIN entries : Own(k)' <=> Own(k)
        /\ \A k \in fresh : Own(k)'
    BY <1>3, <1>8, <1>9 DEF Own
  <2>3. ASSUME NEW k \in DOMAIN entries'
        PROVE  /\ entries'[k].life <= strategyRun'.life
               /\ Own(k)' =>
                    /\ entries'[k].seq < strategyRun'.next
                    /\ \/ entries'[k].seq \in DOMAIN open' /\ open'[entries'[k].seq] = k
                       \/ entries'[k].seq \in robbed'
    <3>1. CASE k \in DOMAIN entries
      <4>1. entries[k].seq \in Nat
        BY <1>6, <3>1 DEF EntryType
      <4> QED BY <1>2, <1>3, <1>9, <2>0, <2>2, <3>1, <4>1 DEF EntriesOpen
    <3>2. CASE k \in fresh
      BY <1>2, <1>3, <1>8, <3>2
    <3> QED BY <1>7, <3>1, <3>2
  <2>4. ASSUME NEW k \in DOMAIN entries', NEW m \in DOMAIN entries', Own(k)', Own(m)',
               entries'[k].seq = entries'[m].seq
        PROVE  k = m
    <3>1. ASSUME NEW i \in DOMAIN entries, NEW j \in fresh, Own(i)
          PROVE  entries'[i].seq # entries'[j].seq
      <4>1. entries[i].seq \in Nat /\ entries[i].seq < strategyRun.next
        BY <1>6, <2>0, <3>1 DEF EntryType, EntriesOpen
      <4> QED BY <1>2, <1>3, <1>8, <1>9, <4>1
    <3>2. CASE k \in DOMAIN entries /\ m \in DOMAIN entries
      BY <1>9, <2>0, <2>2, <2>4, <3>2 DEF EntriesOpen
    <3>3. CASE k \in fresh /\ m \in fresh
      BY <1>2, <1>8, <2>4, <3>3
    <3> QED BY <1>7, <2>2, <2>4, <3>1, <3>2, <3>3
  <2>5. ASSUME NEW s \in DOMAIN open'
        PROVE  /\ s < strategyRun'.next
               /\ s \in orphans' \/ \E k \in DOMAIN entries' : Own(k)' /\ entries'[k].seq = s
    <3>1. CASE s \in DOMAIN open
      <4>1. s \in Nat /\ s < strategyRun.next
        BY <2>0, <3>1 DEF EntriesOpen, NativeInv, NativeTypes
      <4>2. s \in orphans \/ \E k \in DOMAIN entries : Own(k) /\ entries[k].seq = s
        BY <2>0, <3>1 DEF EntriesOpen
      <4>3. s \in orphans' \/ \E k \in DOMAIN entries' : Own(k)' /\ entries'[k].seq = s
        BY <1>7, <1>9, <2>0, <2>2, <4>2
      <4> QED BY <1>2, <1>3, <4>1, <4>3
    <3>2. ASSUME NEW k \in fresh, s = SeqNo(k)
          PROVE  s < strategyRun'.next /\ \E m \in DOMAIN entries' : Own(m)' /\ entries'[m].seq = s
      BY <1>2, <1>3, <1>7, <1>8, <2>2, <3>2
    <3> QED BY <1>2, <3>1, <3>2
  <2> QED BY <1>3, <2>1, <2>3, <2>4, <2>5 DEF NativeInv, NativeTypes, EntriesOpen
<1>13. WholeIdle'
  BY <1>1 DEF WholeIdle, wholeVars
<1> QED BY <1>10, <1>11, <1>12, <1>13

\* A client that goes, with the entries as they are.
LEMMA Going ==
  ASSUME RealInv, NEW c \in Clients, client' = [client EXCEPT ![c].at = "gone"]
  PROVE  /\ client' \in [Clients -> ClientType] /\ client'[c].at = "gone"
         /\ \A d \in Clients : /\ client'[d].codes = client[d].codes /\ client'[d].group = client[d].group
                               /\ d # c => client'[d] = client[d]
<1>1. client[c] \in ClientType /\ client \in [Clients -> ClientType]
  BY DEF RealInv, EntryInv, RealTypes
<1> QED BY <1>1 DEF ClientType

LEMMA RefusedKeeps ==
  ASSUME RealInv, NEW c \in Clients, SubscribeRefused(c)
  PROVE  RealInv'
<1> USE DEF RealInv, EntryInv
<1>1. PICK left \in SUBSET (Codes \ DOMAIN entries) :
        /\ open' = Opened(left)
        /\ orphans' = orphans \cup {NewSeq(left, k) : k \in left}
        /\ strategyRun' = [strategyRun EXCEPT !.next = @ + Cardinality(left)]
  BY DEF SubscribeRefused
<1>2. /\ client' = [client EXCEPT ![c].at = "gone"]
      /\ UNCHANGED <<wholeVars, slot, entries, robbed>>
  BY DEF SubscribeRefused
<1>3. /\ client' \in [Clients -> ClientType] /\ client'[c].at = "gone"
      /\ \A d \in Clients : /\ client'[d].codes = client[d].codes /\ client'[d].group = client[d].group
                            /\ d # c => client'[d] = client[d]
  BY <1>2, Going
<1>4. RealTypes' /\ WholeIdle'
  BY <1>2, <1>3 DEF RealTypes, WholeIdle, wholeVars
<1>5. SubscribersKnown'
  <2>1. \A k \in DOMAIN entries : \A d \in entries[k].subs : d \in Clients
    BY DEF RealTypes, EntryType
  <2> QED BY <1>2, <1>3, <2>1 DEF SubscribersKnown
<1>6. NativeInv'
  <2> DEFINE next == strategyRun.next + Cardinality(left)
  <2>1. /\ next \in Nat /\ strategyRun.next <= next
        /\ \A k \in left : NewSeq(left, k) \in Nat /\ NewSeq(left, k) < next
        /\ \A s \in DOMAIN open : s \in DOMAIN open' /\ open'[s] = open[s]
        /\ \A s \in DOMAIN open' : s \in DOMAIN open \/ \E k \in left : s = NewSeq(left, k)
    BY <1>1, Opening
  <2>2. /\ strategyRun.next \in Nat /\ strategyRun' \in [life : Nat, next : Nat]
        /\ strategyRun'.next = next /\ strategyRun'.life = strategyRun.life
    BY <1>1, <2>1 DEF NativeInv, NativeTypes
  <2> HIDE DEF next
  <2>3. DOMAIN open' \subseteq Nat
    BY <2>1 DEF NativeInv, NativeTypes
  <2>4. \A k \in DOMAIN entries : entries[k].seq \in Nat /\ (Own(k)' <=> Own(k))
    BY <1>2, <2>2 DEF RealTypes, EntryType, Own
  <2>5. ASSUME NEW s \in DOMAIN open'
        PROVE  /\ s < strategyRun'.next
               /\ s \in orphans' \/ \E k \in DOMAIN entries' : Own(k)' /\ entries'[k].seq = s
    <3>1. CASE s \in DOMAIN open
      <4>1. s \in Nat /\ s < strategyRun.next
        BY <3>1 DEF EntriesOpen, NativeInv, NativeTypes
      <4>2. s \in orphans \/ \E k \in DOMAIN entries : Own(k) /\ entries[k].seq = s
        BY <3>1 DEF EntriesOpen, NativeInv
      <4> QED BY <1>1, <1>2, <2>1, <2>2, <2>4, <4>1, <4>2
    <3>2. ASSUME NEW k \in left, s = NewSeq(left, k)
          PROVE  s < strategyRun'.next /\ s \in orphans'
      BY <1>1, <2>1, <2>2, <3>2
    <3> QED BY <2>1, <3>1, <3>2
  <2>6. \A k \in DOMAIN entries' :
          /\ entries'[k].life <= strategyRun'.life
          /\ Own(k)' =>
               /\ entries'[k].seq < strategyRun'.next
               /\ \/ entries'[k].seq \in DOMAIN open' /\ open'[entries'[k].seq] = k
                  \/ entries'[k].seq \in robbed'
    BY <1>2, <2>1, <2>2, <2>4 DEF EntriesOpen, NativeInv
  <2>7. \A k, m \in DOMAIN entries' : Own(k)' /\ Own(m)' /\ entries'[k].seq = entries'[m].seq => k = m
    BY <1>2, <2>4 DEF EntriesOpen, NativeInv
  <2> QED BY <2>2, <2>3, <2>5, <2>6, <2>7 DEF NativeInv, NativeTypes, EntriesOpen
<1> QED BY <1>4, <1>5, <1>6

LEMMA ReleaseKeeps ==
  ASSUME RealInv, NEW c \in Clients, Release(c)
  PROVE  RealInv'
<1> USE DEF RealInv, EntryInv
<1> DEFINE mine == client[c].codes
           done == {k \in mine \cap DOMAIN entries : entries[k].subs \ {c} = {}}
<1>1. /\ client[c].at = "leaving"
      /\ entries' = [k \in DOMAIN entries \ done |->
                       IF k \in mine THEN [entries[k] EXCEPT !.subs = entries[k].subs \ {c}]
                       ELSE entries[k]]
      /\ Unsubscribe(Handles(done))
      /\ client' = [client EXCEPT ![c].at = "gone"]
      /\ UNCHANGED <<wholeVars, slot, runtime, active, stale>>
  BY DEF Release
<1>2. /\ client' \in [Clients -> ClientType] /\ client'[c].at = "gone"
      /\ \A d \in Clients : /\ client'[d].codes = client[d].codes /\ client'[d].group = client[d].group
                            /\ d # c => client'[d] = client[d]
  BY <1>1, Going
<1>3. \A k \in DOMAIN entries : entries[k] \in EntryType
  BY DEF RealTypes
<1>4. \A k \in DOMAIN entries : k \notin mine => c \notin entries[k].subs
  BY DEF SubscribersKnown
<1>5. /\ DOMAIN entries' = DOMAIN entries \ done
      /\ \A k \in DOMAIN entries' : /\ entries'[k].seq = entries[k].seq
                                    /\ entries'[k].life = entries[k].life
                                    /\ entries'[k].subs = entries[k].subs \ {c}
                                    /\ entries'[k] \in EntryType
  <2>1. DOMAIN entries' = DOMAIN entries \ done
    BY <1>1
  <2>2. ASSUME NEW k \in DOMAIN entries'
        PROVE  /\ entries'[k].seq = entries[k].seq /\ entries'[k].life = entries[k].life
               /\ entries'[k].subs = entries[k].subs \ {c}
               /\ entries'[k] \in EntryType
    <3>1. k \in DOMAIN entries /\ entries[k] \in EntryType
      BY <1>3, <2>1
    <3>2. CASE k \in mine
      <4>1. entries'[k] = [entries[k] EXCEPT !.subs = entries[k].subs \ {c}]
        BY <1>1, <2>1, <3>2
      <4> QED BY <3>1, <4>1 DEF EntryType
    <3>3. CASE k \notin mine
      <4>1. entries'[k] = entries[k] /\ c \notin entries[k].subs
        BY <1>1, <1>4, <2>1, <3>1, <3>3
      <4> QED BY <3>1, <4>1 DEF EntryType
    <3> QED BY <3>2, <3>3
  <2> QED BY <2>1, <2>2
<1>6. NativeInv'
  <2>1. done \in SUBSET DOMAIN entries
    OBVIOUS
  <2> QED BY <1>1, <1>5, <2>1, Unsubscribing
<1>7. \A k \in DOMAIN entries : k \in done <=> entries[k].subs \ {c} = {}
  <2>1. \A k \in DOMAIN entries : entries[k].subs # {}
    BY DEF SubscribersKnown
  <2> QED BY <1>4, <2>1
<1> HIDE DEF done, mine
<1>8. RealTypes'
  BY <1>1, <1>2, <1>5 DEF RealTypes
<1>9. SubscribersKnown'
  <2>1. \A k \in DOMAIN entries : \A d \in entries[k].subs : d \in Clients
    BY <1>3 DEF EntryType
  <2>2. \A k \in DOMAIN entries' : entries'[k].subs # {}
    BY <1>5, <1>7
  <2>3. \A d \in Clients : d # c => \A k \in DOMAIN entries :
          d \in entries[k].subs => k \in DOMAIN entries' /\ d \in entries'[k].subs
    BY <1>5, <1>7
  <2>4. ASSUME NEW k \in DOMAIN entries', NEW d \in entries'[k].subs
        PROVE  k \in client'[d].codes /\ \A x \in client'[d].codes :
                 x \in DOMAIN entries' /\ d \in entries'[x].subs
    <3>1. d # c /\ k \in DOMAIN entries /\ d \in entries[k].subs /\ d \in Clients
      BY <1>5, <2>1, <2>4
    <3>2. k \in client[d].codes /\ \A x \in client[d].codes :
            x \in DOMAIN entries /\ d \in entries[x].subs
      BY <3>1 DEF SubscribersKnown
    <3> QED BY <1>2, <2>3, <3>1, <3>2
  <2>5. ASSUME NEW d \in Clients, client'[d].at = "in", slot'[d] # "unavailable",
               NEW k \in client'[d].codes
        PROVE  k \in DOMAIN entries' /\ d \in entries'[k].subs
    <3>1. d # c /\ client[d].at = "in" /\ slot[d] # "unavailable" /\ k \in client[d].codes
      BY <1>1, <1>2, <2>5
    <3>2. k \in DOMAIN entries /\ d \in entries[k].subs
      BY <3>1 DEF SubscribersKnown
    <3> QED BY <2>3, <3>1, <3>2
  <2>6. \A d \in Clients : /\ client'[d].at = "new" => client'[d].codes = {}
                           /\ client'[d].group = NoGroup
    BY <1>2 DEF SubscribersKnown
  <2> QED BY <2>2, <2>4, <2>5, <2>6 DEF SubscribersKnown
<1>10. WholeIdle'
  BY <1>1 DEF WholeIdle, wholeVars
<1> QED BY <1>6, <1>8, <1>9, <1>10

LEMMA RealStep == RealInv /\ [RealNext]_hubVars => RealInv'
<1> SUFFICES ASSUME RealInv, [RealNext]_hubVars PROVE RealInv'
  OBVIOUS
<1> USE DEF RealInv, EntryInv
<1>1. CASE UNCHANGED hubVars
  BY <1>1 DEF hubVars, wholeVars, realVars, hubState, nativeState, RealTypes, SubscribersKnown,
     NativeInv, NativeTypes, EntriesOpen, Own, WholeIdle
\* What moves a client on, or fills or empties slots of those that are in the entries.
<1>2. ASSUME UNCHANGED <<wholeVars, realVars>>, client' \in [Clients -> ClientType],
             slot' \in [Clients -> {"empty", "data", "unavailable"}],
             \A d \in Clients :
               /\ client'[d].codes = client[d].codes /\ client'[d].group = client[d].group
               /\ client'[d].at # "new" \/ client[d].at = "new"
               /\ client'[d].at = "in" /\ slot'[d] # "unavailable" =>
                    \A k \in client[d].codes : k \in DOMAIN entries /\ d \in entries[k].subs
      PROVE  RealInv'
  <2>1. RealTypes' /\ NativeInv' /\ WholeIdle'
    BY <1>2 DEF wholeVars, realVars, hubState, nativeState, RealTypes, NativeInv, NativeTypes,
       EntriesOpen, Own, WholeIdle
  <2>2. entries' = entries /\ \A k \in DOMAIN entries : \A d \in entries[k].subs : d \in Clients
    BY <1>2 DEF realVars, hubState, RealTypes, EntryType
  <2>3. SubscribersKnown'
    BY <1>2, <2>2 DEF SubscribersKnown
  <2> QED BY <2>1, <2>3
<1>3. ASSUME NEW c \in Clients, Send(c) \/ PeerLeaves(c) PROVE RealInv'
  <2>1. /\ client[c].at = "in" /\ UNCHANGED <<wholeVars, realVars>>
        /\ client' = client \/ client' = [client EXCEPT ![c].at = "leaving"]
        /\ slot' \in [Clients -> {"empty", "data", "unavailable"}]
        /\ \A d \in Clients : d # c => slot'[d] = slot[d]
        /\ client' = client => slot[c] # "unavailable"
    <3>1. CASE Send(c)
      <4>1. slot' = [slot EXCEPT ![c] = "empty"] /\ slot \in [Clients -> {"empty", "data", "unavailable"}]
        BY <3>1 DEF Send, RealTypes
      <4>2. slot[c] = "unavailable" => client' # client
        BY <3>1 DEF Send, RealTypes, ClientType
      <4> QED BY <3>1, <4>1, <4>2 DEF Send
    <3>2. CASE PeerLeaves(c)
      <4>1. client'[c].at = "leaving"
        BY <3>2 DEF PeerLeaves, RealTypes, ClientType
      <4> QED BY <3>2, <4>1 DEF PeerLeaves, RealTypes
    <3> QED BY <1>3, <3>1, <3>2
  <2>2. /\ client' \in [Clients -> ClientType]
        /\ \A d \in Clients :
             /\ client'[d].codes = client[d].codes /\ client'[d].group = client[d].group
             /\ client'[d] = client[d] \/ (client'[d].at = "leaving" /\ d = c)
             /\ client' = client \/ d # c \/ client'[d].at = "leaving"
    <3>1. client[c] \in ClientType
      BY DEF RealTypes
    <3> QED BY <2>1, <3>1 DEF RealTypes, ClientType
  <2>3. ASSUME NEW d \in Clients
        PROVE  /\ client'[d].at # "new" \/ client[d].at = "new"
               /\ client'[d].at = "in" /\ slot'[d] # "unavailable" =>
                    \A k \in client[d].codes : k \in DOMAIN entries /\ d \in entries[k].subs
    BY <2>1, <2>2 DEF SubscribersKnown
  <2> QED BY <1>2, <2>1, <2>2, <2>3
<1>4. ASSUME NEW k \in Codes, QuoteArrives(k) PROVE RealInv'
  <2>1. /\ k \in DOMAIN entries /\ slot' = Fill(entries[k].subs, "data")
        /\ UNCHANGED <<wholeVars, client, realVars>>
    BY <1>4 DEF QuoteArrives
  <2>2. /\ slot' \in [Clients -> {"empty", "data", "unavailable"}]
        /\ \A d \in Clients : d \notin entries[k].subs => slot'[d] = slot[d]
    BY <2>1 DEF Fill, RealTypes
  <2>3. ASSUME NEW d \in Clients
        PROVE  client[d].at = "in" /\ slot'[d] # "unavailable" =>
                 \A x \in client[d].codes : x \in DOMAIN entries /\ d \in entries[x].subs
    <3>1. CASE d \in entries[k].subs
      BY <2>1, <3>1 DEF SubscribersKnown
    <3>2. CASE d \notin entries[k].subs
      BY <2>2, <3>2 DEF SubscribersKnown
    <3> QED BY <3>1, <3>2
  <2> QED BY <1>2, <2>1, <2>2, <2>3 DEF RealTypes
<1>5. CASE RuntimeLost \/ RuntimeBack
  <2>1. UNCHANGED <<wholeVars, client, slot, entries, nativeState>>
    BY <1>5 DEF RuntimeLost, RuntimeBack
  <2>2. RealTypes' /\ SubscribersKnown' /\ NativeInv' /\ WholeIdle'
    BY <2>1 DEF RealTypes, SubscribersKnown, NativeInv, NativeTypes, EntriesOpen, Own, nativeState,
       WholeIdle, wholeVars
  <2> QED BY <2>2
\* The entries are of a life that is over, and nothing is open.
<1>6. CASE TerminalForgets
  <2>1. /\ strategyRun' \in [life : Nat, next : Nat] /\ strategyRun'.life = strategyRun.life + 1
        /\ strategyRun.life \in Nat
        /\ DOMAIN open' = {}
        /\ UNCHANGED <<wholeVars, client, slot, entries>>
    BY <1>6 DEF TerminalForgets, hubState, NativeInv, NativeTypes, Empty
  <2>2. \A k \in DOMAIN entries :
          /\ entries[k].life \in Nat /\ entries[k].life <= strategyRun.life
          /\ entries'[k].life <= strategyRun'.life /\ ~Own(k)'
    BY <2>1 DEF RealTypes, EntryType, NativeInv, EntriesOpen, Own
  <2>3. NativeInv'
    BY <2>1, <2>2 DEF NativeInv, NativeTypes, EntriesOpen
  <2> QED BY <2>1, <2>3 DEF RealTypes, SubscribersKnown, WholeIdle, wholeVars
<1>7. CASE Invalidate \/ CloseReal
  <2>1. /\ ClearEntries /\ UNCHANGED wholeVars
        /\ client' = client \/ client' = [c \in Clients |-> [client[c] EXCEPT !.at = "gone"]]
    BY <1>7 DEF Invalidate, CloseReal
  <2>2. /\ client' \in [Clients -> ClientType]
        /\ \A d \in Clients : /\ client'[d].codes = client[d].codes /\ client'[d].group = client[d].group
                              /\ client'[d].at \in {client[d].at, "gone"}
    BY <2>1 DEF RealTypes, ClientType
  <2> QED BY <2>1, <2>2, Clearing
<1>8. ASSUME NEW c \in Clients, Release(c) \/ SubscribeRefused(c) PROVE RealInv'
  BY <1>8, ReleaseKeeps, RefusedKeeps
<1>9. ASSUME NEW c \in Clients, NEW ks \in (SUBSET Codes) \ {{}}, SubscribeReal(c, ks) PROVE RealInv'
  <2>1. ks \in SUBSET Codes /\ ks # {}
    OBVIOUS
  <2> QED BY <1>9, <2>1, SubscribeRealKeeps
<1>10. ASSUME NEW c \in Clients, SubscribeReplaced(c) PROVE RealInv'
  <2>1. /\ ClearEntries /\ UNCHANGED wholeVars
        /\ client' = client \/ client' = [client EXCEPT ![c].at = "gone"]
    <3>1. client \in [Clients -> ClientType]
      BY DEF RealTypes
    <3> QED BY <1>10, <3>1 DEF SubscribeReplaced, ClientType
  <2>2. /\ client' \in [Clients -> ClientType]
        /\ \A d \in Clients : /\ client'[d].codes = client[d].codes /\ client'[d].group = client[d].group
                              /\ client'[d].at \in {client[d].at, "gone"}
    <3>1. client' = [client EXCEPT ![c].at = "gone"] =>
            /\ client' \in [Clients -> ClientType]
            /\ \A d \in Clients : /\ client'[d].codes = client[d].codes
                                  /\ client'[d].group = client[d].group
                                  /\ client'[d].at \in {client[d].at, "gone"}
      BY Going DEF RealTypes
    <3> QED BY <2>1, <3>1 DEF RealTypes
  <2> QED BY <2>1, <2>2, Clearing
<1> QED BY <1>1, <1>3, <1>4, <1>5, <1>6, <1>7, <1>8, <1>9, <1>10 DEF RealNext

LEMMA WholeStreams == WholeInv => StreamsMatchClients
<1> SUFFICES ASSUME WholeInv PROVE StreamsMatchClients
  OBVIOUS
<1> USE HubAssumption DEF WholeInv
<1>1. SamplersMatchClients
  BY DEF SamplersMatchClients, WaitsOnLive, GroupsRun, Live, Groups
<1>2. \A c \in Clients : client[c].at = "in" => client[c].group # NoGroup
  BY DEF ClientsJoined, Groups, NoGroup
<1>3. NativeMatchesEntries
  BY <1>2 DEF NativeMatchesEntries, RealIdle, Empty
<1> QED BY <1>1, <1>3 DEF StreamsMatchClients

LEMMA RealStreams == RealInv => StreamsMatchClients
<1> SUFFICES ASSUME RealInv PROVE StreamsMatchClients
  OBVIOUS
<1> USE DEF RealInv, EntryInv, NativeInv
<1>1. SamplersMatchClients
  BY DEF SamplersMatchClients, SubscribersKnown, WholeIdle, Groups
<1>2. ASSUME NEW s \in DOMAIN open, s \notin orphans
      PROVE  s \in SeqsOf({h \in Handles(DOMAIN entries) : h.life = strategyRun.life})
  <2>1. PICK k \in DOMAIN entries : Own(k) /\ entries[k].seq = s
    BY <1>2 DEF EntriesOpen
  <2>2. /\ Handle(entries[k]) \in Handles(DOMAIN entries)
        /\ Handle(entries[k]).life = strategyRun.life /\ Handle(entries[k]).seq = s
    BY <2>1 DEF Handles, Handle, Own
  <2> QED BY <2>2 DEF SeqsOf
<1>3. NativeMatchesEntries
  BY <1>2 DEF NativeMatchesEntries, SubscribersKnown, EntriesOpen, Own
<1> QED BY <1>1, <1>3 DEF StreamsMatchClients

\* The two hubs share a client table; a behaviour exercises one of them.
HubInv == IF part = "realtime" THEN RealInv ELSE WholeInv

\* For any number of clients, codes, runtimes and lives of the strategy: a client of
\* the polling hub that was not told to reconnect waits on a sampler that runs, and
\* no sampler runs for nobody; a client of the realtime hub that was not told is in
\* the entries of its codes, whose native subscriptions are open as long as the
\* strategy that made them lives, unless a number was given twice and released; and
\* what else the terminal holds is what a release, or an answer, that failed left
\* behind (ws/quote_hub.py).
THEOREM StreamsMatch == Spec => []StreamsMatchClients
<1>1. Init => HubInv
  BY WholeStart, RealStart DEF Init, HubInv
<1>2. HubInv /\ [Next]_vars => HubInv'
  <2>1. [Next]_vars => \/ part = "realtime" /\ RealNext /\ UNCHANGED part
                       \/ part = "whole" /\ WholeNext /\ UNCHANGED part
                       \/ UNCHANGED <<part, hubVars>>
    BY DEF Next, vars
  <2> QED BY <2>1, WholeStep, RealStep DEF HubInv
<1>3. HubInv => StreamsMatchClients
  BY WholeStreams, RealStreams DEF HubInv
<1> QED BY <1>1, <1>2, <1>3, PTL DEF Spec

=============================================================================
