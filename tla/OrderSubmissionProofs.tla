----------------------- MODULE OrderSubmissionProofs -----------------------
(* Proofs about OrderSubmission for every number of calls, identities, terms
   and restarts. *)
EXTENDS OrderSubmission, TLAPS

----------------------------------------------------------------------------
(* Type correctness *)

Results == {"none", "confirmed", "unconfirmed", "failed", "rejected"}

\* The variables the bridge's steps may change keep their types.
LEMMA AnswerType ==
  ASSUME TypeOK, NEW c \in Calls, NEW a \in Busy \union Answers, Answer(c, a)
  PROVE  http' \in [Calls -> Busy \union Answers]
BY DEF TypeOK, Answer

LEMMA QueryType ==
  ASSUME TypeOK, NEW c \in Calls, NEW a \in Busy \union Answers, QueryAndReconcile(c, a)
  PROVE  http' \in [Calls -> Busy \union Answers]
<1>1. PICK b \in Busy \union Answers : Answer(c, b)
  BY DEF QueryAndReconcile, Reconciled, Answers
<1>. QED BY <1>1, AnswerType

\* What the ways a step of the handler ends do to its variables.
LEMMA RespondType ==
  ASSUME TypeOK, NEW c \in Calls, NEW r \in Results, Respond(c, r)
  PROVE  /\ response' \in [Calls -> Results]
         /\ serving' = NoCall /\ phase' = "idle"
BY DEF TypeOK, Respond, Results

LEMMA ServingType ==
  ASSUME TypeOK, phase # "idle" PROVE serving \in Calls
BY DEF TypeOK

LEMMA SettleType ==
  ASSUME TypeOK, NEW c \in Calls, Settle(c)
  PROVE  /\ response' \in [Calls -> Results]
         /\ serving' = NoCall /\ phase' = "idle"
         /\ known' \subseteq recorded
<1>1. PICK r \in {"failed", "confirmed"} : Respond(c, r)
  BY DEF Settle
<1>2. known' \subseteq recorded
  BY DEF Settle, TypeOK, Recorded
<1>. QED BY <1>1, <1>2, RespondType DEF Results

LEMMA TypeInit == Init => TypeOK
<1>. SUFFICES ASSUME Init PROVE TypeOK
  OBVIOUS
<1>1. pending \in Seq(Calls)
  BY DEF Init
<1>. QED BY <1>1, SubmissionAssumption DEF Init, TypeOK, Busy

LEMMA BridgeType ==
  ASSUME TypeOK, NEW c \in Calls, Bridge(c) PROVE TypeOK'
<1>. USE DEF Busy, Answers
<1>1. CASE Precheck(c)
  <2>1. http' \in [Calls -> Busy \union Answers]
    BY <1>1, AnswerType, QueryType DEF Precheck
  <2>. QED BY <1>1, <2>1 DEF Precheck, TypeOK, server, broker
<1>2. CASE Send(c)
  <2>1. http' \in [Calls -> Busy \union Answers]
    BY <1>2, AnswerType DEF Send
  <2>2. pending' \in Seq(Calls)
    <3>1. Append(pending, c) \in Seq(Calls)
      BY DEF TypeOK
    <3>. QED BY <1>2, <3>1 DEF Send, TypeOK
  <2>3. response' \in [Calls -> Results]
    BY <1>2 DEF Send, TypeOK, Results
  <2>. QED BY <1>2, <2>1, <2>2, <2>3 DEF Send, TypeOK, broker, Results
<1>3. CASE Receive(c)
  <2>1. http' \in [Calls -> Busy \union Answers]
    BY <1>3, AnswerType DEF Receive
  <2>. QED BY <1>3, <2>1 DEF Receive, TypeOK, server, broker
<1>4. CASE DeadlinePasses(c)
  BY <1>4 DEF DeadlinePasses, TypeOK, server, broker
<1>5. CASE TimesOut(c) \/ ExchangeFails(c)
  <2>1. http' \in [Calls -> Busy \union Answers]
    BY <1>5, AnswerType DEF TimesOut, ExchangeFails
  <2>. QED BY <1>5, <2>1 DEF TimesOut, ExchangeFails, TypeOK, server, broker
<1>6. CASE Reconcile(c)
  <2>1. http' \in [Calls -> Busy \union Answers]
    BY <1>6, QueryType DEF Reconcile
  <2>. QED BY <1>6, <2>1 DEF Reconcile, TypeOK, server, broker
<1>. QED BY <1>1, <1>2, <1>3, <1>4, <1>5, <1>6 DEF Bridge

LEMMA StrategyType ==
  ASSUME TypeOK, Strategy PROVE TypeOK'
<1>1. CASE Start
  <2>. DEFINE c == Head(pending)
  <2>1. c \in Calls /\ pending' \in Seq(Calls)
    BY <1>1 DEF Start, TypeOK
  <2>2. /\ response' \in [Calls -> Results]
        /\ serving' \in Calls \union {NoCall}
        /\ phase' \in {"idle", "lookup"}
        /\ serving' = NoCall <=> phase' = "idle"
    <3>1. CASE Respond(c, "rejected") \/ Respond(c, "failed") \/ Respond(c, "confirmed")
      BY <2>1, <3>1, RespondType DEF Results
    <3>2. CASE GoOn(c, "lookup")
      BY <2>1, <3>2, SubmissionAssumption DEF GoOn, TypeOK, Results
    <3>. QED BY <1>1, <3>1, <3>2 DEF Start, StartExpired, StartJournal
  <2>. QED BY <1>1, <2>1, <2>2 DEF Start, TypeOK, broker, Results
<1>2. CASE Lookup
  <2>1. serving \in Calls
    BY <1>2, ServingType DEF Lookup
  <2>2. /\ response' \in [Calls -> Results]
        /\ serving' \in Calls \union {NoCall}
        /\ phase' \in {"idle", "native", "poll"}
        /\ serving' = NoCall <=> phase' = "idle"
        /\ known' \subseteq recorded
    <3>1. CASE Respond(serving, "failed") /\ UNCHANGED known
      BY <2>1, <3>1, RespondType DEF Results, TypeOK
    <3>2. CASE Settle(serving)
      BY <2>1, <3>2, SettleType
    <3>3. CASE UNCHANGED known /\ \E p \in {"native", "poll"} : GoOn(serving, p)
      BY <2>1, <3>3, SubmissionAssumption DEF GoOn, TypeOK, Results
    <3>. QED BY <1>2, <3>1, <3>2, <3>3 DEF Lookup
  <2>. QED BY <1>2, <2>2 DEF Lookup, TypeOK, broker, Results
<1>3. CASE Native
  <2>1. serving \in Calls
    BY <1>3, ServingType DEF Native
  <2>2. CASE PassorderReturns
    BY <1>3, <2>1, <2>2, SubmissionAssumption DEF Native, PassorderReturns, GoOn, TypeOK
  <2>3. CASE PassorderRaises
    <3>1. /\ response' \in [Calls -> Results]
          /\ serving' = NoCall /\ phase' = "idle"
      BY <2>1, <2>3, RespondType DEF PassorderRaises, Results
    <3>2. visible' \subseteq orders' /\ orders' \subseteq issued'
      BY <1>3, <2>3 DEF Native, PassorderRaises, TypeOK
    <3>. QED BY <1>3, <2>1, <2>3, <3>1, <3>2 DEF Native, PassorderRaises, TypeOK, Results
  <2>. QED BY <1>3, <2>2, <2>3 DEF Native
<1>4. CASE Poll
  <2>1. serving \in Calls
    BY <1>4, ServingType DEF Poll
  <2>2. /\ response' \in [Calls -> Results]
        /\ serving' = NoCall /\ phase' = "idle"
        /\ known' \subseteq recorded
    BY <1>4, <2>1, SettleType, RespondType DEF Poll, Results, TypeOK
  <2>. QED BY <1>4, <2>2 DEF Poll, TypeOK, broker, Results
<1>5. CASE Restart
  <2>1. pending' \in Seq(Calls)
    BY <1>5 DEF Restart
  <2>. QED BY <1>5, <2>1, SubmissionAssumption DEF Restart, TypeOK, broker
<1>. QED BY <1>1, <1>2, <1>3, <1>4, <1>5 DEF Strategy

LEMMA TypeNext == TypeOK /\ [Next]_vars => TypeOK'
<1>. SUFFICES ASSUME TypeOK, [Next]_vars PROVE TypeOK'
  OBVIOUS
<1>1. ASSUME NEW o \in Calls, Appear(o) PROVE TypeOK'
  BY <1>1 DEF Appear, TypeOK, server
<1>2. CASE UNCHANGED vars
  BY <1>2 DEF vars, server, broker, TypeOK
<1>. QED BY <1>1, <1>2, BridgeType, StrategyType DEF Next

\* Every variable keeps its type, and the journal, the calls issued and the
\* orders stay nested as their meaning demands.
THEOREM TypeCorrect == Spec => []TypeOK
<1>. QED BY TypeInit, TypeNext, PTL DEF Spec

----------------------------------------------------------------------------
(* What the journal, the responses and the answers say of an order *)

Executing == phase \in {"lookup", "native", "poll"}

\* The journal has one entry per identity, it agrees with the request being
\* executed, and passorder is about to be called only where there is none.
JournalInv ==
  /\ \A i, j \in recorded : SameId(i, j) => i = j
  /\ Executing => \A j \in recorded : SameId(j, serving) => Same(j, serving)
  /\ phase = "native" => \A j \in recorded : ~SameId(j, serving)
  /\ phase = "poll" => \E j \in recorded : Same(j, serving)

\* A call of passorder that may stand behind an answer.
Backs(d, c) == Same(d, c) \/ Matches(d, c)
Backed(c) == \E d \in issued : Backs(d, c)

\* Every claim of success rests on such a call.
ClaimInv ==
  /\ \A c \in Calls : response[c] \in {"confirmed", "unconfirmed"} => Backed(c)
  /\ \A c \in Calls : http[c] = "submitted" => Backed(c)

\* Without a lag beyond the journal's life an order is in the journal or shown
\* by the broker, so that the lookup before passorder cannot miss it.
OrderInv ==
  /\ \A o \in orders : o \in visible \/ o \in recorded
  /\ phase = "native" => \A o \in orders : ~SameId(o, serving)
  /\ AtMostOneOrder

LEMMA Identities ==
  /\ \A c \in Calls : Same(c, c) /\ SameId(c, c)
  /\ \A c, d \in Calls : Same(c, d) => SameId(c, d) /\ Same(d, c)
  /\ \A c, d, e \in Calls : SameId(c, d) /\ SameId(d, e) => SameId(c, e)
BY DEF Same, SameId

LEMMA AskedNext ==
  [Next]_vars => /\ asked' = asked
                 /\ \A c, d \in Calls : Same(c, d)' = Same(c, d) /\ SameId(c, d)' = SameId(c, d)
<1>. SUFFICES ASSUME [Next]_vars PROVE asked' = asked
  BY DEF Same, SameId
<1>. QED BY DEF Next, vars, Bridge, Strategy, Precheck, Send, Receive, DeadlinePasses,
       TimesOut, ExchangeFails, Reconcile, Appear, Start, Lookup, Native, Poll, Restart

LEMMA JournalInit == Init => JournalInv
BY DEF Init, JournalInv, Executing

LEMMA JournalNext == TypeOK /\ JournalInv /\ [Next]_vars => JournalInv'
<1>. SUFFICES ASSUME TypeOK, JournalInv, [Next]_vars PROVE JournalInv'
  OBVIOUS
<1>. USE AskedNext, Identities DEF JournalInv, Executing
<1>1. CASE UNCHANGED <<serving, phase, recorded>>
  BY <1>1 DEF TypeOK
<1>2. CASE Start
  <2>. DEFINE c == Head(pending)
  <2>1. c \in Calls /\ recorded' = recorded
    BY <1>2 DEF Start, TypeOK
  <2>2. \/ phase' = "idle"
        \/ /\ serving' = c /\ phase' = "lookup"
           /\ \A j \in recorded : SameId(j, c) => Same(j, c)
    BY <1>2 DEF Start, StartExpired, StartJournal, Respond, GoOn, Recorded
  <2>. QED BY <2>1, <2>2 DEF TypeOK
<1>3. CASE Lookup
  <2>1. serving \in Calls /\ recorded' = recorded
    BY <1>3, ServingType DEF Lookup
  <2>2. \/ phase' = "idle"
        \/ serving' = serving /\ phase' = "native" /\ Recorded(serving) = {}
        \/ serving' = serving /\ phase' = "poll" /\ Recorded(serving) # {}
    BY <1>3 DEF Lookup, Settle, Respond, GoOn
  <2>3. phase = "lookup"
    BY <1>3 DEF Lookup
  <2>. QED BY <2>1, <2>2, <2>3 DEF Recorded, TypeOK
<1>4. CASE Native
  <2>1. serving \in Calls /\ phase = "native"
    BY <1>4, ServingType DEF Native
  <2>2. CASE PassorderReturns
    <3>1. serving' = serving /\ phase' = "poll" /\ recorded' = recorded \union {serving}
      BY <2>2 DEF PassorderReturns, GoOn
    <3>2. \A j \in recorded : ~SameId(j, serving) /\ ~SameId(serving, j)
      BY <2>1 DEF SameId
    <3>. QED BY <2>1, <3>1, <3>2 DEF TypeOK
  <2>3. CASE PassorderRaises
    BY <2>3 DEF PassorderRaises, Respond, TypeOK
  <2>. QED BY <1>4, <2>2, <2>3 DEF Native
<1>5. CASE Poll
  BY <1>5 DEF Poll, Settle, Respond, TypeOK
<1>6. CASE Restart
  BY <1>6 DEF Restart
<1>7. (\E c \in Calls : Bridge(c) \/ Appear(c)) => UNCHANGED <<serving, phase, recorded>>
  BY DEF Bridge, Precheck, Send, Receive, DeadlinePasses, TimesOut, ExchangeFails,
         Reconcile, Appear, server
<1>8. UNCHANGED vars => UNCHANGED <<serving, phase, recorded>>
  BY DEF vars, server
<1>. QED BY <1>1, <1>2, <1>3, <1>4, <1>5, <1>6, <1>7, <1>8 DEF Next, Strategy

LEMMA ClaimInit == Init => ClaimInv
BY DEF Init, ClaimInv

\* No step takes away what stands behind an answer.
LEMMA BackedKept ==
  ASSUME TypeOK, [Next]_vars
  PROVE  \A c \in Calls : Backed(c) => Backed(c)'
<1>1. asked' = asked /\ issued \subseteq issued' /\ visible \subseteq visible' /\ bare \subseteq bare'
  BY AskedNext DEF Next, vars, broker, server, Bridge, Strategy, Precheck, Send, Receive,
     DeadlinePasses, TimesOut, ExchangeFails, Reconcile, Appear, Start, Lookup, Native,
     PassorderReturns, PassorderRaises, Poll, Restart
<1>2. issued \subseteq Calls
  BY DEF TypeOK
<1>3. \A c, d \in Calls : Backs(d, c) => Backs(d, c)'
  BY <1>1 DEF Backs, Same, Matches, SameId, Fits
<1>. QED BY <1>1, <1>2, <1>3 DEF Backed

\* Nobody is answered or responded to.
LEMMA ClaimKept ==
  ASSUME TypeOK, ClaimInv, [Next]_vars, http' = http, response' = response
  PROVE  ClaimInv'
BY BackedKept DEF ClaimInv

\* A successful response to the call in hand has a call of passorder behind it.
LEMMA ClaimResponse ==
  ASSUME TypeOK, ClaimInv, [Next]_vars, NEW c \in Calls, NEW r, Respond(c, r), http' = http,
         r \in {"confirmed", "unconfirmed"} => Backed(c)
  PROVE  ClaimInv'
BY BackedKept DEF ClaimInv, Respond, TypeOK

LEMMA ClaimAnswer ==
  ASSUME TypeOK, ClaimInv, [Next]_vars, NEW c \in Calls, NEW a, Answer(c, a),
         response' = response, a = "submitted" => Backed(c)
  PROVE  ClaimInv'
BY BackedKept DEF ClaimInv, Answer, TypeOK

LEMMA ClaimQuery ==
  ASSUME TypeOK, ClaimInv, [Next]_vars, NEW c \in Calls, NEW a, QueryAndReconcile(c, a),
         a # "submitted", response' = response
  PROVE  ClaimInv'
<1>1. PICK b : Answer(c, b) /\ (b = "submitted" => \E d \in Found(c) : Fits(d, c))
  BY DEF QueryAndReconcile, Reconciled
<1>2. visible \subseteq issued
  BY DEF TypeOK
<1>3. b = "submitted" => Backed(c)
  BY <1>1, <1>2 DEF Found, Backed, Backs, Matches
<1>. QED BY <1>1, <1>3, ClaimAnswer

LEMMA ClaimBridge ==
  ASSUME TypeOK, ClaimInv, [Next]_vars, NEW c \in Calls, Bridge(c) PROVE ClaimInv'
<1>1. CASE Precheck(c)
  BY <1>1, ClaimQuery, ClaimAnswer DEF Precheck, broker
<1>2. CASE Send(c)
  BY <1>2, BackedKept DEF Send, Answer, ClaimInv, TypeOK
<1>3. CASE Receive(c)
  <2>1. PICK a : Answer(c, a) /\ (a = "submitted" => response[c] \in {"confirmed", "unconfirmed"})
    BY <1>3 DEF Receive
  <2>2. a = "submitted" => Backed(c)
    BY <2>1 DEF ClaimInv
  <2>. QED BY <1>3, <2>1, <2>2, ClaimAnswer DEF Receive, broker
<1>4. CASE DeadlinePasses(c)
  BY <1>4, ClaimKept DEF DeadlinePasses, broker
<1>5. CASE TimesOut(c) \/ ExchangeFails(c)
  BY <1>5, ClaimAnswer DEF TimesOut, ExchangeFails, broker
<1>6. CASE Reconcile(c)
  BY <1>6, ClaimQuery DEF Reconcile, broker
<1>. QED BY <1>1, <1>2, <1>3, <1>4, <1>5, <1>6 DEF Bridge

\* Settling the call on an order found answers for that order.
LEMMA ClaimSettle ==
  ASSUME TypeOK, ClaimInv, [Next]_vars, NEW c \in Calls, Settle(c), http' = http
  PROVE  ClaimInv'
<1>1. PICK r : Respond(c, r) /\ (r \in {"confirmed", "unconfirmed"} =>
                                   \E o \in Found(c) : Fits(o, c))
  BY DEF Settle
<1>2. visible \subseteq issued
  BY DEF TypeOK
<1>3. r \in {"confirmed", "unconfirmed"} => Backed(c)
  BY <1>1, <1>2 DEF Found, Backed, Backs, Matches
<1>. QED BY <1>1, <1>3, ClaimResponse

LEMMA ClaimStrategy ==
  ASSUME TypeOK, JournalInv, ClaimInv, [Next]_vars, Strategy PROVE ClaimInv'
<1>. issued \subseteq Calls /\ recorded \subseteq issued
  BY DEF TypeOK
<1>1. CASE Start
  <2>. DEFINE c == Head(pending)
  <2>1. c \in Calls /\ http' = http
    BY <1>1 DEF Start, TypeOK, broker
  <2>2. \/ GoOn(c, "lookup")
        \/ \E r : Respond(c, r) /\ (r \in {"confirmed", "unconfirmed"} => Backed(c))
    BY <1>1 DEF Start, StartExpired, StartJournal, Recorded, Backed, Backs
  <2>. QED BY <2>1, <2>2, ClaimResponse, ClaimKept DEF GoOn
<1>2. CASE Lookup
  <2>1. serving \in Calls /\ http' = http
    BY <1>2, ServingType DEF Lookup, broker
  <2>2. Respond(serving, "failed") \/ Settle(serving) \/ UNCHANGED response
    BY <1>2 DEF Lookup, GoOn
  <2>. QED BY <2>1, <2>2, ClaimResponse, ClaimSettle, ClaimKept
<1>3. CASE Native
  <2>1. serving \in Calls /\ http' = http
    BY <1>3, ServingType DEF Native
  <2>2. Respond(serving, "failed") \/ UNCHANGED response
    BY <1>3 DEF Native, PassorderReturns, PassorderRaises, GoOn
  <2>. QED BY <2>1, <2>2, ClaimResponse, ClaimKept
<1>4. CASE Poll
  <2>1. serving \in Calls /\ http' = http
    BY <1>4, ServingType DEF Poll, broker
  <2>2. Backed(serving)
    BY <1>4 DEF Poll, JournalInv, Backed, Backs
  <2>. QED BY <1>4, <2>1, <2>2, ClaimResponse, ClaimSettle DEF Poll
<1>5. CASE Restart
  BY <1>5, ClaimKept DEF Restart
<1>. QED BY <1>1, <1>2, <1>3, <1>4, <1>5 DEF Strategy

LEMMA ClaimNext == TypeOK /\ JournalInv /\ ClaimInv /\ [Next]_vars => ClaimInv'
<1>. SUFFICES ASSUME TypeOK, JournalInv, ClaimInv, [Next]_vars PROVE ClaimInv'
  OBVIOUS
<1>1. ASSUME NEW o \in Calls, Appear(o) PROVE ClaimInv'
  BY <1>1, ClaimKept DEF Appear
<1>2. CASE UNCHANGED vars
  BY <1>2, ClaimKept DEF vars, broker
<1>. QED BY <1>1, <1>2, ClaimBridge, ClaimStrategy DEF Next

\* Every answer "submitted" has a call of passorder on the very terms of the call, or
\* an order under its identity of which the broker tells nothing that contradicts
\* them (routers/trading.py, redis_rpc.py).
THEOREM SubmittedCorrect == Spec => []SubmittedWasIssued
<1>1. Init => TypeOK /\ JournalInv /\ ClaimInv
  BY TypeInit, JournalInit, ClaimInit
<1>2. TypeOK /\ JournalInv /\ ClaimInv /\ [Next]_vars => (TypeOK /\ JournalInv /\ ClaimInv)'
  BY TypeNext, JournalNext, ClaimNext
<1>3. ClaimInv => SubmittedWasIssued
  BY DEF ClaimInv, Backed, Backs, SubmittedWasIssued
<1>. QED BY <1>1, <1>2, <1>3, PTL DEF Spec

----------------------------------------------------------------------------
(* One order per client_submit_id *)

LEMMA OrderInit == Init => OrderInv
BY DEF Init, OrderInv, AtMostOneOrder

LEMMA OrderNext ==
  ASSUME ~UnjournaledLag
  PROVE  TypeOK /\ JournalInv /\ OrderInv /\ [Next]_vars => OrderInv'
<1>. SUFFICES ASSUME TypeOK, JournalInv, OrderInv, [Next]_vars PROVE OrderInv'
  OBVIOUS
<1>. USE AskedNext, Identities DEF OrderInv, AtMostOneOrder
<1>. orders \subseteq Calls /\ recorded \subseteq Calls
  BY DEF TypeOK
<1>1. CASE UNCHANGED <<serving, phase, recorded, orders>> /\ visible \subseteq visible'
  BY <1>1, SubmissionAssumption DEF TypeOK
<1>2. CASE Start
  BY <1>2 DEF Start, StartExpired, StartJournal, Respond, GoOn, broker
<1>3. CASE Lookup
  <2>1. serving \in Calls /\ UNCHANGED <<recorded, orders, visible>>
    BY <1>3, ServingType DEF Lookup, broker
  <2>2. \/ phase' \in {"idle", "poll"}
        \/ serving' = serving /\ Recorded(serving) = {} /\ Found(serving) = {}
    BY <1>3 DEF Lookup, Settle, Respond, GoOn
  <2>. QED BY <2>1, <2>2 DEF Recorded, Found
<1>4. CASE Native
  <2>1. serving \in Calls /\ phase = "native"
    BY <1>4, ServingType DEF Native
  <2>2. \A o \in orders : ~SameId(o, serving) /\ ~SameId(serving, o)
    BY <2>1 DEF SameId
  <2>3. orders' = orders \/ orders' = orders \union {serving}
    BY <1>4 DEF Native, PassorderReturns, PassorderRaises
  <2>4. AtMostOneOrder'
    BY <2>1, <2>2, <2>3
  <2>5. \A o \in orders' : o \in visible' \/ o \in recorded'
    BY <1>4, <2>3 DEF Native, PassorderReturns, PassorderRaises
  <2>6. phase' # "native"
    BY <1>4 DEF Native, PassorderReturns, PassorderRaises, GoOn, Respond
  <2>. QED BY <2>4, <2>5, <2>6
<1>5. CASE Poll
  BY <1>5 DEF Poll, Settle, Respond, broker
<1>6. CASE Restart
  BY <1>6 DEF Restart, broker
<1>7. (\E c \in Calls : Bridge(c) \/ Appear(c))
        => UNCHANGED <<serving, phase, recorded, orders>> /\ visible \subseteq visible'
  BY DEF Bridge, Precheck, Send, Receive, DeadlinePasses, TimesOut, ExchangeFails,
         Reconcile, Appear, server, broker
<1>8. UNCHANGED vars => UNCHANGED <<serving, phase, recorded, orders, visible>>
  BY DEF vars, server, broker
<1>. QED BY <1>1, <1>2, <1>3, <1>4, <1>5, <1>6, <1>7, <1>8 DEF Next, Strategy

\* As long as an order the journal has lost can be seen by a query, no
\* client_submit_id gets a second order.
THEOREM OrderedOnce == ASSUME ~UnjournaledLag PROVE Spec => []AtMostOneOrder
<1>1. Init => TypeOK /\ JournalInv /\ OrderInv
  BY TypeInit, JournalInit, OrderInit
<1>2. TypeOK /\ JournalInv /\ OrderInv /\ [Next]_vars => (TypeOK /\ JournalInv /\ OrderInv)'
  BY TypeNext, JournalNext, OrderNext
<1>3. OrderInv => AtMostOneOrder
  BY DEF OrderInv
<1>. QED BY <1>1, <1>2, <1>3, PTL DEF Spec

----------------------------------------------------------------------------
(* A request abandoned in the queue *)

Unsent(c) == http[c] \in {"idle", "prechecked"}

\* A call is in at most one place: not sent, once in the queue, or started.
QueueInv ==
  /\ \A i \in 1 .. Len(pending) :
       /\ ~Unsent(pending[i]) /\ pending[i] # serving /\ pending[i] \notin issued
       /\ \A j \in 1 .. Len(pending) : pending[i] = pending[j] => i = j
  /\ \A c \in Calls : Unsent(c) => c # serving /\ c \notin issued

\* A call that is late without having been started.
Dead(c) == c \in late /\ ~Unsent(c) /\ c # serving /\ c \notin issued

LEMMA QueueInit == Init => QueueInv
BY SubmissionAssumption DEF Init, QueueInv

\* Answering a call that has been sent, or that is answered without being sent.
LEMMA QueueAnswer ==
  ASSUME TypeOK, QueueInv, NEW c \in Calls, NEW a, Answer(c, a),
         Unsent(c) \/ a \notin {"idle", "prechecked"},
         UNCHANGED <<pending, serving, issued>>
  PROVE  QueueInv'
<1>. SUFFICES /\ \A d \in Calls : Unsent(d)' => Unsent(d)
              /\ \A i \in 1 .. Len(pending) : ~Unsent(pending[i])'
  BY DEF QueueInv, TypeOK
<1>1. \A d \in Calls : d # c => Unsent(d)' = Unsent(d)
  BY DEF Answer, Unsent, TypeOK
<1>. QED BY <1>1 DEF Answer, Unsent, TypeOK, QueueInv

LEMMA QueueBridge ==
  ASSUME TypeOK, QueueInv, NEW c \in Calls, Bridge(c) PROVE QueueInv'
<1>1. CASE Precheck(c)
  <2>1. Unsent(c) /\ \E a : Answer(c, a)
    BY <1>1 DEF Precheck, QueryAndReconcile, Reconciled, Unsent
  <2>. QED BY <1>1, <2>1, QueueAnswer DEF Precheck, server, broker
<1>2. CASE Send(c)
  <2>1. http[c] = "prechecked" /\ UNCHANGED <<serving, issued>>
    BY <1>2 DEF Send, broker
  <2>2. CASE UNCHANGED pending
    BY <1>2, <2>1, <2>2, QueueAnswer DEF Send, Unsent
  <2>3. CASE Answer(c, "waiting") /\ pending' = Append(pending, c)
    <3>1. /\ Len(pending') = Len(pending) + 1
          /\ pending'[Len(pending) + 1] = c
          /\ \A i \in 1 .. Len(pending) : pending'[i] = pending[i] /\ pending[i] # c
          /\ Len(pending) \in Nat
      BY <2>1, <2>3 DEF QueueInv, TypeOK, Unsent
    <3>2. \A d \in Calls : Unsent(d)' => Unsent(d) /\ d # c
      BY <2>3 DEF Answer, Unsent, TypeOK
    <3>3. \A i \in 1 .. Len(pending) : pending[i] \in Calls
      BY DEF TypeOK
    <3>4. \A i \in 1 .. Len(pending') : i \in 1 .. Len(pending) \/ i = Len(pending) + 1
      BY <3>1
    <3>5. c # serving /\ c \notin issued
      BY <2>1 DEF QueueInv, Unsent
    <3>6. ~Unsent(c)'
      BY <3>2
    <3>. QED BY <2>1, <3>1, <3>2, <3>3, <3>4, <3>5, <3>6 DEF QueueInv
  <2>. QED BY <1>2, <2>2, <2>3 DEF Send
<1>3. CASE Receive(c)
  BY <1>3, QueueAnswer DEF Receive, server, broker
<1>4. CASE DeadlinePasses(c)
  BY <1>4 DEF DeadlinePasses, QueueInv, Unsent, server, broker
<1>5. CASE TimesOut(c) \/ ExchangeFails(c)
  BY <1>5, QueueAnswer DEF TimesOut, ExchangeFails, server, broker
<1>6. CASE Reconcile(c)
  <2>1. \E a : Answer(c, a) /\ a \notin {"idle", "prechecked"}
    BY <1>6 DEF Reconcile, QueryAndReconcile, Reconciled
  <2>. QED BY <1>6, <2>1, QueueAnswer DEF Reconcile, server, broker
<1>. QED BY <1>1, <1>2, <1>3, <1>4, <1>5, <1>6 DEF Bridge

LEMMA QueueNext == TypeOK /\ QueueInv /\ [Next]_vars => QueueInv'
<1>. SUFFICES ASSUME TypeOK, QueueInv, [Next]_vars PROVE QueueInv'
  OBVIOUS
<1>1. CASE Start
  <2>. DEFINE c == Head(pending)
  <2>1. /\ UNCHANGED <<http, issued>> /\ pending' = Tail(pending) /\ pending # <<>>
        /\ serving' \in {NoCall, c}
    BY <1>1 DEF Start, StartExpired, StartJournal, Respond, GoOn, broker
  <2>2. /\ c \in Calls /\ c = pending[1] /\ 1 \in 1 .. Len(pending)
        /\ \A i \in 1 .. Len(pending') : i + 1 \in 1 .. Len(pending) /\ pending'[i] = pending[i + 1]
        /\ \A i \in 1 .. Len(pending) : pending[i] \in Calls
    BY <2>1 DEF TypeOK
  <2>3. \A i \in 1 .. Len(pending') : pending'[i] # c
    BY <2>2 DEF QueueInv
  <2>4. ~Unsent(c)
    BY <2>2 DEF QueueInv
  <2>. QED BY <2>1, <2>2, <2>3, <2>4, SubmissionAssumption DEF QueueInv, Unsent
<1>2. CASE Lookup \/ Poll
  <2>1. UNCHANGED <<http, pending, issued>> /\ serving' \in {NoCall, serving}
    BY <1>2 DEF Lookup, Poll, Settle, Respond, GoOn, broker
  <2>. QED BY <2>1, SubmissionAssumption DEF QueueInv, Unsent, TypeOK
<1>3. CASE Native
  <2>1. /\ UNCHANGED <<http, pending>> /\ serving' \in {NoCall, serving}
        /\ issued' = issued \union {serving}
    BY <1>3 DEF Native, PassorderReturns, PassorderRaises, Respond, GoOn
  <2>. QED BY <2>1, SubmissionAssumption DEF QueueInv, Unsent, TypeOK
<1>4. CASE Restart
  BY <1>4, SubmissionAssumption DEF Restart, QueueInv, Unsent, broker
<1>5. ASSUME NEW o \in Calls, Appear(o) PROVE QueueInv'
  BY <1>5 DEF Appear, QueueInv, Unsent, server
<1>6. CASE UNCHANGED vars
  BY <1>6 DEF vars, server, broker, QueueInv, Unsent
<1>. QED BY <1>1, <1>2, <1>3, <1>4, <1>5, <1>6, QueueBridge DEF Next, Strategy

LEMMA DeadNext ==
  ASSUME NEW c \in Calls
  PROVE  TypeOK /\ Dead(c) /\ [Next]_vars => Dead(c)'
<1>. SUFFICES ASSUME TypeOK, Dead(c), [Next]_vars PROVE Dead(c)'
  OBVIOUS
<1>. USE DEF Dead, Unsent
<1>1. ASSUME NEW d \in Calls, Bridge(d) PROVE Dead(c)'
  <2>1. late \subseteq late' /\ UNCHANGED <<serving, issued>>
    BY <1>1 DEF Bridge, Precheck, Send, Receive, DeadlinePasses, TimesOut, ExchangeFails,
         Reconcile, server, broker
  <2>2. CASE http' = http \/ Unsent(d)
    BY <1>1, <2>1, <2>2 DEF Bridge, Precheck, Send, Receive, DeadlinePasses, TimesOut,
         ExchangeFails, Reconcile, QueryAndReconcile, Reconciled, Answer, TypeOK
  <2>3. CASE ~Unsent(d) /\ http' # http
    <3>1. \E a : Answer(d, a) /\ a \notin {"idle", "prechecked"}
      BY <1>1, <2>3 DEF Bridge, Precheck, Send, Receive, DeadlinePasses, TimesOut,
           ExchangeFails, Reconcile, QueryAndReconcile, Reconciled
    <3>. QED BY <2>1, <3>1 DEF Answer, TypeOK
  <2>. QED BY <2>2, <2>3
<1>2. CASE Start
  BY <1>2, SubmissionAssumption
     DEF Start, StartExpired, StartJournal, Respond, GoOn, broker, TypeOK
<1>3. CASE Lookup \/ Poll
  BY <1>3, SubmissionAssumption DEF Lookup, Poll, Settle, Respond, GoOn, broker
<1>4. CASE Native
  BY <1>4, SubmissionAssumption DEF Native, PassorderReturns, PassorderRaises, Respond, GoOn
<1>5. CASE Restart
  BY <1>5, SubmissionAssumption DEF Restart, broker
<1>6. ASSUME NEW o \in Calls, Appear(o) PROVE Dead(c)'
  BY <1>6 DEF Appear, server
<1>7. CASE UNCHANGED vars
  BY <1>7 DEF vars, server, broker
<1>. QED BY <1>1, <1>2, <1>3, <1>4, <1>5, <1>6, <1>7 DEF Next, Strategy

\* A request that is still queued when its deadline passes is dead: it can only
\* be answered, never executed.
THEOREM AbandonedStaysUnissued == Spec => AbandonedNeverRuns
<1>. SUFFICES ASSUME NEW c \in Calls
              PROVE  Spec => []((c \in late /\ Queued(c)) => [](c \notin issued))
  BY DEF AbandonedNeverRuns
<1>1. Init => TypeOK /\ QueueInv
  BY TypeInit, QueueInit
<1>2. TypeOK /\ QueueInv /\ [Next]_vars => (TypeOK /\ QueueInv)'
  BY TypeNext, QueueNext
<1>3. TypeOK /\ QueueInv /\ c \in late /\ Queued(c) => Dead(c)
  BY DEF QueueInv, Queued, Dead
<1>4. TypeOK /\ Dead(c) /\ [Next]_vars => Dead(c)'
  BY DeadNext
<1>5. Dead(c) => c \notin issued
  BY DEF Dead
<1>. QED BY <1>1, <1>2, <1>3, <1>4, <1>5, PTL DEF Spec

=============================================================================
