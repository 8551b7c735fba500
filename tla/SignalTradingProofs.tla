------------------------ MODULE SignalTradingProofs ------------------------
(* Proofs about SignalTrading for every number of consumers, signals, stream
   entries and faults. *)
EXTENDS SignalTrading, TLAPS

----------------------------------------------------------------------------
(* Type correctness *)

\* What moving to another stage does to the variables of a tick.
LEMMA GotoType ==
  ASSUME TypeOK, NEW c \in Consumers, NEW l \in Stages, Goto(c, l)
  PROVE  /\ pc' \in [Consumers -> Stages]
         /\ cur' \in [Consumers -> Entries \union {NoEntry}]
         /\ todo' \in [Consumers -> SUBSET Entries]
BY DEF TypeOK, Goto

LEMMA FaultType == ASSUME TypeOK, Fault PROVE faults' \in 0 .. MaxFaults
BY SignalAssumption DEF TypeOK, Fault

\* A signal of a consumer that works on one is a signal.
LEMMA SigType ==
  ASSUME TypeOK, NEW c \in Consumers, cur[c] # NoEntry
  PROVE  Sig(c) \in Signals
BY SignalAssumption DEF TypeOK, Sig, Entries

LEMMA ReferenceType ==
  ASSUME TypeOK, NEW c \in Consumers, NEW P \in SUBSET Entries, Reference(c, P)
  PROVE  refs' \in [Consumers -> SUBSET Entries]
BY DEF TypeOK, Reference

LEMMA WriteType ==
  ASSUME TypeOK, NEW c \in Consumers, NEW from, NEW st \in Statuses,
         NEW to \in Stages, NEW onError \in Stages,
         Write(c, from, st, to, onError)
  PROVE  TypeOK'
<1>1. status' \in [Signals -> Statuses]
  BY DEF TypeOK, Write
<1>2. PICK l \in Stages : Goto(c, l)
  BY DEF Write
<1>3. /\ pc' \in [Consumers -> Stages]
      /\ cur' \in [Consumers -> Entries \union {NoEntry}]
      /\ todo' \in [Consumers -> SUBSET Entries]
  BY <1>2, GotoType
<1>4. faults' \in 0 .. MaxFaults
  BY FaultType DEF Write, TypeOK
<1>. QED BY <1>1, <1>3, <1>4 DEF TypeOK, Write

LEMMA AckType ==
  ASSUME TypeOK, NEW c \in Consumers, NEW from,
         NEW to \in Stages, NEW onError \in Stages,
         Ack(c, from, to, onError)
  PROVE  TypeOK'
<1>1. entry' \in [Entries -> {"new", "pending", "acked"}]
  BY DEF TypeOK, Ack
<1>2. refs' \in [Consumers -> SUBSET Entries]
  BY DEF TypeOK, Ack
<1>3. PICK l \in Stages : Goto(c, l)
  BY DEF Ack
<1>4. /\ pc' \in [Consumers -> Stages]
      /\ cur' \in [Consumers -> Entries \union {NoEntry}]
      /\ todo' \in [Consumers -> SUBSET Entries]
  BY <1>3, GotoType
<1>5. faults' \in 0 .. MaxFaults
  BY FaultType DEF Ack, TypeOK
<1>. QED BY <1>1, <1>2, <1>4, <1>5 DEF TypeOK, Ack

LEMMA TypeInit == Init => TypeOK
BY SignalAssumption DEF Init, TypeOK, Stages, Statuses, Decided

LEMMA FetchType ==
  ASSUME TypeOK, NEW c \in Consumers, NEW R \in SUBSET Entries, NEW N \in SUBSET Entries,
         Fetch(c, R, N) \/ FetchPoisoned(c, R, N) \/ FetchFails(c, R, N)
  PROVE  TypeOK'
<1>1. entry' \in [Entries -> {"new", "pending", "acked"}]
  BY DEF TypeOK, Fetch, FetchPoisoned, FetchFails, Deliver
<1>2. PICK P \in SUBSET Entries : Reference(c, P)
  <2>1. BeforePoison(R \union N) \in SUBSET Entries
    BY DEF BeforePoison
  <2>. QED BY <2>1 DEF Fetch, FetchPoisoned, FetchFails
<1>3. refs' \in [Consumers -> SUBSET Entries]
  BY <1>2, ReferenceType
<1>4. faults' \in 0 .. MaxFaults
  BY FaultType DEF Fetch, FetchPoisoned, FetchFails, TypeOK
<1>5. todo' \in [Consumers -> SUBSET Entries] /\ pc' \in [Consumers -> Stages]
  BY DEF TypeOK, Fetch, FetchPoisoned, FetchFails, Stages
<1>. QED BY <1>1, <1>3, <1>4, <1>5 DEF TypeOK, Fetch, FetchPoisoned, FetchFails

LEMMA ProcessType ==
  ASSUME TypeOK, NEW c \in Consumers, Process(c)
  PROVE  TypeOK'
<1>. USE DEF Stages, Holding, Statuses, Decided
<1>1. ASSUME NEW e \in todo[c], TakeNext(c, e) PROVE TypeOK'
  <2>1. e \in Entries /\ SignalOf[e] \in Signals
    BY SignalAssumption DEF TypeOK, Entries
  <2>2. pc' \in [Consumers -> Stages]
    BY <1>1, <2>1 DEF TakeNext, TypeOK
  <2>3. cur' \in [Consumers -> Entries \union {NoEntry}]
    BY <1>1, <2>1 DEF TakeNext, TypeOK
  <2>. QED BY <1>1, <2>2, <2>3 DEF TakeNext, TypeOK
<1>2. CASE EndTick(c) \/ ReconcileUnknown(c) \/ ReconcileFound(c) \/ Handle(c)
  <2>1. PICK l \in Stages : Goto(c, l)
    BY <1>2 DEF EndTick, ReconcileUnknown, ReconcileFound, Handle
  <2>. QED BY <1>2, <2>1, GotoType DEF EndTick, ReconcileUnknown, ReconcileFound, Handle, TypeOK
<1>3. CASE Claim(c)
  <2>1. PICK l \in Stages : Goto(c, l)
    BY <1>3 DEF Claim
  <2>2. claimed' \in [Signals -> BOOLEAN]
    BY <1>3 DEF Claim, TypeOK
  <2>3. faults' \in 0 .. MaxFaults
    BY <1>3, FaultType DEF Claim, TypeOK
  <2>. QED BY <1>3, <2>1, <2>2, <2>3, GotoType DEF Claim, TypeOK
<1>4. CASE Submit(c)
  <2>1. PICK l \in Stages : Goto(c, l)
    BY <1>4 DEF Submit
  <2>2. orders' \in [Signals -> Nat]
    BY <1>4 DEF Submit, TypeOK
  <2>3. faults' \in 0 .. MaxFaults
    BY <1>4, FaultType DEF Submit, TypeOK
  <2>. QED BY <1>4, <2>1, <2>2, <2>3, GotoType DEF Submit, TypeOK
<1>5. CASE \/ AckTerminal(c) \/ AckSkipped(c) \/ AckSubmitted(c) \/ AckFailed(c)
  BY <1>5, AckType DEF AckTerminal, AckSkipped, AckSubmitted, AckFailed
<1>6. CASE \/ Confirm(c) \/ WriteClaimed(c) \/ Skip(c) \/ WriteIntent(c) \/ Record(c) \/ Fail(c)
  BY <1>6, WriteType DEF Confirm, WriteClaimed, Skip, WriteIntent, Record, Fail
<1>. QED BY <1>1, <1>2, <1>3, <1>4, <1>5, <1>6 DEF Process

LEMMA TypeNext == TypeOK /\ [Next]_vars => TypeOK'
<1>. SUFFICES ASSUME TypeOK, [Next]_vars PROVE TypeOK'
  OBVIOUS
<1>1. ASSUME NEW c \in Consumers, Process(c) PROVE TypeOK'
  BY <1>1, ProcessType
<1>2. ASSUME NEW c \in Consumers, Read(c) PROVE TypeOK'
  BY <1>2, FetchType DEF Read
<1>3. ASSUME NEW c \in Consumers, NEW R \in SUBSET Entries, NEW N \in SUBSET Entries,
             FetchFails(c, R, N)
      PROVE TypeOK'
  BY <1>3, FetchType
<1>4. ASSUME NEW c \in Consumers, GetStatusFails(c) \/ Crash(c) PROVE TypeOK'
  <2>1. Goto(c, "idle") /\ Fault
    BY <1>4 DEF GetStatusFails, Crash
  <2>2. "idle" \in Stages
    BY DEF Stages
  <2>3. refs' \in [Consumers -> SUBSET Entries]
    BY <1>4 DEF GetStatusFails, Crash, TypeOK
  <2>. QED BY <1>4, <2>1, <2>2, <2>3, GotoType, FaultType DEF GetStatusFails, Crash, TypeOK
<1>5. ASSUME NEW s \in Signals, ClaimExpires(s) \/ StatusExpires(s) PROVE TypeOK'
  BY <1>5 DEF ClaimExpires, StatusExpires, TypeOK, Statuses
<1>6. CASE UNCHANGED vars
  BY <1>6 DEF vars, TypeOK
<1>. QED BY <1>1, <1>2, <1>3, <1>4, <1>5, <1>6 DEF Next

\* Every variable keeps its type, whatever the constants.
THEOREM TypeCorrect == Spec => []TypeOK
BY TypeInit, TypeNext, PTL DEF Spec

----------------------------------------------------------------------------
(* The inductive invariant *)

\* The consumers that do not move keep their stage and their signal.
LEMMA GotoOthers ==
  ASSUME TypeOK, NEW c \in Consumers, NEW l, Goto(c, l),
         NEW d \in Consumers, d # c
  PROVE  pc'[d] = pc[d] /\ cur'[d] = cur[d] /\ todo'[d] = todo[d]
BY DEF TypeOK, Goto

\* The consumer that moves: its stage, and its signal unless it leaves it.
LEMMA GotoSelf ==
  ASSUME TypeOK, NEW c \in Consumers, NEW l, Goto(c, l)
  PROVE  /\ pc'[c] = l
         /\ l \in {"loop", "idle"} => cur'[c] = NoEntry
         /\ l \notin {"loop", "idle"} => cur'[c] = cur[c]
         /\ todo'[c] \subseteq todo[c]
BY DEF TypeOK, Goto

\* A consumer never starts to work on a signal by moving to another stage.
LEMMA GotoLive ==
  ASSUME TypeOK, NEW c \in Consumers, NEW l, Goto(c, l),
         NEW d \in Consumers, NEW s, WorksOn(d, s)'
  PROVE  WorksOn(d, s)
<1>1. cur'[d] \in {cur[d], NoEntry} /\ todo'[d] \subseteq todo[d]
  BY GotoOthers, GotoSelf
<1>. QED BY <1>1 DEF WorksOn

\* Consumer c moves to stage l and every consumer still at work keeps its signal.
Moves(c, l) ==
  /\ pc'[c] = l
  /\ \A d \in Consumers : d # c => pc'[d] = pc[d]
  /\ \A d \in Consumers : pc'[d] \notin {"loop", "idle"} =>
       cur'[d] = cur[d] /\ SignalOf[cur[d]] \in Signals

\* No step but a fetch lets anybody act on a signal nobody could act on.
Subsides == \A s \in Signals : Live(s)' => Live(s)

LEMMA GotoMoves ==
  ASSUME TypeOK, CurrentSet, NEW c \in Consumers, NEW l \in Stages, Goto(c, l),
         l \in {"loop", "idle"} \/ pc[c] \notin {"loop", "idle"}
  PROVE  Moves(c, l) /\ CurrentSet'
<1>1. cur[c] # NoEntry \/ l \in {"loop", "idle"}
  BY DEF CurrentSet
<1>2. Moves(c, l)
  BY <1>1, GotoOthers, GotoSelf, SigType DEF CurrentSet, Sig, Stages, TypeOK, Moves
<1>3. CurrentSet'
  BY <1>1, GotoOthers, GotoSelf DEF CurrentSet, Stages, TypeOK
<1>. QED BY <1>2, <1>3

LEMMA GotoSubsides ==
  ASSUME TypeOK, NEW c \in Consumers, NEW l, Goto(c, l),
         \A e \in Entries : entry[e] = "acked" => entry'[e] = "acked"
  PROVE  Subsides
BY GotoLive DEF Live, Subsides

\* The parts of the invariant that relate stages, statuses and orders.
StageInv == ClaimIsLock /\ StatusAtStage /\ NotYetOrdered /\ OrderHasIntent

\* A move that leaves the claim, the status and the orders alone.
LEMMA PlainMove ==
  ASSUME IInv, NEW c \in Consumers, NEW l \in Stages, Moves(c, l), Subsides,
         UNCHANGED <<claimed, status, orders>>,
         \/ l \in {"loop", "idle"}
         \/ pc[c] = "handle" /\ l \in {"skip", "intent", "fail"}
         \/ pc[c] \in {"skip", "intent", "ackSkipped", "ackSubmitted"} /\ l = "fail"
         \/ pc[c] = "reconcile" /\ l = "confirm"
  PROVE  StageInv'
<1>. USE DEF IInv, Sig, Moves, Holding, Recorded, Decided
<1>1. ClaimIsLock'
  BY DEF ClaimIsLock
<1>2. StatusAtStage'
  BY DEF StatusAtStage
<1>3. NotYetOrdered'
  BY DEF NotYetOrdered
<1>4. OrderHasIntent'
  BY DEF OrderHasIntent, Subsides
<1>. QED BY <1>1, <1>2, <1>3, <1>4 DEF StageInv

\* A status write by the consumer that owns the claim, or by a reconciliation.
LEMMA StatusMove ==
  ASSUME IInv, NEW c \in Consumers, NEW l \in Stages, Moves(c, l), Subsides,
         NEW st \in Statuses, status' = [status EXCEPT ![Sig(c)] = st],
         UNCHANGED <<claimed, orders>>,
         \/ pc[c] = "claimed" /\ st = "CLAIMED"    /\ l \in {"handle", "idle"}
         \/ pc[c] = "skip"    /\ st = "SKIPPED"    /\ l \in {"ackSkipped", "fail"}
         \/ pc[c] = "intent"  /\ st = "SUBMITTING" /\ l \in {"submit", "fail"}
         \/ pc[c] = "record"  /\ st = "SUBMITTED"  /\ l \in {"ackSubmitted", "loop"}
         \/ pc[c] = "fail"    /\ st = "FAILED"     /\ l \in {"ackFailed", "idle"}
         \/ pc[c] = "confirm" /\ st = "CONFIRMED"  /\ l \in {"ackTerminal", "idle"}
  PROVE  StageInv'
<1>1. SignalOf[cur[c]] \in Signals
  BY SigType DEF IInv, CurrentSet, Sig
<1>2. \A s \in Signals : status'[s] = IF s = SignalOf[cur[c]] THEN st ELSE status[s]
  BY DEF IInv, TypeOK, Sig
<1>. USE <1>1, <1>2 DEF IInv, Sig, Moves, Holding, Recorded, Decided
<1>3. ClaimIsLock'
  BY DEF ClaimIsLock, StatusAtStage
<1>4. StatusAtStage'
  BY DEF ClaimIsLock, StatusAtStage
<1>5. NotYetOrdered'
  BY DEF NotYetOrdered
<1>6. OrderHasIntent'
  BY DEF OrderHasIntent, NotYetOrdered, Subsides
<1>. QED BY <1>3, <1>4, <1>5, <1>6 DEF StageInv

\* A write step, whichever of its three outcomes it has.
LEMMA WriteInv ==
  ASSUME IInv, NEW c \in Consumers, NEW from, NEW st \in Statuses,
         NEW to \in Stages, NEW onError \in Stages,
         Write(c, from, st, to, onError),
         \/ from = "claimed" /\ st = "CLAIMED"    /\ to = "handle"       /\ onError = "idle"
         \/ from = "skip"    /\ st = "SKIPPED"    /\ to = "ackSkipped"   /\ onError = "fail"
         \/ from = "intent"  /\ st = "SUBMITTING" /\ to = "submit"       /\ onError = "fail"
         \/ from = "record"  /\ st = "SUBMITTED"  /\ to = "ackSubmitted" /\ onError = "loop"
         \/ from = "fail"    /\ st = "FAILED"     /\ to = "ackFailed"    /\ onError = "idle"
         \/ from = "confirm" /\ st = "CONFIRMED"  /\ to = "ackTerminal"  /\ onError = "idle"
  PROVE  CurrentSet' /\ StageInv' /\ AtMostOneOrder'
<1>1. PICK l \in {to, onError} :
        /\ Goto(c, l)
        /\ \/ status' = [status EXCEPT ![Sig(c)] = st]
           \/ l = onError /\ UNCHANGED status
  BY DEF Write
<1>2. pc[c] = from /\ UNCHANGED <<entry, claimed, orders>>
  BY DEF Write
<1>3. Moves(c, l) /\ CurrentSet' /\ Subsides
  BY <1>1, <1>2, GotoMoves, GotoSubsides DEF IInv
<1>4. CASE status' = [status EXCEPT ![Sig(c)] = st]
  <2>1. StageInv'
    BY <1>1, <1>2, <1>3, <1>4, StatusMove
  <2>. QED BY <2>1, <1>2, <1>3 DEF IInv, AtMostOneOrder
<1>5. CASE l = onError /\ UNCHANGED status
  <2>1. StageInv'
    BY <1>1, <1>2, <1>3, <1>5, PlainMove
  <2>. QED BY <2>1, <1>2, <1>3 DEF IInv, AtMostOneOrder
<1>. QED BY <1>1, <1>4, <1>5

\* An acknowledgement, successful or not.
LEMMA AckInv ==
  ASSUME IInv, NEW c \in Consumers, NEW from,
         NEW to \in Stages, NEW onError \in Stages,
         Ack(c, from, to, onError), to = "loop",
         \/ onError = "idle"
         \/ from \in {"ackSkipped", "ackSubmitted"} /\ onError = "fail"
  PROVE  CurrentSet' /\ StageInv' /\ AtMostOneOrder'
<1>1. PICK l \in {to, onError} : Goto(c, l)
  BY DEF Ack
<1>2. pc[c] = from /\ UNCHANGED <<claimed, status, orders>>
  BY DEF Ack
<1>3. \A e \in Entries : entry[e] = "acked" => entry'[e] = "acked"
  BY DEF Ack, IInv, TypeOK
<1>4. Moves(c, l) /\ CurrentSet' /\ Subsides
  BY <1>1, <1>2, <1>3, GotoMoves, GotoSubsides DEF IInv
<1>5. StageInv'
  BY <1>1, <1>2, <1>4, PlainMove
<1>. QED BY <1>2, <1>4, <1>5 DEF IInv, AtMostOneOrder

LEMMA InitInv == Init => IInv
<1>. SUFFICES ASSUME Init PROVE IInv
  OBVIOUS
<1>1. TypeOK
  BY TypeInit
<1>2. /\ CurrentSet /\ ClaimIsLock /\ StatusAtStage /\ NotYetOrdered
  BY DEF Init, CurrentSet, ClaimIsLock, StatusAtStage, NotYetOrdered, Holding
<1>3. OrderHasIntent /\ AtMostOneOrder
  BY DEF Init, OrderHasIntent, AtMostOneOrder
<1>. QED BY <1>1, <1>2, <1>3 DEF IInv

\* A step of the tick that only moves it.
LEMMA PlainInv ==
  ASSUME IInv, NEW c \in Consumers, NEW l \in Stages, Goto(c, l),
         UNCHANGED <<entry, claimed, status, orders>>,
         \/ l \in {"loop", "idle"}
         \/ pc[c] = "handle" /\ l \in {"skip", "intent", "fail"}
         \/ pc[c] = "reconcile" /\ l = "confirm"
  PROVE  CurrentSet' /\ StageInv' /\ AtMostOneOrder'
<1>1. Moves(c, l) /\ CurrentSet' /\ Subsides
  BY GotoMoves, GotoSubsides DEF IInv
<1>2. StageInv'
  BY <1>1, PlainMove
<1>. QED BY <1>1, <1>2 DEF IInv, AtMostOneOrder

\* The loop head takes the next fetched signal and looks at its status.
LEMMA TakeInv ==
  ASSUME IInv, NEW c \in Consumers, NEW e \in todo[c], TakeNext(c, e)
  PROVE  CurrentSet' /\ StageInv' /\ AtMostOneOrder'
<1>. USE DEF IInv, Sig
<1>1. e \in Entries /\ e # NoEntry /\ SignalOf[e] \in Signals
  BY SignalAssumption DEF TypeOK, Entries, NoEntry
<1>2. /\ pc[c] = "loop" /\ cur[c] = NoEntry
      /\ UNCHANGED <<entry, claimed, status, orders>>
  BY DEF TakeNext, CurrentSet
<1>3. \A d \in Consumers : d # c => pc'[d] = pc[d] /\ cur'[d] = cur[d]
  BY DEF TakeNext, TypeOK
<1>4. \/ pc'[c] = "loop" /\ cur'[c] = NoEntry
      \/ /\ cur'[c] = e
         /\ \/ pc'[c] = "ackTerminal" /\ status[SignalOf[e]] \in Decided
            \/ pc'[c] = "reconcile" /\ status[SignalOf[e]] = "SUBMITTING"
            \/ pc'[c] = "claim" /\ status[SignalOf[e]] = "none"
  <2>1. status[SignalOf[e]] \in Statuses
    BY <1>1 DEF TypeOK
  <2>. QED BY <1>2, <2>1 DEF TakeNext, TypeOK, Statuses, Decided
<1>5. CurrentSet'
  BY <1>1, <1>3, <1>4 DEF CurrentSet
<1>6. ClaimIsLock'
  BY <1>2, <1>3, <1>4 DEF ClaimIsLock, Holding
<1>7. StatusAtStage'
  <2>1. ASSUME NEW d \in Consumers, d # c PROVE UNCHANGED <<pc[d], cur[d], status>>
    BY <1>2, <1>3, <2>1
  <2>2. CASE pc'[c] = "loop"
    BY <1>2, <2>1, <2>2 DEF StatusAtStage
  <2>3. CASE cur'[c] = e
    <3>1. pc'[c] = "ackTerminal" => status'[SignalOf[cur'[c]]] \in Decided
      BY <1>2, <1>4, <2>3
    <3>2. pc'[c] = "reconcile" => status'[SignalOf[cur'[c]]] \in Recorded
      BY <1>2, <1>4, <2>3 DEF Recorded
    <3>3. pc'[c] \in {"loop", "ackTerminal", "reconcile", "claim"}
      BY <1>4
    <3>. QED BY <2>1, <3>1, <3>2, <3>3 DEF StatusAtStage
  <2>. QED BY <1>4, <2>2, <2>3
<1>8. NotYetOrdered'
  BY <1>2, <1>3, <1>4 DEF NotYetOrdered
<1>9. \A s \in Signals : Live(s)' => Live(s)
  <2>1. \A d \in Consumers : \A s \in Signals : WorksOn(d, s)' => WorksOn(d, s)
    BY <1>1, <1>3, <1>4 DEF TakeNext, WorksOn, TypeOK
  <2>. QED BY <1>2, <2>1 DEF Live
<1>10. OrderHasIntent' /\ AtMostOneOrder'
  BY <1>2, <1>9 DEF OrderHasIntent, AtMostOneOrder
<1>. QED BY <1>5, <1>6, <1>7, <1>8, <1>10 DEF StageInv

\* A signal that a consumer works on without a recorded status has no order.
LEMMA UnrecordedUnordered ==
  ASSUME IInv, NEW c \in Consumers, cur[c] # NoEntry,
         status[SignalOf[cur[c]]] \notin Recorded
  PROVE  orders[SignalOf[cur[c]]] = 0
<1>1. SignalOf[cur[c]] \in Signals
  BY SigType DEF IInv, Sig
<1>2. Live(SignalOf[cur[c]])
  BY DEF Live, WorksOn
<1>3. orders[SignalOf[cur[c]]] \in Nat
  BY <1>1 DEF IInv, TypeOK
<1>. QED BY <1>1, <1>2, <1>3 DEF IInv, OrderHasIntent, Recorded

\* SET NX, whichever of its outcomes it has.
LEMMA ClaimInv ==
  ASSUME IInv, NEW c \in Consumers, Claim(c)
  PROVE  CurrentSet' /\ StageInv' /\ AtMostOneOrder'
<1>. USE DEF IInv, Sig
<1>1. PICK l \in {"claimed", "loop", "idle"} :
        /\ Goto(c, l)
        /\ \/ ~claimed[Sig(c)] /\ claimed' = [claimed EXCEPT ![Sig(c)] = TRUE]
           \/ l # "claimed" /\ UNCHANGED claimed
           \/ l = "idle" /\ claimed' = [claimed EXCEPT ![Sig(c)] = TRUE]
  BY DEF Claim
<1>2. pc[c] = "claim" /\ UNCHANGED <<entry, status, orders>>
  BY DEF Claim
<1>3. Moves(c, l) /\ CurrentSet' /\ Subsides
  BY <1>1, <1>2, GotoMoves, GotoSubsides DEF Stages, Holding
<1>4. CASE UNCHANGED claimed
  <2>1. l \in {"loop", "idle"} \/ (l = "claimed" /\ ~claimed[Sig(c)] /\ claimed'[Sig(c)])
    <3>1. cur[c] # NoEntry
      BY <1>2 DEF CurrentSet
    <3>2. SignalOf[cur[c]] \in Signals
      BY <3>1, SigType
    <3>3. CASE l = "claimed"
      <4>1. ~claimed[Sig(c)] /\ claimed' = [claimed EXCEPT ![Sig(c)] = TRUE]
        BY <1>1, <3>3
      <4>. QED BY <3>2, <3>3, <4>1 DEF TypeOK
    <3>. QED BY <3>3
  <2>2. l \in {"loop", "idle"}
    BY <1>4, <2>1
  <2>3. StageInv'
    BY <1>2, <1>3, <1>4, <2>2, PlainMove DEF Stages
  <2>. QED BY <1>2, <1>3, <2>3 DEF AtMostOneOrder
<1>5. CASE claimed' = [claimed EXCEPT ![Sig(c)] = TRUE]
           /\ (l \in {"loop", "idle"} \/ ~claimed[Sig(c)])
  <2>1. cur[c] # NoEntry
    BY <1>2 DEF CurrentSet
  <2>2. SignalOf[cur[c]] \in Signals
    BY <2>1, SigType
  <2>3. \A s \in Signals : claimed'[s] = IF s = SignalOf[cur[c]] THEN TRUE ELSE claimed[s]
    BY <1>5 DEF TypeOK
  <2>4. l = "claimed" => /\ status[SignalOf[cur[c]]] = "none"
                         /\ orders[SignalOf[cur[c]]] = 0
    BY <1>2, <1>5, <2>1, UnrecordedUnordered DEF ClaimIsLock, Recorded
  <2>. USE DEF Moves, Holding, Recorded, Decided
  <2>5. ClaimIsLock'
    <3>1. \A s \in Signals : claimed[s] => claimed'[s]
      BY <2>3
    <3>2. \A d \in Consumers : d # c /\ pc'[d] \in Holding =>
            /\ pc[d] \in Holding /\ cur'[d] = cur[d] /\ claimed[SignalOf[cur[d]]]
            /\ SignalOf[cur[d]] \in Signals
      BY <1>3 DEF ClaimIsLock
    <3>3. pc'[c] \in Holding => l = "claimed" /\ ~claimed[SignalOf[cur[c]]] /\ cur'[c] = cur[c]
      BY <1>3, <1>5
    <3>4. \A d, f \in Consumers :
            pc'[d] \in Holding /\ pc'[f] \in Holding /\ SignalOf[cur'[d]] = SignalOf[cur'[f]] => d = f
      BY <3>2, <3>3 DEF ClaimIsLock
    <3>5. \A d \in Consumers : pc'[d] \in Holding => claimed'[SignalOf[cur'[d]]]
      BY <2>2, <2>3, <3>1, <3>2, <3>3
    <3>6. \A d \in Consumers : pc'[d] = "claim" =>
            claimed'[SignalOf[cur'[d]]] \/ status'[SignalOf[cur'[d]]] = "none"
      BY <1>2, <1>3, <3>1 DEF ClaimIsLock
    <3>. QED BY <3>4, <3>5, <3>6 DEF ClaimIsLock
  <2>6. StatusAtStage'
    BY <1>2, <1>3, <2>4 DEF StatusAtStage
  <2>7. NotYetOrdered'
    BY <1>2, <1>3, <2>4 DEF NotYetOrdered
  <2>8. OrderHasIntent' /\ AtMostOneOrder'
    BY <1>2, <1>3 DEF OrderHasIntent, Subsides, AtMostOneOrder
  <2>. QED BY <1>3, <2>5, <2>6, <2>7, <2>8 DEF StageInv
<1>. QED BY <1>1, <1>4, <1>5

\* passorder: the only step that adds an order.
LEMMA SubmitInv ==
  ASSUME IInv, NEW c \in Consumers, Submit(c)
  PROVE  CurrentSet' /\ StageInv' /\ AtMostOneOrder'
<1>. USE DEF IInv, Sig
<1>1. PICK l \in {"record", "loop"} :
        /\ Goto(c, l)
        /\ \/ orders' = [orders EXCEPT ![Sig(c)] = @ + 1]
           \/ l = "loop" /\ UNCHANGED orders
  BY DEF Submit
<1>2. pc[c] = "submit" /\ UNCHANGED <<entry, claimed, status>>
  BY DEF Submit
<1>3. Moves(c, l) /\ CurrentSet' /\ Subsides
  BY <1>1, <1>2, GotoMoves, GotoSubsides DEF Stages, Holding
<1>4. CASE l = "loop" /\ UNCHANGED orders
  <2>1. StageInv'
    BY <1>2, <1>3, <1>4, PlainMove DEF Stages
  <2>. QED BY <1>3, <1>4, <2>1 DEF AtMostOneOrder
<1>5. CASE orders' = [orders EXCEPT ![Sig(c)] = @ + 1]
  <2>1. cur[c] # NoEntry
    BY <1>2 DEF CurrentSet
  <2>2. SignalOf[cur[c]] \in Signals
    BY <2>1, SigType
  <2>3. orders[SignalOf[cur[c]]] = 0 /\ status[SignalOf[cur[c]]] \in Recorded
    BY <1>2 DEF NotYetOrdered, StatusAtStage
  <2>4. \A s \in Signals : orders'[s] = IF s = SignalOf[cur[c]] THEN 1 ELSE orders[s]
    BY <1>5, <2>2, <2>3 DEF TypeOK
  <2>. USE DEF Moves, Holding, Decided
  <2>5. ClaimIsLock'
    BY <1>1, <1>2, <1>3 DEF ClaimIsLock
  <2>6. StatusAtStage'
    BY <1>1, <1>2, <1>3, <2>3 DEF StatusAtStage
  <2>7. NotYetOrdered'
    BY <1>1, <1>2, <1>3, <2>2, <2>4 DEF NotYetOrdered, ClaimIsLock
  <2>8. OrderHasIntent'
    BY <1>2, <1>3, <2>3, <2>4 DEF OrderHasIntent, Subsides, Recorded
  <2>9. AtMostOneOrder'
    BY <2>4 DEF AtMostOneOrder
  <2>. QED BY <1>3, <2>5, <2>6, <2>7, <2>8, <2>9 DEF StageInv
<1>. QED BY <1>1, <1>4, <1>5

\* A fetch, whether it returns or raises, delivers entries nobody has acked.
LEMMA FetchInv ==
  ASSUME IInv, NEW c \in Consumers, NEW R \in SUBSET Entries, NEW N \in SUBSET Entries,
         Fetch(c, R, N) \/ FetchPoisoned(c, R, N) \/ FetchFails(c, R, N)
  PROVE  CurrentSet' /\ StageInv' /\ AtMostOneOrder'
<1>. USE DEF IInv, Sig
<1>1. UNCHANGED <<cur, claimed, status, orders>>
  BY DEF Fetch, FetchPoisoned, FetchFails
<1>2. \A d \in Consumers : pc'[d] = pc[d] \/ (pc[d] = "idle" /\ pc'[d] = "loop")
  BY DEF Fetch, FetchPoisoned, FetchFails, TypeOK
<1>3. \A e \in Entries : entry'[e] # "acked" => entry[e] # "acked"
  BY DEF Fetch, FetchPoisoned, FetchFails, Deliver, Returned, NextNew
<1>4. \A d \in Consumers : \A e \in todo'[d] : e \in todo[d] \/ (e \in Entries /\ entry[e] # "acked")
  <2>1. \A e \in R \union N : e \in Entries /\ entry[e] # "acked"
    BY DEF Fetch, FetchPoisoned, FetchFails, Returned, NextNew
  <2>2. \A d \in Consumers : todo'[d] = todo[d] \/ todo'[d] = R \union N
    BY DEF Fetch, FetchPoisoned, FetchFails, TypeOK
  <2>. QED BY <2>1, <2>2
<1>5. CurrentSet'
  BY <1>1, <1>2 DEF CurrentSet
<1>6. ClaimIsLock'
  BY <1>1, <1>2 DEF ClaimIsLock, Holding
<1>7. StatusAtStage' /\ NotYetOrdered'
  BY <1>1, <1>2 DEF StatusAtStage, NotYetOrdered
<1>8. \A s \in Signals : Live(s)' => Live(s)
  <2>1. ASSUME NEW s \in Signals, NEW d \in Consumers, WorksOn(d, s)' PROVE Live(s)
    BY <1>1, <1>4, <2>1 DEF WorksOn, Live
  <2>. QED BY <1>3, <2>1 DEF Live
<1>9. OrderHasIntent' /\ AtMostOneOrder'
  BY <1>1, <1>8 DEF OrderHasIntent, AtMostOneOrder
<1>. QED BY <1>5, <1>6, <1>7, <1>9 DEF StageInv

\* A claim key at its TTL: nobody relies on it any more.
LEMMA ClaimExpiresInv ==
  ASSUME IInv, NEW s \in Signals, ClaimExpires(s)
  PROVE  CurrentSet' /\ StageInv' /\ AtMostOneOrder'
<1>. USE DEF IInv, Sig, ClaimExpires
<1>1. \A d \in Consumers : pc[d] \in Holding \union {"claim"} => cur[d] # NoEntry
  BY DEF CurrentSet, Holding
<1>2. \A t \in Signals : t # s => claimed'[t] = claimed[t]
  BY DEF TypeOK
<1>3. \A d \in Consumers : cur[d] # NoEntry => SignalOf[cur[d]] \in Signals
  BY SigType
<1>4. ClaimIsLock'
  BY <1>1, <1>2, <1>3 DEF ClaimIsLock
<1>5. CurrentSet' /\ StatusAtStage' /\ NotYetOrdered'
  BY DEF CurrentSet, StatusAtStage, NotYetOrdered
<1>6. OrderHasIntent' /\ AtMostOneOrder'
  BY DEF OrderHasIntent, AtMostOneOrder, Live, WorksOn
<1>. QED BY <1>4, <1>5, <1>6 DEF StageInv

\* A status at its TTL: nobody can act on the signal any more.
LEMMA StatusExpiresInv ==
  ASSUME IInv, ~EntriesOutliveStatus, NEW s \in Signals, StatusExpires(s)
  PROVE  CurrentSet' /\ StageInv' /\ AtMostOneOrder'
<1>. USE DEF IInv, Sig, StatusExpires
<1>1. \A t \in Signals : status'[t] = IF t = s THEN "none" ELSE status[t]
  BY DEF TypeOK
<1>2. \A d \in Consumers : cur[d] # NoEntry => SignalOf[cur[d]] \in Signals \ {s}
  <2>1. ASSUME NEW d \in Consumers, cur[d] # NoEntry, SignalOf[cur[d]] = s PROVE FALSE
    BY <2>1 DEF Live, WorksOn
  <2>. QED BY <2>1, SigType
<1>3. \A d \in Consumers : cur[d] # NoEntry \/ pc[d] \in {"idle", "loop"}
  BY DEF CurrentSet
<1>4. ClaimIsLock'
  BY <1>1, <1>2, <1>3 DEF ClaimIsLock
<1>5. StatusAtStage'
  BY <1>1, <1>2, <1>3 DEF StatusAtStage
<1>6. CurrentSet' /\ NotYetOrdered'
  BY DEF CurrentSet, NotYetOrdered
<1>7. OrderHasIntent' /\ AtMostOneOrder'
  <2>1. \A t \in Signals : Live(t)' <=> Live(t)
    BY DEF Live, WorksOn
  <2>. QED BY <1>1, <2>1 DEF OrderHasIntent, AtMostOneOrder
<1>. QED BY <1>4, <1>5, <1>6, <1>7 DEF StageInv

LEMMA ProcessInv ==
  ASSUME IInv, NEW c \in Consumers, Process(c)
  PROVE  CurrentSet' /\ StageInv' /\ AtMostOneOrder'
<1>. USE DEF Stages, Holding
<1>1. ASSUME NEW e \in todo[c], TakeNext(c, e) PROVE CurrentSet' /\ StageInv' /\ AtMostOneOrder'
  BY <1>1, TakeInv
<1>2. CASE EndTick(c)
  BY <1>2, PlainInv DEF EndTick
<1>3. CASE ReconcileUnknown(c) \/ ReconcileFound(c)
  BY <1>3, PlainInv DEF ReconcileUnknown, ReconcileFound
<1>4. CASE Handle(c)
  BY <1>4, PlainInv DEF Handle
<1>5. CASE Claim(c)
  BY <1>5, ClaimInv
<1>6. CASE Submit(c)
  BY <1>6, SubmitInv
<1>7. CASE AckTerminal(c) \/ AckSkipped(c) \/ AckSubmitted(c) \/ AckFailed(c)
  BY <1>7, AckInv DEF AckTerminal, AckSkipped, AckSubmitted, AckFailed
<1>8. CASE Confirm(c) \/ WriteClaimed(c) \/ Skip(c) \/ WriteIntent(c) \/ Record(c) \/ Fail(c)
  BY <1>8, WriteInv DEF Confirm, WriteClaimed, Skip, WriteIntent, Record, Fail, Statuses, Decided
<1>. QED BY <1>1, <1>2, <1>3, <1>4, <1>5, <1>6, <1>7, <1>8 DEF Process

LEMMA NextInv == ~EntriesOutliveStatus /\ IInv /\ [Next]_vars => IInv'
<1>. SUFFICES ASSUME ~EntriesOutliveStatus, IInv, [Next]_vars PROVE IInv'
  OBVIOUS
<1>1. TypeOK'
  BY TypeNext DEF IInv
<1>2. ASSUME NEW c \in Consumers, Process(c) PROVE CurrentSet' /\ StageInv' /\ AtMostOneOrder'
  BY <1>2, ProcessInv
<1>3. ASSUME NEW c \in Consumers, NEW R \in SUBSET Entries, NEW N \in SUBSET Entries,
             Fetch(c, R, N) \/ FetchPoisoned(c, R, N) \/ FetchFails(c, R, N)
      PROVE CurrentSet' /\ StageInv' /\ AtMostOneOrder'
  BY <1>3, FetchInv
<1>4. ASSUME NEW c \in Consumers, GetStatusFails(c) \/ Crash(c)
      PROVE CurrentSet' /\ StageInv' /\ AtMostOneOrder'
  BY <1>4, PlainInv DEF GetStatusFails, Crash, Stages
<1>5. ASSUME NEW s \in Signals, ClaimExpires(s) \/ StatusExpires(s)
      PROVE CurrentSet' /\ StageInv' /\ AtMostOneOrder'
  BY <1>5, ClaimExpiresInv, StatusExpiresInv
<1>6. ASSUME UNCHANGED vars PROVE CurrentSet' /\ StageInv' /\ AtMostOneOrder'
  <2>1. CurrentSet' /\ AtMostOneOrder'
    BY <1>6 DEF vars, IInv, CurrentSet, AtMostOneOrder
  <2>2. ClaimIsLock' /\ StatusAtStage' /\ NotYetOrdered'
    BY <1>6 DEF vars, IInv, ClaimIsLock, StatusAtStage, NotYetOrdered, Sig
  <2>3. OrderHasIntent'
    BY <1>6 DEF vars, IInv, OrderHasIntent, Live, WorksOn
  <2>. QED BY <2>1, <2>2, <2>3 DEF StageInv
<1>7. CurrentSet' /\ StageInv' /\ AtMostOneOrder'
  BY <1>2, <1>3, <1>4, <1>5, <1>6 DEF Next, Read
<1>. QED BY <1>1, <1>7 DEF IInv, StageInv

\* The inductive invariant holds of every run in which no entry stays pending
\* longer than the TTL of its signal's status.
THEOREM Invariant == ~EntriesOutliveStatus => (Spec => []IInv)
<1>. SUFFICES ASSUME ~EntriesOutliveStatus PROVE Spec => []IInv
  OBVIOUS
<1>1. IInv /\ [Next]_vars => IInv'
  BY NextInv
<1>. QED BY <1>1, InitInv, PTL DEF Spec

\* passorder is called at most once for a signal (tick and _handle_signal of
\* app.py), for every number of consumers, entries, faults and duplicate pushes.
THEOREM OrderedOnce == ~EntriesOutliveStatus => (Spec => []AtMostOneOrder)
<1>1. IInv => AtMostOneOrder
  BY DEF IInv
<1>. QED BY <1>1, Invariant, PTL

\* An order of a signal that can still be delivered has its durable intent
\* (mark_submitting of state_redis.py).
THEOREM IntentKept == ~EntriesOutliveStatus => (Spec => []OrderHasIntent)
<1>1. IInv => OrderHasIntent
  BY DEF IInv
<1>. QED BY <1>1, Invariant, PTL

\* No step of the inductive invariant acknowledges an undecided signal.
LEMMA AckStep ==
  ASSUME IInv, [Next]_vars, NEW e \in Entries, entry[e] # "acked", entry'[e] = "acked"
  PROVE  status[SignalOf[e]] \in Decided
<1>1. PICK c \in Consumers : AckTerminal(c) \/ AckSkipped(c) \/ AckSubmitted(c) \/ AckFailed(c)
  <2>1. ASSUME NEW c \in Consumers, NEW R \in SUBSET Entries, NEW N \in SUBSET Entries,
               Fetch(c, R, N) \/ FetchPoisoned(c, R, N) \/ FetchFails(c, R, N)
        PROVE FALSE
    BY <2>1 DEF Fetch, FetchPoisoned, FetchFails, Deliver
  <2>2. ASSUME NEW c \in Consumers, NEW f \in todo[c], TakeNext(c, f) PROVE FALSE
    BY <2>2 DEF TakeNext
  <2>3. ASSUME NEW c \in Consumers,
               \/ EndTick(c) \/ ReconcileUnknown(c) \/ ReconcileFound(c) \/ Handle(c)
               \/ Claim(c) \/ Submit(c) \/ GetStatusFails(c) \/ Crash(c)
               \/ Confirm(c) \/ WriteClaimed(c) \/ Skip(c) \/ WriteIntent(c)
               \/ Record(c) \/ Fail(c)
        PROVE FALSE
    BY <2>3 DEF EndTick, ReconcileUnknown, ReconcileFound, Handle, Claim, Submit,
                GetStatusFails, Crash, Confirm, WriteClaimed, Skip, WriteIntent,
                Record, Fail, Write
  <2>4. ASSUME NEW s \in Signals, ClaimExpires(s) \/ StatusExpires(s) PROVE FALSE
    BY <2>4 DEF ClaimExpires, StatusExpires
  <2>5. ~ UNCHANGED vars
    BY DEF vars
  <2>. QED BY <2>1, <2>2, <2>3, <2>4, <2>5 DEF Next, Read, Process
<1>2. SignalOf[e] = SignalOf[cur[c]]
  BY <1>1 DEF AckTerminal, AckSkipped, AckSubmitted, AckFailed, Ack, Sig, IInv, TypeOK
<1>3. pc[c] \in {"ackTerminal", "ackSkipped", "ackSubmitted", "ackFailed"}
  BY <1>1 DEF AckTerminal, AckSkipped, AckSubmitted, AckFailed, Ack
<1>. QED BY <1>2, <1>3 DEF IInv, StatusAtStage, Sig, Decided

\* An entry is acknowledged only once the status of its signal is decided
\* (the returns without ack of _handle_signal and of the reconciliation).
THEOREM AcksAreDecided == ~EntriesOutliveStatus => (Spec => AckOnlyDecided)
<1>1. IInv /\ [Next]_vars =>
        [\A e \in Entries : entry'[e] = "acked" /\ entry[e] # "acked" =>
           status[SignalOf[e]] \in Decided]_vars
  BY AckStep
<1>. QED BY <1>1, Invariant, PTL DEF Spec, AckOnlyDecided

----------------------------------------------------------------------------
(* What a status says of the broker *)

\* No two signals have the same remark and intent (the remark is the signal's id
\* unless its producer chose one), so the order a reconciliation finds is its own.
IntentsDiffer == \A s, t \in Signals : Intent[s] = Intent[t] => s = t

\* Whoever is about to record a submission knows that the broker has the order.
OrderSeen == \A c \in Consumers : pc[c] \in {"confirm", "record"} => orders[Sig(c)] > 0

TruthInv == OrderSeen /\ StatusIsTruthful

\* A step that sends nothing, writes no status but an expired one, and brings
\* nobody closer to recording a submission.
LEMMA QuietTruth ==
  ASSUME TruthInv, UNCHANGED orders,
         \A s \in Signals : status'[s] = status[s] \/ status'[s] = "none",
         \A d \in Consumers : pc'[d] \in {"confirm", "record"} =>
           pc'[d] = pc[d] /\ cur'[d] = cur[d]
  PROVE  TruthInv'
BY DEF TruthInv, OrderSeen, StatusIsTruthful, Sig

\* A status write, whichever of its outcomes it has: what it says was seen.
LEMMA WriteTruth ==
  ASSUME IInv, TruthInv, NEW c \in Consumers, NEW from, NEW st \in Statuses,
         NEW to \in Stages, NEW onError \in Stages, Write(c, from, st, to, onError),
         from \notin {"idle", "loop"},
         to \notin {"confirm", "record"}, onError \notin {"confirm", "record"},
         st \in {"SUBMITTED", "CONFIRMED"} => from \in {"confirm", "record"},
         st = "SKIPPED" => from = "skip"
  PROVE  TruthInv'
<1>1. PICK l \in {to, onError} : Goto(c, l)
  BY DEF Write
<1>2. pc[c] = from /\ UNCHANGED orders
  BY DEF Write
<1>3. Sig(c) \in Signals
  BY <1>2, SigType DEF IInv, CurrentSet
<1>4. \A s \in Signals : status'[s] = status[s] \/ (s = Sig(c) /\ status'[s] = st)
  <2>1. UNCHANGED status \/ status' = [status EXCEPT ![Sig(c)] = st]
    BY DEF Write
  <2>. QED BY <1>3, <2>1 DEF IInv, TypeOK
<1>5. OrderSeen'
  <2>1. pc'[c] \notin {"confirm", "record"}
    BY <1>1, GotoSelf DEF IInv
  <2>2. \A d \in Consumers : d # c => pc'[d] = pc[d] /\ cur'[d] = cur[d]
    BY <1>1, GotoOthers DEF IInv
  <2>. QED BY <1>2, <2>1, <2>2 DEF TruthInv, OrderSeen, Sig
<1>6. st \in {"SUBMITTED", "CONFIRMED"} => orders[Sig(c)] > 0
  BY <1>2 DEF TruthInv, OrderSeen
<1>7. st = "SKIPPED" => orders[Sig(c)] = 0
  BY <1>2 DEF IInv, NotYetOrdered
<1>8. StatusIsTruthful'
  BY <1>2, <1>4, <1>6, <1>7 DEF TruthInv, StatusIsTruthful
<1>. QED BY <1>5, <1>8 DEF TruthInv

\* passorder: whoever goes on to record it sent one, and the status of a signal
\* that is sent is not SKIPPED.
LEMMA SubmitTruth ==
  ASSUME IInv, TruthInv, NEW c \in Consumers, Submit(c)
  PROVE  TruthInv'
<1>1. PICK l \in {"record", "loop"} :
        /\ Goto(c, l)
        /\ \/ orders' = [orders EXCEPT ![Sig(c)] = @ + 1]
           \/ l = "loop" /\ UNCHANGED orders
  BY DEF Submit
<1>2. pc[c] = "submit" /\ UNCHANGED status
  BY DEF Submit
<1>3. /\ Sig(c) \in Signals /\ cur[c] # NoEntry /\ status[Sig(c)] # "SKIPPED"
  BY <1>2, SigType DEF IInv, CurrentSet, StatusAtStage, Recorded
<1>4. \A d \in Consumers : d # c => pc'[d] = pc[d] /\ cur'[d] = cur[d]
  BY <1>1, GotoOthers DEF IInv
<1>5. pc'[c] = l /\ (l = "record" => cur'[c] = cur[c])
  BY <1>1, GotoSelf DEF IInv
<1>6. CASE l = "loop" /\ UNCHANGED orders
  BY <1>2, <1>4, <1>5, <1>6, QuietTruth
<1>7. CASE orders' = [orders EXCEPT ![Sig(c)] = @ + 1]
  <2>1. \A s \in Signals : /\ orders[s] \in Nat
                           /\ orders'[s] = IF s = Sig(c) THEN orders[s] + 1 ELSE orders[s]
    BY <1>3, <1>7 DEF IInv, TypeOK
  <2>2. \A d \in Consumers : pc[d] \in {"confirm", "record"} => Sig(d) \in Signals
    BY SigType DEF IInv, CurrentSet
  <2>3. OrderSeen'
    BY <1>3, <1>4, <1>5, <2>1, <2>2 DEF TruthInv, OrderSeen, Sig
  <2>4. StatusIsTruthful'
    BY <1>2, <1>3, <2>1 DEF TruthInv, StatusIsTruthful
  <2>. QED BY <2>3, <2>4 DEF TruthInv
<1>. QED BY <1>1, <1>6, <1>7

\* The strict lookup finds an order with the intent of the signal, so its own.
LEMMA FoundTruth ==
  ASSUME IntentsDiffer, IInv, TruthInv, NEW c \in Consumers, ReconcileFound(c)
  PROVE  TruthInv'
<1>1. pc[c] = "reconcile" /\ Goto(c, "confirm") /\ UNCHANGED <<status, orders>>
  BY DEF ReconcileFound
<1>2. Sig(c) \in Signals
  BY <1>1, SigType DEF IInv, CurrentSet
<1>3. orders[Sig(c)] > 0
  BY <1>2 DEF ReconcileFound, IntentsDiffer
<1>4. OrderSeen'
  BY <1>1, <1>3, GotoOthers, GotoSelf DEF IInv, TruthInv, OrderSeen, Sig
<1>. QED BY <1>1, <1>4 DEF TruthInv, StatusIsTruthful

\* Going on to a stage that records nothing.
LEMMA GotoTruth ==
  ASSUME IInv, TruthInv, NEW c \in Consumers, NEW l, l \notin {"confirm", "record"},
         Goto(c, l), UNCHANGED <<status, orders>>
  PROVE  TruthInv'
<1>1. \A d \in Consumers : pc'[d] \in {"confirm", "record"} =>
        pc'[d] = pc[d] /\ cur'[d] = cur[d]
  BY GotoOthers, GotoSelf DEF IInv
<1>. QED BY <1>1, QuietTruth

LEMMA TruthNext ==
  ASSUME IntentsDiffer, IInv, TruthInv, [Next]_vars
  PROVE  TruthInv'
<1>1. ASSUME NEW c \in Consumers, NEW R \in SUBSET Entries, NEW N \in SUBSET Entries,
             Fetch(c, R, N) \/ FetchPoisoned(c, R, N) \/ FetchFails(c, R, N)
      PROVE  TruthInv'
  <2>1. UNCHANGED <<cur, status, orders>>
    BY <1>1 DEF Fetch, FetchPoisoned, FetchFails
  <2>2. \A d \in Consumers : pc'[d] = pc[d] \/ pc'[d] = "loop"
    BY <1>1 DEF Fetch, FetchPoisoned, FetchFails, IInv, TypeOK
  <2>. QED BY <2>1, <2>2, QuietTruth
<1>2. ASSUME NEW c \in Consumers, NEW e \in todo[c], TakeNext(c, e) PROVE TruthInv'
  <2>1. UNCHANGED <<status, orders>>
    BY <1>2 DEF TakeNext
  <2>2. pc[c] = "loop" /\ pc'[c] \notin {"confirm", "record"}
    BY <1>2 DEF TakeNext, IInv, TypeOK
  <2>3. \A d \in Consumers : d # c => pc'[d] = pc[d] /\ cur'[d] = cur[d]
    BY <1>2 DEF TakeNext, IInv, TypeOK
  <2>. QED BY <2>1, <2>2, <2>3, QuietTruth
<1>3. ASSUME NEW c \in Consumers, EndTick(c) \/ ReconcileUnknown(c) \/ Handle(c) \/ Claim(c)
             \/ GetStatusFails(c) \/ Crash(c)
      PROVE  TruthInv'
  <2>1. PICK l \in {"idle", "loop", "skip", "fail", "intent", "claimed"} : Goto(c, l)
    BY <1>3 DEF EndTick, ReconcileUnknown, Handle, Claim, GetStatusFails, Crash
  <2>2. UNCHANGED <<status, orders>>
    BY <1>3 DEF EndTick, ReconcileUnknown, Handle, Claim, GetStatusFails, Crash
  <2>. QED BY <2>1, <2>2, GotoTruth
<1>4. ASSUME NEW c \in Consumers,
             AckTerminal(c) \/ AckSkipped(c) \/ AckSubmitted(c) \/ AckFailed(c)
      PROVE  TruthInv'
  <2>1. PICK l \in {"idle", "loop", "fail"} : Goto(c, l)
    BY <1>4 DEF AckTerminal, AckSkipped, AckSubmitted, AckFailed, Ack
  <2>2. UNCHANGED <<status, orders>>
    BY <1>4 DEF AckTerminal, AckSkipped, AckSubmitted, AckFailed, Ack
  <2>. QED BY <2>1, <2>2, GotoTruth
<1>5. ASSUME NEW c \in Consumers, Confirm(c) \/ WriteClaimed(c) \/ Skip(c) \/ WriteIntent(c)
             \/ Record(c) \/ Fail(c)
      PROVE  TruthInv'
  BY <1>5, WriteTruth DEF Confirm, WriteClaimed, Skip, WriteIntent, Record, Fail,
                          Statuses, Decided, Stages, Holding
<1>6. ASSUME NEW s \in Signals, ClaimExpires(s) \/ StatusExpires(s) PROVE TruthInv'
  <2>1. UNCHANGED <<pc, cur, orders>>
    BY <1>6 DEF ClaimExpires, StatusExpires
  <2>2. \A t \in Signals : status'[t] = status[t] \/ status'[t] = "none"
    BY <1>6 DEF ClaimExpires, StatusExpires, IInv, TypeOK
  <2>. QED BY <2>1, <2>2, QuietTruth
<1>7. CASE UNCHANGED vars
  BY <1>7, QuietTruth DEF vars
<1>. QED BY <1>1, <1>2, <1>3, <1>4, <1>5, <1>6, <1>7, SubmitTruth, FoundTruth
         DEF Next, Read, Process

\* SUBMITTED and CONFIRMED are written only for an order the broker has and
\* SKIPPED only for a signal that was not sent, and an order of a deliverable
\* signal keeps its intent (mark_submitting and mark_confirmed of state_redis.py).
THEOREM StatusesAreTrue ==
  ~EntriesOutliveStatus /\ IntentsDiffer => (Spec => []StatusAccounts)
<1>. SUFFICES ASSUME ~EntriesOutliveStatus, IntentsDiffer PROVE Spec => []StatusAccounts
  OBVIOUS
<1>1. Init => TruthInv
  BY DEF Init, TruthInv, OrderSeen, StatusIsTruthful
<1>2. IInv /\ TruthInv /\ [Next]_vars => TruthInv'
  BY TruthNext
<1>3. IInv /\ TruthInv => StatusAccounts
  BY DEF IInv, TruthInv, StatusAccounts
<1>. QED BY <1>1, <1>2, <1>3, Invariant, PTL DEF Spec

=============================================================================
