----------------------------- MODULE ExecPublish -----------------------------
(***************************************************************************)
(* From the terminal's order and deal callbacks to execution events        *)
(* (bigqmt_signal_trader_strategy.py, exec_events.py).  The terminal tells *)
(* buy from sell in three fields that contradict each other: the direction *)
(* of a stock order is always 48, the offset of a future is open or close, *)
(* and only orders carry an operation type.  The event's action is what    *)
(* consumers act on.                                                       *)
(*                                                                         *)
(* Codes are the terminal's numbers; a code as text is its number.         *)
(***************************************************************************)
EXTENDS Naturals, FiniteSets

VARIABLES
  callback,   \* the object on its way, NoCallback before and after
  channel,    \* what was published last: [kind, action], or NoEvent
  about       \* the object it was made of

execVars == <<callback, channel, about>>

NoCode == 0
Buys  == {48, 23}
Sells == {49, 51, 52, 24}
Known(code) == code \in Buys \union Sells

NoCallback == [kind |-> "none"]
NoEvent == [kind |-> "none", action |-> ""]

\* The objects of the terminal, as the comments of exec_events.py report them:
\* side and effect are what the order really is.
CodeOf(side) == IF side = "BUY" THEN 48 ELSE 49
TerminalObjects ==
  {[kind |-> k, product |-> p, side |-> s, effect |-> e,
    direction |-> IF p = "stock" THEN 48 ELSE CodeOf(s),
    offset |-> IF p = "stock" THEN CodeOf(s) ELSE e,
    op |-> IF k = "trade" THEN NoCode ELSE IF s = "BUY" THEN 23 ELSE 24] :
     k \in {"order", "trade"}, p \in {"stock", "future"}, s \in {"BUY", "SELL"},
     e \in {48, 49, 51, 52}}

\* Mutant: the two fields disagree, the direction is believed.
BelieveDirection(d, o, op) == IF op \in Sells \/ op \in Buys THEN d ELSE o

\* _conflict_resolve: d is a buy and o a sell, or d a sell and o a buy, or
\* both are sells by different codes.
Arbitrate(d, o, op) ==
  LET same == IF op \in Buys THEN Buys ELSE Sells
  IN IF ~Known(op) THEN o
     ELSE IF d \in same THEN d ELSE IF o \in same THEN o ELSE op

\* _extract_direction: of two known codes the one they agree on or the
\* arbitrated one, else the known one, else the operation type.
ExtractDirection(d, o, op) ==
  IF Known(d) /\ Known(o) THEN IF d = o THEN d ELSE Arbitrate(d, o, op)
  ELSE IF Known(d) THEN d
  ELSE IF Known(o) THEN o
  ELSE IF o = NoCode /\ d # NoCode THEN d
  ELSE op

ActionOf(code) == IF code \in Buys THEN "BUY" ELSE IF code \in Sells THEN "SELL" ELSE ""

ExecInit == callback = NoCallback /\ channel = NoEvent /\ about = NoCallback

\* A callback with an order, a deal, or an object some fields of which the
\* terminal left out.
OnOrder ==
  /\ callback = NoCallback
  /\ \E x \in TerminalObjects, d \in BOOLEAN, o \in BOOLEAN, t \in BOOLEAN :
       callback' = [x EXCEPT !.direction = IF d THEN @ ELSE NoCode,
                             !.offset = IF o THEN @ ELSE NoCode,
                             !.op = IF t THEN @ ELSE NoCode]
  /\ UNCHANGED <<channel, about>>

\* _publish_exec_event: normalised and published, over ZMQ or Redis.
PublishExecEvent ==
  /\ callback # NoCallback
  /\ LET code == ExtractDirection(callback.direction, callback.offset, callback.op)
     IN channel' = [kind |-> callback.kind, action |-> ActionOf(code)]
  /\ about' = callback
  /\ callback' = NoCallback

\* Publishing is off, there is no account, or it failed: the error is printed
\* and the terminal goes on.
PublishFails ==
  /\ callback # NoCallback
  /\ callback' = NoCallback
  /\ UNCHANGED <<channel, about>>

ExecNext == OnOrder \/ PublishExecEvent \/ PublishFails

-----------------------------------------------------------------------------
\* A published event says BUY or SELL as the order really is, when it was made of
\*   - an object of a stock that has its offset;
\*   - an object of a future that has its direction, unless its offset is
\*     another code and it has no operation type to arbitrate;
\*   - an object that has nothing but its operation type.
\* The rest the code gets wrong, and no field it reads could tell: a stock object
\* without an offset is BUY, as its stuck direction says; a deal of a future has
\* no operation type, so that a sell that opens is BUY; and without a direction
\* the offset of a future is believed even against the operation type.
FieldsTellSide(x) ==
  \/ x.product = "stock" /\ x.offset # NoCode
  \/ x.product = "future" /\ x.direction # NoCode /\ (x.offset \in {NoCode, x.direction} \/ x.op # NoCode)
  \/ x.direction = NoCode /\ x.offset = NoCode /\ x.op # NoCode

ActionIsSide == about # NoCallback /\ FieldsTellSide(about) => channel.action = about.side

=============================================================================
