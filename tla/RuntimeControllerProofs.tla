---------------------- MODULE RuntimeControllerProofs ----------------------
(***************************************************************************)
(* A transport loss is never forgotten, one runtime is served at a time    *)
(* and its clients follow it (runtime_controller.py), for any number of    *)
(* runtimes, reports, failing connects and closes that raise.              *)
(***************************************************************************)
EXTENDS RuntimeController, TLAPS

ConnectStages == {"none", "factory", "disconnect", "undo", "closed", "downloads"}

\* As much of the type of the attempt and the recovery task as is needed here.
AttemptType ==
  /\ connect = [at |-> connect.at, rt |-> connect.rt, config |-> connect.config]
  /\ connect.at \in ConnectStages /\ connect.config \in BOOLEAN
  /\ task \in {"none"} \union Running \union Ended
  /\ configError \in BOOLEAN /\ closed \in BOOLEAN

\* A factory that is done has a runtime to install.
FactoryType ==
  /\ factory = [at |-> factory.at, rt |-> factory.rt, previous |-> factory.previous]
  /\ made \in Nat
  /\ factory.at \in {"published", "done"} => factory.rt # None

\* The attempt that installed a runtime holds the lock while the download jobs
\* start, so no report takes the runtime away before it ends as a success.
InstalledKept == connect.at = "downloads" /\ ~closed => installed # None

RecoveryInv == AttemptType /\ FactoryType /\ InstalledKept /\ RecoveryUnderway

LEMMA RecoveryInit == Init => RecoveryInv
<1>. SUFFICES ASSUME Init PROVE RecoveryInv
  OBVIOUS
<1>1. connect = [at |-> "none", rt |-> None, config |-> FALSE]
  BY DEF Init, Free
<1>2. task = "start" /\ configError = FALSE /\ closed = FALSE
  BY DEF Init
<1>3. AttemptType
  BY <1>1, <1>2 DEF AttemptType, ConnectStages, Running
<1>4. FactoryType
  BY DEF Init, FactoryType
<1>. QED BY <1>1, <1>2, <1>3, <1>4 DEF RecoveryInv, InstalledKept, RecoveryUnderway,
     Attended, Running

\* The factory's thread runs, or nothing of it changes.
FactoryStep == Publish \/ Return \/ FactoryRaises \/ FactoryLeaves \/ UNCHANGED <<factory, made>>

LEMMA FactoryKeeps == ASSUME FactoryType, FactoryStep PROVE FactoryType'
<1>1. CASE Publish
  <2>1. /\ factory' = [at |-> "published", rt |-> made + 1, previous |-> slot]
        /\ made' = made + 1
    BY <1>1 DEF Publish
  <2>. QED BY <2>1 DEF FactoryType, None
<1>2. CASE Return
  BY <1>2 DEF Return, FactoryType
<1>3. CASE FactoryRaises
  BY <1>3 DEF FactoryRaises, FactoryType, process
<1>4. CASE UNCHANGED <<factory, made>>
  BY <1>4 DEF FactoryType
<1>5. CASE FactoryLeaves
  BY <1>5 DEF FactoryLeaves, FactoryType
<1>. QED BY <1>1, <1>2, <1>3, <1>4, <1>5 DEF FactoryStep

\* Releasing the lock keeps the invariant when an attempt that says so left a
\* runtime and one that gives up left the configuration error.
LEMMA EndAttemptKeeps ==
  ASSUME RecoveryInv, NEW ok \in BOOLEAN, NEW config \in BOOLEAN,
         EndAttempt(ok, config), UNCHANGED <<installed, closed, lost, factory, made>>,
         ok /\ ~closed => installed # None,
         configError' \in BOOLEAN, config => configError'
  PROVE  RecoveryInv'
BY DEF RecoveryInv, EndAttempt, Free, AttemptType, FactoryType, InstalledKept,
       RecoveryUnderway, Attended, Running, ConnectStages

\* What the invariant speaks of, beside the factory.
Attempt == <<connect, task, installed, closed, configError, lost>>

LEMMA AsideKeeps ==
  ASSUME RecoveryInv, FactoryStep, UNCHANGED Attempt, raised \subseteq raised'
  PROVE  RecoveryInv'
BY FactoryKeeps DEF RecoveryInv, Attempt, AttemptType, InstalledKept, RecoveryUnderway, Attended

LEMMA ConnectingKeeps == ASSUME RecoveryInv, Connecting PROVE RecoveryInv'
<1>1. CASE Begin
  <2>1. /\ factory' = [at |-> "run", rt |-> None, previous |-> None] /\ made' = made
        /\ connect' = [at |-> "factory", rt |-> None, config |-> FALSE]
        /\ task' \in {task, "attempt"} /\ (task = "start" \/ task' = "attempt")
        /\ UNCHANGED <<installed, closed, configError, lost>>
    BY <1>1 DEF Begin, Free, controller, process
  <2>. QED BY <2>1 DEF RecoveryInv, AttemptType, FactoryType, InstalledKept,
                       RecoveryUnderway, Attended, Running, ConnectStages
<1>2. CASE ConnectFails
  <2>1. EndAttempt(FALSE, factory.at = "config") /\ configError' = (factory.at = "config")
        /\ UNCHANGED <<installed, closed, lost, factory, made>>
    BY <1>2 DEF ConnectFails, process
  <2>. QED BY <2>1, EndAttemptKeeps
<1>3. CASE ConnectClosed
  <2>1. /\ connect' = [connect EXCEPT !.at = "closed", !.rt = Awaited(factory.rt)]
        /\ UNCHANGED <<configError, closed, factory, made, task>>
    BY <1>3 DEF ConnectClosed, process
  <2>2. closed'
    BY <1>3 DEF ConnectClosed
  <2>3. AttemptType'
    BY <2>1 DEF RecoveryInv, AttemptType, ConnectStages
  <2>. QED BY <2>1, <2>2, <2>3 DEF RecoveryInv, FactoryType, InstalledKept, RecoveryUnderway
<1>4. CASE Install
  <2>1. /\ installed' = factory.rt /\ factory.rt # None
        /\ connect' = [connect EXCEPT !.at = "downloads"]
        /\ configError' = FALSE /\ UNCHANGED <<closed, factory, made, task>>
    BY <1>4 DEF Install, process, RecoveryInv, FactoryType
  <2>2. AttemptType'
    BY <2>1 DEF RecoveryInv, AttemptType, ConnectStages
  <2>. QED BY <2>1, <2>2 DEF RecoveryInv, FactoryType, InstalledKept, RecoveryUnderway
<1>5. CASE DownloadsStarted
  <2>1. /\ EndAttempt(TRUE, FALSE) /\ (~closed => installed # None)
        /\ UNCHANGED <<installed, closed, lost, factory, made>>
    BY <1>5 DEF DownloadsStarted, controller, process, RecoveryInv, InstalledKept
  <2>2. configError' \in BOOLEAN
    BY <1>5 DEF DownloadsStarted, controller, RecoveryInv, AttemptType
  <2>. QED BY <2>1, <2>2, EndAttemptKeeps
<1>6. CASE ManagerRaises
  BY <1>6 DEF ManagerRaises, controller, process, RecoveryInv, AttemptType, FactoryType,
              InstalledKept, RecoveryUnderway, Attended, ConnectStages
<1>7. CASE Undo
  <2>1. /\ connect' = [connect EXCEPT !.at = "undo"]
        /\ UNCHANGED <<installed, closed, configError, lost, factory, made, raised, task>>
    BY <1>7 DEF Undo, process
  <2>. QED BY <2>1 DEF RecoveryInv, AttemptType, FactoryType, InstalledKept,
                       RecoveryUnderway, Attended, ConnectStages
<1>8. CASE Undone
  <2>1. /\ EndAttempt(FALSE, connect.config) /\ configError' = connect.config
        /\ connect.config \in BOOLEAN
        /\ UNCHANGED <<installed, closed, lost, factory, made>>
    BY <1>8 DEF Undone, process, RecoveryInv, AttemptType
  <2>. QED BY <2>1, EndAttemptKeeps
<1>9. CASE ClosedUndone
  <2>1. /\ EndAttempt(FALSE, FALSE) /\ configError' \in BOOLEAN
        /\ UNCHANGED <<installed, closed, lost, factory, made>>
    BY <1>9 DEF ClosedUndone, process, RecoveryInv, AttemptType
  <2>. QED BY <2>1, EndAttemptKeeps
<1>10. CASE UndoRaises
  <2>1. /\ connect' = [at |-> "none", rt |-> None, config |-> FALSE]
        /\ connect.rt \in raised
        /\ \/ task' = "none" /\ closed' = TRUE
           \/ task' = "died" /\ closed' = closed
        /\ UNCHANGED <<installed, configError, lost, factory, made, raised>>
    BY <1>10 DEF UndoRaises, Free, process
  <2>. QED BY <2>1 DEF RecoveryInv, AttemptType, FactoryType, InstalledKept,
                       RecoveryUnderway, Ended, ConnectStages
<1>. QED BY <1>1, <1>2, <1>3, <1>4, <1>5, <1>6, <1>7, <1>8, <1>9, <1>10 DEF Connecting

LEMMA LosingKeeps == ASSUME RecoveryInv, Losing PROVE RecoveryInv'
<1>. UNCHANGED <<connect, closed, configError, factory, made, raised>>
  BY DEF Losing, Handle, DisposeLost, LossHandled, controller, process
<1>. USE DEF RecoveryInv, AttemptType, FactoryType, InstalledKept, RecoveryUnderway, Attended
<1>1. CASE Handle
  <2>1. /\ connect.at = "none" /\ UNCHANGED task
        /\ UNCHANGED <<installed, lost>> \/ lost' # {}
    BY <1>1 DEF Handle
  <2>. QED BY <2>1
<1>2. CASE DisposeLost
  <2>1. lost' # {} /\ UNCHANGED <<task, installed>>
    BY <1>2 DEF DisposeLost
  <2>. QED BY <2>1
<1>3. CASE LossHandled
  <2>1. /\ UNCHANGED installed
        /\ EnsureRecovery \/ (raised # {} /\ task' = IF task = "none" THEN "unstarted" ELSE task)
    BY <1>3 DEF LossHandled, controller
  <2>2. CASE EnsureRecovery
    BY <2>1, <2>2 DEF EnsureRecovery, Running
  <2>3. CASE raised # {} /\ task' = IF task = "none" THEN "unstarted" ELSE task
    BY <2>1, <2>3 DEF Running, Ended
  <2>. QED BY <2>1, <2>2, <2>3
<1>. QED BY <1>1, <1>2, <1>3 DEF Losing

LEMMA CloseKeeps == ASSUME RecoveryInv, Close PROVE RecoveryInv'
<1>1. closed' = TRUE /\ UNCHANGED <<configError, factory, made>>
  BY DEF Close, process
<1>2. UNCHANGED <<task, connect>> \/ (task' = "none" /\ connect' = Free)
  BY DEF Close
<1>3. AttemptType'
  <2>1. CASE UNCHANGED <<task, connect>>
    BY <1>1, <2>1 DEF RecoveryInv, AttemptType, ConnectStages
  <2>2. CASE task' = "none" /\ connect' = Free
    BY <1>1, <2>2 DEF RecoveryInv, AttemptType, ConnectStages, Free
  <2>. QED BY <1>2, <2>1, <2>2
<1>4. FactoryType'
  BY <1>1 DEF RecoveryInv, FactoryType
<1>5. InstalledKept' /\ RecoveryUnderway'
  BY <1>1 DEF InstalledKept, RecoveryUnderway, Attended
<1>. QED BY <1>3, <1>4, <1>5 DEF RecoveryInv

LEMMA RecoveryNext == RecoveryInv /\ [Next]_vars => RecoveryInv'
<1>. SUFFICES ASSUME RecoveryInv, [Next]_vars PROVE RecoveryInv'
  OBVIOUS
<1>1. CASE Closing
  <2>1. UNCHANGED Attempt /\ UNCHANGED <<factory, made, raised>>
    BY <1>1 DEF Closing, CloseDisposed, Drain, DrainTimeout, Drained, DisposeLate,
                Attempt, controller, process
  <2>. QED BY <2>1, AsideKeeps DEF FactoryStep
<1>2. CASE ThreadStep
  <2>1. UNCHANGED Attempt /\ FactoryStep
    BY <1>2 DEF ThreadStep, FactoryStep, Publish, Return, FactoryRaises, FactoryLeaves, Dispose,
                Reset, Attempt, controller
  <2>2. raised \subseteq raised'
    BY <1>2 DEF ThreadStep, Publish, Return, FactoryRaises, FactoryLeaves, Dispose, Reset, process
  <2>. QED BY <2>1, <2>2, AsideKeeps
<1>3. CASE Report \/ Subscribe \/ Subscribed \/ Unsubscribe \/ UNCHANGED vars
  <2>1. UNCHANGED Attempt /\ UNCHANGED <<factory, made, raised>>
    BY <1>3 DEF Report, Subscribe, Subscribed, Unsubscribe, Attempt, controller, process, vars
  <2>. QED BY <2>1, AsideKeeps DEF FactoryStep
<1>. QED
  BY <1>1, <1>2, <1>3, ConnectingKeeps, LosingKeeps, CloseKeeps
  DEF Next, LoopStep, Environment, Loop

\* Whatever the order of reports, failing connects, disposals and the end of the
\* recovery task, the controller never ends up without a runtime and without a
\* task or handler that will bring one (_ensure_recovery and its callers), but
\* after a dispose that raised.
THEOREM NeverForgotten == Spec => []RecoveryUnderway
<1>1. RecoveryInv => RecoveryUnderway
  BY DEF RecoveryInv
<1>. QED BY <1>1, RecoveryInit, RecoveryNext, PTL DEF Spec

-----------------------------------------------------------------------------
\* One runtime at a time: that the installed runtime is the only one with
\* sockets is not inductive alone.  An attempt runs only while nothing is
\* installed, a loss is being handled only while nothing is installed and no
\* attempt runs, and only the attempt has a factory under way.
AttemptAlone ==
  /\ installed # None => connect.at = "downloads" \/ (connect.at = "none" /\ task = "none")
  /\ lost # {} => connect.at = "none" /\ task = "none" /\ installed = None
  /\ \A l, k \in lost : l = k
  /\ connect.at # "none" => task \in {"start", "attempt"}
  /\ connect.at # "factory" => factory.at \notin {"run", "published"}

\* The slot has the newest runtime; another one is open only until the factory
\* that replaced it returns, or because its close raised.
SlotAlone ==
  /\ slot \in 0 .. made /\ disposing \subseteq 1 .. made /\ open \subseteq 1 .. made
  /\ connect.at = "disconnect" => connect.rt \in 1 .. made
  /\ \A l \in lost : l.rt \in 1 .. made
  /\ open \subseteq {slot} \union stuck \union (IF factory.at = "published" THEN {factory.previous} ELSE {})
  /\ installed # None => slot = installed /\ installed \in open \ disposing
  /\ connect.at = "factory" /\ factory.at \in {"published", "done"} =>
       /\ slot = factory.rt /\ factory.rt \in open \ disposing
       /\ factory.at = "published" => factory.previous # factory.rt

\* After close() nothing is installed, and only close() resets the slot.
OwnInv ==
  /\ RecoveryInv
  /\ closed => installed = None
  /\ ~closed => closing.at = "no" /\ ~late
  /\ ~closed => AttemptAlone /\ SlotAlone

LEMMA OwnInit == Init => OwnInv
<1>. SUFFICES ASSUME Init PROVE OwnInv
  OBVIOUS
<1>1. RecoveryInv
  BY RecoveryInit
<1>2. /\ installed = None /\ lost = {} /\ connect.at = "none" /\ factory.at = "idle"
      /\ slot = None /\ made = 0 /\ open = {} /\ stuck = {} /\ disposing = {}
      /\ closing.at = "no" /\ late = FALSE
  BY DEF Init, Free
<1>3. AttemptAlone /\ SlotAlone
  BY <1>2 DEF AttemptAlone, SlotAlone, None
<1>. QED BY <1>1, <1>2, <1>3 DEF OwnInv

\* Steps that touch neither the attempt, the loss nor the slot.
Owned == <<installed, connect, task, lost, factory, slot, made, open, stuck, disposing,
           closed, closing, late>>

LEMMA OwnConnecting == ASSUME OwnInv, ~closed, Connecting, RecoveryInv' PROVE OwnInv'
<1>. USE DEF OwnInv
<1>3. AttemptAlone /\ SlotAlone /\ AttemptType /\ FactoryType
  BY DEF RecoveryInv
<1>0. CASE UndoRaises
  <2>1. /\ connect.at = "undo" /\ connect'.at = "none"
        /\ \/ closed' = TRUE
           \/ closed' = FALSE /\ UNCHANGED closing
        /\ UNCHANGED <<installed, lost, factory, disposing, late, slot, made, open, stuck>>
    BY <1>0 DEF UndoRaises, Free, process
  <2>2. installed = None /\ lost = {} /\ factory.at \notin {"run", "published"}
    BY <2>1, <1>3 DEF AttemptAlone
  <2>3. AttemptAlone' /\ SlotAlone'
    BY <1>3, <2>1, <2>2 DEF AttemptAlone, SlotAlone
  <2>. QED BY <2>1, <2>2, <2>3
<1>. SUFFICES ASSUME ~UndoRaises PROVE OwnInv'
  BY <1>0
<1>1. UNCHANGED <<closed, closing, late, lost, slot, made, open, stuck>>
  BY DEF Connecting, Begin, ConnectFails, ConnectClosed, ClosedUndone, Install, DownloadsStarted,
         ManagerRaises, Undo, Undone, controller, process
<1>2. SUFFICES AttemptAlone' /\ SlotAlone'
  BY <1>1
<1>4. CASE Begin
  <2>1. /\ connect.at = "none" /\ task \in {"start", "sleep"}
        /\ connect' = [Free EXCEPT !.at = "factory"]
        /\ factory' = [at |-> "run", rt |-> None, previous |-> None]
        /\ task' \in {"start", "attempt"}
        /\ UNCHANGED <<installed, disposing>>
    BY <1>4 DEF Begin, controller
  <2>2. connect'.at = "factory" /\ factory'.at = "run"
    BY <2>1 DEF Free
  <2>3. installed = None /\ lost = {} /\ factory.at # "published"
    BY <2>1, <1>3 DEF AttemptAlone
  <2>. QED BY <1>1, <1>3, <2>1, <2>2, <2>3 DEF AttemptAlone, SlotAlone
<1>5. CASE ConnectFails
  <2>1. /\ connect.at = "factory" /\ factory.at \in {"failed", "config"}
        /\ connect' = Free /\ UNCHANGED <<installed, disposing, factory>>
    BY <1>5 DEF ConnectFails, EndAttempt
  <2>2. connect'.at = "none"
    BY <2>1 DEF Free
  <2>3. installed = None /\ lost = {}
    BY <2>1, <1>3 DEF AttemptAlone
  <2>. QED BY <1>1, <1>3, <2>1, <2>2, <2>3 DEF AttemptAlone, SlotAlone
<1>6. CASE ConnectClosed
  BY <1>6 DEF ConnectClosed
<1>7. CASE Install
  <2>1. /\ connect.at = "factory" /\ factory.at = "done"
        /\ installed' = factory.rt /\ connect' = [connect EXCEPT !.at = "downloads"]
        /\ UNCHANGED <<disposing, factory, task>>
    BY <1>7 DEF Install
  <2>2. connect'.at = "downloads"
    BY <2>1, <1>3 DEF AttemptType
  <2>3. lost = {} /\ slot = factory.rt /\ factory.rt \in open \ disposing
    BY <2>1, <1>3 DEF AttemptAlone, SlotAlone
  <2>. QED BY <1>1, <1>3, <2>1, <2>2, <2>3 DEF AttemptAlone, SlotAlone
<1>8. CASE DownloadsStarted
  <2>1. /\ connect.at = "downloads" /\ connect' = Free /\ task' = "none"
        /\ UNCHANGED <<installed, disposing, factory>>
    BY <1>8 DEF DownloadsStarted, EndAttempt, controller
  <2>2. connect'.at = "none"
    BY <2>1 DEF Free
  <2>3. lost = {} /\ factory.at \notin {"run", "published"}
    BY <2>1, <1>3 DEF AttemptAlone
  <2>. QED BY <1>1, <1>3, <2>1, <2>2, <2>3 DEF AttemptAlone, SlotAlone
<1>9. CASE ManagerRaises
  <2>1. /\ connect.at = "factory" /\ factory.at = "done"
        /\ connect'.at = "disconnect" /\ connect'.rt = factory.rt
        /\ UNCHANGED <<installed, disposing, factory, task>>
    BY <1>9 DEF ManagerRaises, controller
  <2>2. installed = None /\ lost = {}
    BY <2>1, <1>3 DEF AttemptAlone
  <2>. QED BY <1>1, <1>3, <2>1, <2>2 DEF AttemptAlone, SlotAlone
<1>10. CASE Undo
  <2>1. /\ connect.at = "disconnect" /\ connect' = [connect EXCEPT !.at = "undo"]
        /\ disposing' = disposing \/ disposing' = disposing \union {connect.rt}
        /\ UNCHANGED <<installed, factory, task>>
    BY <1>10 DEF Undo, StartDispose
  <2>2. connect'.at = "undo"
    BY <2>1, <1>3 DEF AttemptType
  <2>3. installed = None /\ lost = {} /\ factory.at \notin {"run", "published"}
    BY <2>1, <1>3 DEF AttemptAlone
  <2>. QED BY <1>1, <1>3, <2>1, <2>2, <2>3 DEF AttemptAlone, SlotAlone
<1>11. CASE Undone
  <2>1. /\ connect.at = "undo" /\ connect' = Free /\ UNCHANGED <<installed, disposing, factory>>
    BY <1>11 DEF Undone, EndAttempt
  <2>2. connect'.at = "none"
    BY <2>1 DEF Free
  <2>3. installed = None /\ lost = {} /\ factory.at \notin {"run", "published"}
    BY <2>1, <1>3 DEF AttemptAlone
  <2>. QED BY <1>1, <1>3, <2>1, <2>2, <2>3 DEF AttemptAlone, SlotAlone
<1>12. ~ClosedUndone
  BY DEF ClosedUndone
<1>. QED BY <1>4, <1>5, <1>6, <1>7, <1>8, <1>9, <1>10, <1>11, <1>12 DEF Connecting

LEMMA OwnLosing == ASSUME OwnInv, ~closed, Losing, RecoveryInv' PROVE OwnInv'
<1>. USE DEF OwnInv
<1>1. UNCHANGED <<closed, connect, closing, late, factory, slot, made, open, stuck>>
  BY DEF Losing, Handle, DisposeLost, LossHandled, controller, process
<1>2. SUFFICES AttemptAlone' /\ SlotAlone'
  BY <1>1
<1>3. AttemptAlone /\ SlotAlone
  OBVIOUS
<1>4. CASE Handle
  <2>1. CASE UNCHANGED <<installed, lost>>
    BY <1>1, <1>3, <1>4, <2>1 DEF Handle, AttemptAlone, SlotAlone
  <2>2. CASE /\ installed # None /\ installed' = None
             /\ lost' = lost \union {[at |-> "disconnect", rt |-> installed]}
    <3>1. connect.at = "none" /\ UNCHANGED <<task, disposing>>
      BY <1>4 DEF Handle
    <3>2. task = "none" /\ lost = {} /\ installed \in 1 .. made
      BY <2>2, <3>1, <1>3 DEF AttemptAlone, SlotAlone
    <3>. QED BY <1>1, <1>3, <2>2, <3>1, <3>2 DEF AttemptAlone, SlotAlone
  <2>. QED BY <1>4, <2>1, <2>2 DEF Handle
<1>5. CASE DisposeLost
  <2>1. PICK l \in lost : /\ StartDispose(l.rt)
                          /\ lost' = (lost \ {l}) \union {[l EXCEPT !.at = "dispose"]}
    BY <1>5 DEF DisposeLost
  <2>2. UNCHANGED <<installed, task>>
    BY <1>5 DEF DisposeLost
  <2>3. lost = {l} /\ installed = None /\ connect.at = "none" /\ task = "none" /\ l.rt \in 1 .. made
    BY <1>3 DEF AttemptAlone, SlotAlone
  <2>4. disposing' = disposing \/ disposing' = disposing \union {l.rt}
    BY <2>1 DEF StartDispose
  <2>5. lost' = {[l EXCEPT !.at = "dispose"]} /\ [l EXCEPT !.at = "dispose"].rt = l.rt
    BY <2>1, <2>3
  <2>. QED BY <1>1, <1>3, <2>2, <2>3, <2>4, <2>5 DEF AttemptAlone, SlotAlone
<1>6. CASE LossHandled
  <2>1. PICK l \in lost : lost' = lost \ {l}
    BY <1>6 DEF LossHandled
  <2>2. UNCHANGED <<installed, disposing>>
    BY <1>6 DEF LossHandled, controller
  <2>3. lost' = {} /\ installed = None
    BY <1>3, <2>1 DEF AttemptAlone
  <2>. QED BY <1>1, <1>3, <2>2, <2>3 DEF AttemptAlone, SlotAlone
<1>. QED BY <1>4, <1>5, <1>6 DEF Losing

LEMMA OwnThreads == ASSUME OwnInv, ~closed, ThreadStep, RecoveryInv' PROVE OwnInv'
<1>. USE DEF OwnInv
<1>1. /\ UNCHANGED <<installed, lost, closed, connect, late, task>>
  BY DEF ThreadStep, Publish, Return, FactoryRaises, FactoryLeaves, Dispose, Reset, controller
<1>2. ~Reset /\ UNCHANGED closing
  BY DEF ThreadStep, Publish, Return, FactoryRaises, FactoryLeaves, Dispose, Reset
<1>3. SUFFICES AttemptAlone' /\ SlotAlone'
  BY <1>1, <1>2
<1>4. AttemptAlone /\ SlotAlone /\ FactoryType /\ made \in Nat
  BY DEF RecoveryInv, FactoryType
<1>5. CASE Publish
  <2>1. /\ factory.at = "run" /\ made' = made + 1 /\ slot' = made + 1
        /\ open' = open \union {made + 1} /\ UNCHANGED <<disposing, stuck>>
        /\ factory' = [at |-> "published", rt |-> made + 1, previous |-> slot]
    BY <1>5 DEF Publish
  <2>2. connect.at = "factory" /\ installed = None /\ lost = {}
        /\ open \subseteq {slot} \union stuck
    BY <2>1, <1>4 DEF AttemptAlone, SlotAlone
  <2>3. slot \in Nat /\ slot # made + 1 /\ made + 1 \notin disposing
    BY <1>4 DEF SlotAlone
  <2>4. AttemptAlone'
    BY <1>1, <1>4, <2>1, <2>2 DEF AttemptAlone
  <2>5. /\ factory'.at = "published" /\ factory'.rt = made + 1 /\ factory'.previous = slot
        /\ disposing' = disposing /\ made' \in Nat /\ made' = made + 1
    BY <1>4, <2>1
  <2>6. /\ disposing \subseteq 1 .. made /\ open \subseteq 1 .. made
        /\ 1 .. made \subseteq 1 .. (made + 1) /\ made + 1 \in 1 .. (made + 1)
        /\ made + 1 \in 0 .. (made + 1)
    BY <1>4 DEF SlotAlone
  <2>7. SlotAlone'
    BY <1>1, <2>1, <2>2, <2>3, <2>5, <2>6 DEF SlotAlone
  <2>. QED BY <2>4, <2>7
<1>6. CASE Return
  <2>1. /\ factory.at = "published" /\ UNCHANGED <<disposing, slot, made>>
        /\ \/ /\ open' = open \ {factory.previous} /\ UNCHANGED stuck
              /\ factory' = [factory EXCEPT !.at = "done"]
           \/ /\ UNCHANGED open /\ stuck' = stuck \union {factory.previous}
              /\ factory' = [factory EXCEPT !.at = "failed"]
    BY <1>6 DEF Return, Closes, CloseRaises
  <2>2. factory'.at \in {"done", "failed"} /\ factory'.rt = factory.rt
    BY <2>1, <1>4 DEF FactoryType
  <2>3. connect.at = "factory" /\ installed = None
    BY <2>1, <1>4 DEF AttemptAlone
  <2>4. AttemptAlone'
    BY <1>1, <1>4, <2>2, <2>3 DEF AttemptAlone
  <2>5. open' \subseteq {slot} \union stuck'
    BY <1>4, <2>1 DEF SlotAlone
  <2>6. factory.rt \in open' \ disposing \/ factory'.at = "failed"
    BY <1>4, <2>1, <2>3 DEF SlotAlone, FactoryType
  <2>7. open' \subseteq open
    BY <2>1
  <2>8. SlotAlone'
    BY <1>1, <1>4, <2>1, <2>2, <2>3, <2>5, <2>6, <2>7 DEF SlotAlone
  <2>. QED BY <2>4, <2>8
<1>7. CASE FactoryRaises
  <2>1. /\ factory.at = "run" /\ UNCHANGED <<disposing, slot, made, open, stuck>>
        /\ \E result \in {"failed", "config"} : factory' = [factory EXCEPT !.at = result]
    BY <1>7 DEF FactoryRaises, process
  <2>2. factory'.at \in {"failed", "config"}
    BY <2>1, <1>4 DEF FactoryType
  <2>. QED BY <1>1, <1>4, <2>1, <2>2 DEF AttemptAlone, SlotAlone
<1>8. CASE Dispose
  <2>1. PICK r \in disposing : /\ disposing' = disposing \ {r}
                               /\ slot' = IF slot = r THEN None ELSE slot
                               /\ \/ open' = open \ {r} /\ UNCHANGED stuck
                                  \/ UNCHANGED open /\ stuck' = stuck \union {r}
    BY <1>8 DEF Dispose, Closes, CloseRaises
  <2>2. UNCHANGED <<factory, made>>
    BY <1>8 DEF Dispose
  <2>3. AttemptAlone'
    BY <1>1, <1>4, <2>2 DEF AttemptAlone
  <2>4. slot' \in 0 .. made /\ disposing' \subseteq disposing /\ open' \subseteq open
    BY <1>4, <2>1 DEF SlotAlone, None
  <2>8. open' \subseteq {slot'} \union stuck' \union
                      (IF factory.at = "published" THEN {factory.previous} ELSE {})
    <3>1. open \subseteq {slot} \union stuck \union
                       (IF factory.at = "published" THEN {factory.previous} ELSE {})
      BY <1>4 DEF SlotAlone
    <3>. QED BY <2>1, <3>1
  <2>5. \A q \in open \ disposing : q # r /\ q \in open' \ disposing'
    BY <2>1
  <2>6. slot # r => slot' = slot
    BY <2>1
  <2>7. SlotAlone'
    BY <1>1, <1>4, <2>2, <2>4, <2>5, <2>6, <2>8 DEF SlotAlone
  <2>. QED BY <2>3, <2>7
<1>9. CASE FactoryLeaves
  <2>1. /\ factory.at = "run" /\ made' = made + 1 /\ UNCHANGED <<disposing, slot>>
        /\ open' = open \union {made + 1} /\ stuck' = stuck \union {made + 1}
        /\ factory' = [factory EXCEPT !.at = "failed"]
    BY <1>9 DEF FactoryLeaves
  <2>2. factory'.at = "failed"
    BY <2>1, <1>4 DEF FactoryType
  <2>3. connect.at = "factory" /\ installed = None /\ lost = {} /\ open \subseteq {slot} \union stuck
    BY <2>1, <1>4 DEF AttemptAlone, SlotAlone
  <2>4. AttemptAlone'
    BY <1>1, <1>4, <2>2, <2>3 DEF AttemptAlone
  <2>5. /\ disposing \subseteq 1 .. made' /\ open' \subseteq 1 .. made' /\ slot \in 0 .. made'
        /\ open' \subseteq {slot} \union stuck'
    BY <1>4, <2>1, <2>3 DEF SlotAlone
  <2>6. SlotAlone'
    BY <1>1, <2>1, <2>2, <2>3, <2>5 DEF SlotAlone
  <2>. QED BY <2>4, <2>6
<1>. QED BY <1>2, <1>5, <1>6, <1>7, <1>8, <1>9 DEF ThreadStep

LEMMA OwnNext == OwnInv /\ [Next]_vars => OwnInv'
<1>. SUFFICES ASSUME OwnInv, [Next]_vars PROVE OwnInv'
  OBVIOUS
<1>0. RecoveryInv'
  BY RecoveryNext DEF OwnInv
<1>1. CASE closed
  <2>1. installed = None
    BY <1>1 DEF OwnInv
  <2>2. closed' /\ installed' = None
    <3>1. CASE Connecting
      BY <1>1, <2>1, <3>1 DEF Connecting, Begin, ConnectFails, ConnectClosed, ClosedUndone,
         Install, DownloadsStarted, ManagerRaises, Undo, Undone, UndoRaises, controller
    <3>2. CASE Losing
      BY <1>1, <2>1, <3>2 DEF Losing, Handle, DisposeLost, LossHandled, controller
    <3>3. CASE Closing
      BY <1>1, <2>1, <3>3 DEF Closing, CloseDisposed, Drain, DrainTimeout, Drained,
         DisposeLate, controller
    <3>4. CASE ThreadStep
      BY <1>1, <2>1, <3>4 DEF ThreadStep, Publish, Return, FactoryRaises, FactoryLeaves,
         Dispose, Reset, controller
    <3>5. CASE Close \/ Report \/ Subscribe \/ Subscribed \/ Unsubscribe \/ UNCHANGED vars
      BY <1>1, <2>1, <3>5 DEF Close, Report, Subscribe, Subscribed, Unsubscribe, controller, vars
    <3>. QED BY <3>1, <3>2, <3>3, <3>4, <3>5 DEF Next, LoopStep, Environment, Loop
  <2>. QED BY <1>0, <2>2 DEF OwnInv
<1>2. CASE ~closed
  <2>1. CASE Close
    <3>1. closed' /\ (installed' = None \/ (task = "died" /\ UNCHANGED installed))
      BY <2>1 DEF Close
    <3>2. task = "died" => installed = None
      BY <1>2 DEF OwnInv, AttemptAlone
    <3>. QED BY <1>0, <3>1, <3>2 DEF OwnInv
  <2>2. CASE Closing
    BY <1>2, <2>2 DEF OwnInv, Closing, CloseDisposed, Drain, DrainTimeout, Drained, DisposeLate
  <2>3. CASE Report \/ Subscribe \/ Subscribed \/ Unsubscribe \/ UNCHANGED vars
    <3>1. UNCHANGED Owned
      BY <2>3 DEF Report, Subscribe, Subscribed, Unsubscribe, controller, process, vars, Owned
    <3>. QED BY <1>0, <3>1 DEF OwnInv, Owned, AttemptAlone, SlotAlone
  <2>. QED BY <1>0, <1>2, <2>1, <2>2, <2>3, OwnConnecting, OwnLosing, OwnThreads
           DEF Next, LoopStep, Environment, Loop
<1>. QED BY <1>1, <1>2

\* Whatever losses, failing connects, closes and reused addresses come together,
\* the runtime the controller has installed is the one the module serves and the
\* only one that holds sockets (runtime_controller.py, _connect_once;
\* bigqmt.py, initialize_bigqmt_runtime).
THEOREM OneIsServed == Spec => []OneRuntime
<1>1. OwnInv => OneRuntime
  BY DEF OwnInv, SlotAlone, AttemptAlone, OneRuntime
<1>. QED BY <1>1, OwnInit, OwnNext, PTL DEF Spec

-----------------------------------------------------------------------------
\* What the runtimes are: one that something still has to dispose of or install
\* has been made, and a made one has an address.
ServedTypes ==
  /\ \A r \in 1 .. made : addr[r] \in Addrs
  /\ installed \in 0 .. made
  /\ connect.at = "disconnect" => connect.rt \in 1 .. made
  /\ \A l \in lost : l.rt \in 1 .. made
  /\ factory.at \in {"published", "done"} => factory.rt \in 1 .. made
  /\ reports <= reported

\* Can a runtime be made without another report or raising connect?
MayMake ==
  \/ factory.at = "run"
  \/ /\ ~closed /\ installed = None
     /\ ~(connect.at = "factory" /\ factory.at \in {"published", "done"})

\* Every runtime but the first is owed to a report that was handled or to an
\* account connect that raised.
Ledger == made + reports + (IF MayMake THEN 1 ELSE 0) <= 1 + reported + faults

\* The runtimes a client may be left on without having been told.
Passed == {None} \union skipped

\* Until the next attempt the slot has the runtime being disposed of, and one
\* that is still there when its disposal is over has been skipped.
SlotPassed ==
  /\ connect.at = "disconnect" => slot = connect.rt /\ connect.rt \notin handed
  /\ connect.at = "undo" => slot \in Passed \union ({connect.rt} \intersect disposing)
  /\ \A l \in lost :
       /\ l.at = "disconnect" => slot = l.rt /\ l.rt \notin handed
       /\ l.at = "dispose" => slot \in Passed \union ({l.rt} \intersect disposing)
  /\ connect.at = "factory" /\ factory.at \notin {"published", "done"} => slot \in Passed
  /\ connect.at = "none" /\ installed = None /\ lost = {} => slot \in Passed

\* The runtime in use has never been given to a dispose thread, and the clients
\* told at the start of an attempt are on no other runtime than the slot's.
StreamTold ==
  /\ handed \subseteq 1 .. made /\ disposing \subseteq handed
  /\ installed # None => ~needsHub /\ installed \notin handed
  /\ connect.at = "factory" /\ factory.at \in {"published", "done"} => factory.rt \notin handed
  /\ connect.at = "factory" /\ needsHub => stream \in Passed \union {slot}

ServedInv ==
  /\ OwnInv /\ TypeOK /\ ServedTypes /\ Ledger
  /\ ~closed => SlotPassed /\ StreamTold

LEMMA ServedInit == Init => ServedInv
<1>. SUFFICES ASSUME Init PROVE ServedInv
  OBVIOUS
<1>1. OwnInv
  BY OwnInit
<1>2. connect = [at |-> "none", rt |-> None, config |-> FALSE]
  BY DEF Init, Free
<1>3. TypeOK
  <2>1. MaxReports \in Nat /\ MaxFaults \in Nat /\ 0 \in 0 .. MaxReports /\ 0 \in 0 .. MaxFaults
    BY RuntimeAssumption
  <2>2. factory \in [at : {"idle", "run", "published", "done", "failed", "config"},
                    rt : Runtimes \union {None}, previous : Runtimes \union {None}]
    BY DEF Init
  <2>3. closing \in [at : {"no", "dispose", "drain", "drained", "reset", "done", "aborted"},
                    rt : Runtimes \union {None}]
    BY DEF Init
  <2>4. addr \in [Runtimes -> Addrs \union {NoAddr}]
    BY DEF Init
  <2>5. /\ installed = 0 /\ needsHub = FALSE /\ configError = FALSE /\ closed = FALSE
        /\ disposed = {} /\ task = "start" /\ inflight = FALSE
        /\ lost = {} /\ reports = 0 /\ reported = 0 /\ faults = 0
        /\ disposing = {} /\ late = FALSE /\ slot = 0 /\ made = 0 /\ open = {}
        /\ stuck = {} /\ raised = {} /\ stream = 0 /\ streamGen = NoAddr
        /\ asking = FALSE /\ handed = {} /\ skipped = {}
    BY DEF Init, None
  <2>. QED BY <1>2, <2>1, <2>2, <2>3, <2>4, <2>5 DEF TypeOK, Running, None
<1>4. ServedTypes /\ Ledger
  BY <1>2 DEF Init, ServedTypes, Ledger, MayMake, None
<1>5. SlotPassed /\ StreamTold
  BY <1>2 DEF Init, SlotPassed, StreamTold, Passed, None
<1>. QED BY <1>1, <1>3, <1>4, <1>5 DEF ServedInv

\* A runtime is made only while one may be, and an attempt begins, or begins
\* again, only where the last one could have made it or one was owed.
LEMMA LedgerKeeps == ASSUME ServedInv, [Next]_vars PROVE Ledger'
<1>. made \in Nat /\ reports \in Nat /\ reported \in Nat /\ faults \in Nat
  BY RuntimeAssumption DEF ServedInv, TypeOK, Runtimes
<1>1. /\ ~closed => AttemptAlone
      /\ connect = [at |-> connect.at, rt |-> connect.rt, config |-> connect.config]
      /\ factory = [at |-> factory.at, rt |-> factory.rt, previous |-> factory.previous]
      /\ factory.at \in {"published", "done"} => factory.rt # None
      /\ closed => installed = None
      /\ connect.at = "downloads" /\ ~closed => installed # None
  BY DEF ServedInv, OwnInv, RecoveryInv, AttemptType, FactoryType, InstalledKept
<1>2. Ledger
  BY DEF ServedInv
<1>3. CASE Begin
  <2>1. /\ connect.at = "none" /\ task \in {"start", "sleep"} /\ ~closed
        /\ connect'.at = "factory" /\ factory'.at = "run"
        /\ UNCHANGED <<closed, installed, made, reports, reported, faults>>
    BY <1>3 DEF Begin, Free, controller, process, bounds
  <2>. QED BY <1>1, <1>2, <2>1 DEF Ledger, MayMake, AttemptAlone
<1>4. CASE ConnectFails
  <2>1. /\ connect.at = "factory" /\ factory.at \in {"failed", "config"}
        /\ connect'.at = "none"
        /\ UNCHANGED <<factory, closed, installed, made, reports, reported, faults>>
    BY <1>4 DEF ConnectFails, EndAttempt, Free, process, bounds
  <2>. QED BY <1>2, <2>1 DEF Ledger, MayMake
<1>5. CASE ConnectClosed
  <2>1. closed /\ UNCHANGED <<factory, closed, made, reports, reported, faults>>
    BY <1>5 DEF ConnectClosed, process, bounds
  <2>. QED BY <1>2, <2>1 DEF Ledger, MayMake
<1>17. CASE ClosedUndone
  <2>1. closed /\ UNCHANGED <<factory, closed, made, reports, reported, faults>>
    BY <1>17 DEF ClosedUndone, process, bounds
  <2>. QED BY <1>2, <2>1 DEF Ledger, MayMake
<1>6. CASE Install
  <2>1. /\ factory.at = "done" /\ installed' = factory.rt
        /\ UNCHANGED <<factory, closed, made, reports, reported, faults>>
    BY <1>6 DEF Install, process, bounds
  <2>. QED BY <1>1, <1>2, <2>1 DEF Ledger, MayMake
<1>7. CASE DownloadsStarted
  <2>1. /\ connect.at = "downloads"
        /\ UNCHANGED <<factory, closed, installed, made, reports, reported, faults>>
    BY <1>7 DEF DownloadsStarted, controller, process, bounds
  <2>. QED BY <1>1, <1>2, <2>1 DEF Ledger, MayMake
<1>8. CASE ManagerRaises
  <2>1. /\ factory.at = "done" /\ faults' = faults + 1
        /\ UNCHANGED <<factory, closed, installed, made, reports, reported>>
    BY <1>8 DEF ManagerRaises, controller, process
  <2>. QED BY <1>2, <2>1 DEF Ledger, MayMake
<1>9. CASE Undo \/ Undone \/ UndoRaises
  <2>1. /\ connect.at \in {"disconnect", "undo"} /\ (closed => closed')
        /\ UNCHANGED <<factory, installed, made, reports, reported, faults>>
    BY <1>9 DEF Undo, Undone, UndoRaises, process, bounds
  <2>. QED BY <1>2, <2>1 DEF Ledger, MayMake
<1>10. CASE Handle
  <2>1. /\ reports' = reports - 1
        /\ UNCHANGED <<factory, closed, connect, made, reported, faults>>
    BY <1>10 DEF Handle, process, bounds
  <2>. QED BY <1>2, <2>1 DEF Ledger, MayMake
<1>11. CASE DisposeLost \/ LossHandled \/ Closing \/ Dispose \/ Reset \/ Subscribe
            \/ Subscribed \/ Unsubscribe \/ UNCHANGED vars
  <2>1. CASE DisposeLost \/ LossHandled \/ Dispose \/ Reset
    <3>1. /\ UNCHANGED <<factory, closed, installed, connect, made, reports, reported>>
          /\ faults' = faults \/ faults' = faults + 1
      BY <2>1 DEF DisposeLost, LossHandled, Dispose, Reset, Closes, CloseRaises,
                  controller, process, bounds
    <3>2. MayMake' <=> MayMake
      BY <3>1 DEF MayMake
    <3>3. 1 + reported + faults <= 1 + reported' + faults'
      BY <3>1
    <3>. QED BY <1>2, <3>1, <3>2, <3>3 DEF Ledger
  <2>2. CASE Closing
    <3>1. UNCHANGED <<factory, closed, installed, connect, made, reports, reported, faults>>
      BY <2>2 DEF Closing, CloseDisposed, Drain, DrainTimeout, Drained, DisposeLate,
                  controller, process, bounds
    <3>. QED BY <1>2, <3>1 DEF Ledger, MayMake
  <2>3. CASE Subscribe \/ Subscribed \/ Unsubscribe \/ UNCHANGED vars
    <3>1. UNCHANGED <<factory, closed, installed, connect, made, reports, reported, faults>>
      BY <2>3 DEF Subscribe, Subscribed, Unsubscribe, vars, controller, process, bounds
    <3>. QED BY <1>2, <3>1 DEF Ledger, MayMake
  <2>. QED BY <1>11, <2>1, <2>2, <2>3
<1>12. CASE Report
  <2>1. /\ reported' = reported + 1 /\ reports' = reports + 1
        /\ UNCHANGED <<factory, closed, installed, connect, made, faults>>
    BY <1>12 DEF Report, controller, process
  <2>. QED BY <1>2, <2>1 DEF Ledger, MayMake
<1>13. CASE Close
  <2>1. closed' /\ UNCHANGED <<factory, made, reports, reported, faults>>
    BY <1>13 DEF Close, process, bounds
  <2>. QED BY <1>2, <2>1 DEF Ledger, MayMake
<1>14. CASE Publish
  <2>1. /\ factory.at = "run" /\ made' = made + 1 /\ factory'.at = "published"
        /\ UNCHANGED <<closed, installed, connect, reports, reported, faults>>
    BY <1>14 DEF Publish, controller, bounds
  <2>2. ~closed => connect.at = "factory"
    BY <1>1, <2>1 DEF AttemptAlone
  <2>. QED BY <1>2, <2>1, <2>2 DEF Ledger, MayMake
<1>15. CASE Return
  <2>1. /\ factory.at = "published"
        /\ UNCHANGED <<closed, installed, connect, made, reports, reported>>
        /\ \/ factory'.at = "done" /\ UNCHANGED faults
           \/ factory'.at = "failed" /\ faults' = faults + 1
    BY <1>1, <1>15 DEF Return, Closes, CloseRaises, controller
  <2>2. ~closed => connect.at = "factory"
    BY <1>1, <2>1 DEF AttemptAlone
  <2>. QED BY <1>2, <2>1, <2>2 DEF Ledger, MayMake
<1>16. CASE FactoryRaises
  <2>1. /\ factory.at = "run" /\ factory'.at \in {"failed", "config"}
        /\ UNCHANGED <<closed, installed, connect, made, reports, reported, faults>>
    BY <1>1, <1>16 DEF FactoryRaises, controller, process, bounds
  <2>. QED BY <1>2, <2>1 DEF Ledger, MayMake
<1>18. CASE FactoryLeaves
  <2>1. /\ factory.at = "run" /\ factory'.at = "failed" /\ made' = made + 1 /\ faults' = faults + 1
        /\ UNCHANGED <<closed, installed, connect, reports, reported>>
    BY <1>1, <1>18 DEF FactoryLeaves, controller
  <2>. QED BY <1>2, <2>1 DEF Ledger, MayMake
<1>. QED BY <1>3, <1>4, <1>5, <1>6, <1>7, <1>8, <1>9, <1>10, <1>11, <1>12, <1>13, <1>14,
            <1>15, <1>16, <1>17, <1>18
         DEF Next, LoopStep, Environment, Loop, Connecting, Losing, ThreadStep

LEMMA StartDisposeTypes ==
  ASSUME TypeOK, ServedTypes, made \in Nat, NEW r \in 1 .. made, 1 .. made \subseteq Runtimes,
         StartDispose(r)
  PROVE  /\ disposed' \subseteq Addrs /\ disposing' \subseteq Runtimes
         /\ handed' \subseteq Runtimes /\ skipped' \subseteq Runtimes
BY ZenonT(30) DEF StartDispose, TypeOK, ServedTypes

LEMMA TypesKeep == ASSUME ServedInv, [Next]_vars PROVE TypeOK' /\ ServedTypes'
<1>. TypeOK /\ ServedTypes /\ Ledger /\ Ledger'
  BY LedgerKeeps DEF ServedInv
<1>. /\ made \in Nat /\ reports \in Nat /\ reported \in 0 .. MaxReports /\ faults \in 0 .. MaxFaults
     /\ 1 .. made \subseteq Runtimes /\ 0 .. made \subseteq Runtimes \union {None} /\ None = 0
     /\ MaxReports \in Nat /\ MaxFaults \in Nat
  BY RuntimeAssumption DEF TypeOK, Runtimes, None
<1>. closing.rt \in Runtimes \union {None} /\ connect.rt \in Runtimes \union {None}
  BY DEF TypeOK
<1>1. CASE Begin
  <2>1. /\ connect' = [at |-> "factory", rt |-> None, config |-> FALSE]
        /\ factory' = [at |-> "run", rt |-> None, previous |-> None]
        /\ UNCHANGED <<controller, lost, reports, bounds, closing, late, process,
                       disposing, handed, skipped, asking>>
    BY <1>1 DEF Begin, Free
  <2>2. inflight' \in BOOLEAN /\ task' \in {"none"} \union Running \union Ended
    BY <1>1 DEF Begin, TypeOK, Running
  <2>3. stream' \in Runtimes \union {None} /\ streamGen' \in Addrs \union {NoAddr}
    BY <1>1 DEF Begin, TypeOK
  <2>. QED BY <2>1, <2>2, <2>3 DEF TypeOK, ServedTypes, controller, process, bounds
<1>2. CASE ConnectFails
  <2>1. connect' = [at |-> "none", rt |-> None, config |-> FALSE]
    BY <1>2 DEF ConnectFails, EndAttempt, Free
  <2>2. configError' \in BOOLEAN /\ inflight' \in BOOLEAN
    BY <1>2 DEF ConnectFails
  <2>3. task' \in {"none"} \union Running \union Ended
    BY <1>2 DEF ConnectFails, EndAttempt, Running
  <2>. QED BY <1>2, <2>1, <2>2, <2>3 DEF ConnectFails, TypeOK, ServedTypes, process, bounds, hub
<1>3. CASE ConnectClosed
  <2>1. factory.rt \in 1 .. made /\ StartDispose(factory.rt)
    BY <1>3 DEF ConnectClosed, ServedTypes
  <2>2. /\ disposed' \subseteq Addrs /\ disposing' \subseteq Runtimes
        /\ handed' \subseteq Runtimes /\ skipped' \subseteq Runtimes
    BY <2>1, StartDisposeTypes
  <2>3. /\ connect' = [connect EXCEPT !.at = "closed", !.rt = Awaited(factory.rt)]
        /\ Awaited(factory.rt) \in Runtimes \union {None}
    BY <1>3, <2>1 DEF ConnectClosed, Awaited
  <2>4. /\ connect' \in [at : {"none", "factory", "disconnect", "undo", "closed", "downloads"},
                         rt : Runtimes \union {None}, config : BOOLEAN]
        /\ connect'.at = "closed"
    BY <2>1, <2>3 DEF TypeOK
  <2>5. /\ inflight' \in BOOLEAN
        /\ UNCHANGED <<installed, needsHub, configError, closed, task, factory, lost, reports,
                       bounds, closing, late, process, hub>>
    BY <1>3 DEF ConnectClosed
  <2>8. TypeOK'
    BY <2>2, <2>4, <2>5 DEF TypeOK, process, bounds, hub
  <2>9. ServedTypes'
    BY <2>2, <2>4, <2>5 DEF ServedTypes, process, bounds, hub
  <2>. QED BY <2>8, <2>9
<1>4. CASE Install
  <2>1. /\ connect' \in [at : {"none", "factory", "disconnect", "undo", "closed", "downloads"},
                         rt : Runtimes \union {None}, config : BOOLEAN]
        /\ connect'.at = "downloads"
    BY <1>4 DEF Install, TypeOK
  <2>2. installed' = factory.rt /\ factory.rt \in 1 .. made
    BY <1>4 DEF Install, ServedTypes
  <2>3. /\ inflight' \in BOOLEAN /\ configError' \in BOOLEAN /\ needsHub' \in BOOLEAN
        /\ UNCHANGED <<closed, disposed, task, factory, lost, reports, bounds, disposing,
                       closing, late, process, hub, handed, skipped>>
    BY <1>4 DEF Install
  <2>8. TypeOK'
    BY <2>1, <2>2, <2>3 DEF TypeOK, process, bounds, hub
  <2>9. ServedTypes'
    BY <2>1, <2>2, <2>3 DEF ServedTypes, process, bounds, hub
  <2>. QED BY <2>8, <2>9
<1>5. CASE DownloadsStarted
  BY <1>5 DEF DownloadsStarted, EndAttempt, Running, TypeOK, ServedTypes, Free, controller, process,
              bounds, hub
<1>6. CASE ManagerRaises
  <2>1. /\ connect' \in [at : {"none", "factory", "disconnect", "undo", "closed", "downloads"},
                         rt : Runtimes \union {None}, config : BOOLEAN]
        /\ connect'.rt \in 1 .. made
    BY <1>6 DEF ManagerRaises, ServedTypes
  <2>2. faults' \in 0 .. MaxFaults
    BY <1>6 DEF ManagerRaises
  <2>3. /\ inflight' \in BOOLEAN
        /\ UNCHANGED <<controller, task, factory, lost, reports, reported, disposing,
                       closing, late, process, hub, handed, skipped>>
    BY <1>6 DEF ManagerRaises
  <2>8. TypeOK'
    BY <2>1, <2>2, <2>3 DEF TypeOK, controller, process, hub
  <2>9. ServedTypes'
    BY <2>1, <2>2, <2>3 DEF ServedTypes, controller, process, hub
  <2>. QED BY <2>8, <2>9
<1>7. CASE Undo
  BY <1>7, StartDisposeTypes DEF Undo, TypeOK, ServedTypes, process, bounds, hub
<1>8. CASE Undone
  BY <1>8 DEF Undone, EndAttempt, Running, TypeOK, ServedTypes, Free, process, bounds, hub
<1>9. CASE Handle
  <2>1. reports' \in 0 .. MaxReports /\ reports' <= reported
    BY <1>9 DEF Handle, ServedTypes
  <2>2. CASE UNCHANGED <<installed, needsHub, lost>>
    BY <1>9, <2>1, <2>2 DEF Handle, TypeOK, ServedTypes, process, bounds, hub
  <2>3. CASE /\ installed # None /\ installed' = None /\ needsHub' = TRUE
             /\ lost' = lost \union {[at |-> "disconnect", rt |-> installed]}
    <3>1. installed \in 1 .. made
      BY <2>3 DEF ServedTypes
    <3>2. /\ lost' \subseteq [at : {"disconnect", "dispose"}, rt : Runtimes]
          /\ \A l \in lost' : l.rt \in 1 .. made
      BY <2>3, <3>1 DEF TypeOK, ServedTypes
    <3>. QED BY <1>9, <2>1, <2>3, <3>2 DEF Handle, TypeOK, ServedTypes, process, bounds, hub
  <2>. QED BY <1>9, <2>2, <2>3 DEF Handle
<1>10. CASE DisposeLost
  BY <1>10, StartDisposeTypes DEF DisposeLost, TypeOK, ServedTypes, process, bounds, hub
<1>11. CASE LossHandled
  BY <1>11 DEF LossHandled, EnsureRecovery, Running, Ended, TypeOK, ServedTypes, controller, process,
               bounds, hub
<1>12. CASE Close
  <2>1. /\ disposed' \subseteq Addrs /\ disposing' \subseteq Runtimes
        /\ handed' \subseteq Runtimes /\ skipped' \subseteq Runtimes
    <3>1. CASE UNCHANGED disposal
      BY <3>1 DEF disposal, TypeOK
    <3>2. CASE installed # None /\ StartDispose(installed)
      <4>1. installed \in 1 .. made
        BY <3>2 DEF ServedTypes
      <4>. QED BY <3>2, <4>1, StartDisposeTypes
    <3>. QED BY <1>12, <3>1, <3>2 DEF Close
  <2>2. /\ closing' \in [at : {"no", "dispose", "drain", "drained", "reset", "done", "aborted"},
                         rt : Runtimes \union {None}]
        /\ closed' = TRUE /\ installed' \in {installed, None} /\ stream' = None
    BY <1>12 DEF Close, TypeOK
  <2>3. /\ connect' \in [at : {"none", "factory", "disconnect", "undo", "closed", "downloads"},
                         rt : Runtimes \union {None}, config : BOOLEAN]
        /\ connect'.at = "disconnect" => connect' = connect
        /\ task' \in {"none"} \union Running \union Ended
    <3>1. CASE UNCHANGED <<task, connect>>
      BY <3>1 DEF TypeOK
    <3>2. CASE task' = "none" /\ connect' = [at |-> "none", rt |-> None, config |-> FALSE]
      BY <3>2
    <3>. QED BY <1>12, <3>1, <3>2 DEF Close, Free
  <2>4. UNCHANGED <<needsHub, configError, inflight, factory, lost, reports, reported, faults,
                    late, slot, made, open, stuck, raised, addr, streamGen, asking>>
    BY <1>12 DEF Close, bounds, process
  <2>. QED BY <2>1, <2>2, <2>3, <2>4 DEF TypeOK, ServedTypes
<1>13. CASE CloseDisposed
  BY <1>13 DEF CloseDisposed, TypeOK, ServedTypes, controller, process, bounds, hub
<1>14. CASE Drain
  <2>1. /\ disposed' \subseteq Addrs /\ disposing' \subseteq Runtimes
        /\ handed' \subseteq Runtimes /\ skipped' \subseteq Runtimes
        /\ closing' \in [at : {"no", "dispose", "drain", "drained", "reset", "done", "aborted"},
                         rt : Runtimes \union {None}]
    <3>1. CASE UNCHANGED disposal /\ closing' = [at |-> "reset", rt |-> None]
      BY <3>1 DEF disposal, TypeOK
    <3>2. CASE /\ factory.at = "done" /\ StartDispose(factory.rt)
               /\ closing' = [at |-> "drained", rt |-> Awaited(factory.rt)]
      <4>1. factory.rt \in 1 .. made
        BY <3>2 DEF ServedTypes
      <4>2. Awaited(factory.rt) \in Runtimes \union {None}
        BY <4>1 DEF Awaited
      <4>. QED BY <3>2, <4>1, <4>2, StartDisposeTypes
    <3>. QED BY <1>14, <3>1, <3>2 DEF Drain
  <2>2. /\ inflight' \in BOOLEAN
        /\ UNCHANGED <<installed, needsHub, configError, closed, task, connect, factory, lost,
                       reports, bounds, late, process, hub>>
    BY <1>14 DEF Drain
  <2>8. TypeOK'
    BY <2>1, <2>2 DEF TypeOK, process, bounds, hub
  <2>9. ServedTypes'
    BY <2>1, <2>2 DEF ServedTypes, process, bounds, hub
  <2>. QED BY <2>8, <2>9
<1>15. CASE DrainTimeout
  BY <1>15 DEF DrainTimeout, TypeOK, ServedTypes, controller, process, bounds, hub
<1>16. CASE Drained
  BY <1>16 DEF Drained, TypeOK, ServedTypes, controller, process, bounds, hub
<1>17. CASE DisposeLate
  <2>1. /\ disposed' \subseteq Addrs /\ disposing' \subseteq Runtimes
        /\ handed' \subseteq Runtimes /\ skipped' \subseteq Runtimes
    <3>1. CASE UNCHANGED disposal
      BY <3>1 DEF disposal, TypeOK
    <3>2. CASE factory.at = "done" /\ StartDispose(factory.rt)
      <4>1. factory.rt \in 1 .. made
        BY <3>2 DEF ServedTypes
      <4>. QED BY <3>2, <4>1, StartDisposeTypes
    <3>. QED BY <1>17, <3>1, <3>2 DEF DisposeLate
  <2>2. /\ late' \in BOOLEAN
        /\ UNCHANGED <<installed, needsHub, configError, closed, task, connect, inflight,
                       factory, lost, reports, bounds, closing, process, hub>>
    BY <1>17 DEF DisposeLate
  <2>8. TypeOK'
    BY <2>1, <2>2 DEF TypeOK, process, bounds, hub
  <2>9. ServedTypes'
    BY <2>1, <2>2 DEF ServedTypes, process, bounds, hub
  <2>. QED BY <2>8, <2>9
<1>18. CASE Publish
  <2>1. made + 1 \in Runtimes /\ made' = made + 1
    <3>1. made' = made + 1 /\ factory.at = "run"
      BY <1>18 DEF Publish
    <3>2. made + reports + 1 <= 1 + reported + faults
      BY <3>1 DEF Ledger, MayMake
    <3>. QED BY <3>1, <3>2 DEF Runtimes
  <2>2. addr' \in [Runtimes -> Addrs \union {NoAddr}] /\ \A r \in 1 .. made' : addr'[r] \in Addrs
    BY <1>18, <2>1 DEF Publish, NewAddr, TypeOK, ServedTypes
  <2>. QED BY <1>18, <2>1, <2>2 DEF Publish, TypeOK, ServedTypes, controller, bounds, hub
<1>19. CASE Return
  <2>1. /\ faults' \in 0 .. MaxFaults /\ open' \subseteq Runtimes /\ stuck' \subseteq Runtimes
        /\ skipped' \subseteq Runtimes
    BY <1>19 DEF Return, Closes, CloseRaises, TypeOK, ServedTypes
  <2>. QED BY <1>19, <2>1 DEF Return, TypeOK, ServedTypes, controller, hub
<1>20. CASE FactoryRaises
  BY <1>20 DEF FactoryRaises, TypeOK, ServedTypes, controller, process, bounds, hub
<1>21. CASE Dispose
  <2>1. PICK r \in disposing :
          /\ disposing' = disposing \ {r} /\ slot' = IF slot = r THEN None ELSE slot
          /\ \/ Closes(r) /\ UNCHANGED raised
             \/ CloseRaises(r) /\ raised' = IF slot = r THEN raised \union {r} ELSE raised
    BY <1>21 DEF Dispose
  <2>2. /\ faults' \in 0 .. MaxFaults /\ open' \subseteq Runtimes /\ stuck' \subseteq Runtimes
        /\ raised' \subseteq Runtimes
    <3>1. r \in Runtimes /\ open \subseteq Runtimes /\ stuck \subseteq Runtimes /\ raised \subseteq Runtimes
      BY <2>1 DEF TypeOK
    <3>2. CASE Closes(r) /\ UNCHANGED raised
      BY <3>1, <3>2 DEF Closes
    <3>3. CASE CloseRaises(r) /\ raised' = IF slot = r THEN raised \union {r} ELSE raised
      BY <3>1, <3>3 DEF CloseRaises
    <3>. QED BY <2>1, <3>2, <3>3
  <2>3. disposing' \subseteq Runtimes /\ slot' \in Runtimes \union {None}
    BY <2>1 DEF TypeOK
  <2>. QED BY <1>21, <2>2, <2>3 DEF Dispose, TypeOK, ServedTypes, controller, hub
<1>22. CASE Reset
  <2>1. faults' \in 0 .. MaxFaults /\ open' \subseteq Runtimes /\ stuck' \subseteq Runtimes
    BY <1>22 DEF Reset, Closes, CloseRaises, TypeOK
  <2>. QED BY <1>22, <2>1 DEF Reset, TypeOK, ServedTypes, controller, hub
<1>23. CASE Report
  BY <1>23 DEF Report, TypeOK, ServedTypes, controller, process, hub
<1>24. CASE Subscribe
  BY <1>24 DEF Subscribe, Generation, TypeOK, ServedTypes, controller, process, bounds
<1>25. CASE Subscribed
  <2>1. asking' \in BOOLEAN
    BY <1>25 DEF Subscribed
  <2>2. stream' \in Runtimes \union {None}
    BY <1>25 DEF Subscribed, TypeOK
  <2>. QED BY <1>25, <2>1, <2>2 DEF Subscribed, TypeOK, ServedTypes, controller, process, bounds
<1>26. CASE Unsubscribe
  BY <1>26 DEF Unsubscribe, TypeOK, ServedTypes, controller, process, bounds
<1>28. CASE ClosedUndone
  BY <1>28 DEF ClosedUndone, EndAttempt, Running, TypeOK, ServedTypes, Free, process, bounds, hub
<1>29. CASE UndoRaises
  <2>1. /\ task' \in {"none", "died"} /\ closed' \in BOOLEAN
        /\ closing' \in {closing, [at |-> "aborted", rt |-> None]}
    BY <1>29 DEF UndoRaises, TypeOK
  <2>. QED BY <1>29, <2>1 DEF UndoRaises, Ended, TypeOK, ServedTypes, Free, process, bounds, hub
<1>30. CASE FactoryLeaves
  <2>1. made + 1 \in Runtimes /\ made' = made + 1 /\ faults' \in 0 .. MaxFaults
    <3>1. made' = made + 1 /\ factory.at = "run" /\ faults < MaxFaults /\ faults' = faults + 1
      BY <1>30 DEF FactoryLeaves
    <3>2. made + reports + 1 <= 1 + reported + faults
      BY <3>1 DEF Ledger, MayMake
    <3>. QED BY <3>1, <3>2 DEF Runtimes
  <2>2. addr' \in [Runtimes -> Addrs \union {NoAddr}] /\ \A r \in 1 .. made' : addr'[r] \in Addrs
    BY <1>30, <2>1 DEF FactoryLeaves, NewAddr, TypeOK, ServedTypes
  <2>. QED BY <1>30, <2>1, <2>2 DEF FactoryLeaves, TypeOK, ServedTypes, controller, hub
<1>27. CASE UNCHANGED vars
  BY <1>27 DEF vars, TypeOK, ServedTypes, controller, process, bounds, hub
<1>. QED BY <1>1, <1>2, <1>3, <1>4, <1>5, <1>6, <1>7, <1>8, <1>9, <1>10, <1>11, <1>12, <1>13,
            <1>14, <1>15, <1>16, <1>17, <1>18, <1>19, <1>20, <1>21, <1>22, <1>23, <1>24,
            <1>25, <1>26, <1>27, <1>28, <1>29, <1>30
         DEF Next, LoopStep, Environment, Loop, Connecting, Losing, Closing, ThreadStep

\* What a dispose thread is given stays the newest runtime's, or is skipped.
LEMMA StartDisposeHands ==
  ASSUME handed \subseteq 1 .. made, disposing \subseteq handed,
         NEW r \in 1 .. made, r \notin handed, StartDispose(r)
  PROVE  /\ handed' \subseteq 1 .. made /\ disposing' \subseteq handed'
         /\ r \in skipped' \union disposing'
BY DEF StartDispose

LEMMA ToldConnecting ==
  ASSUME ServedInv, ~closed, Connecting
  PROVE  SlotPassed' /\ StreamTold'
<1>. AttemptAlone /\ SlotAlone /\ ServedTypes /\ SlotPassed /\ StreamTold
  BY DEF ServedInv, OwnInv
<1>. connect = [at |-> connect.at, rt |-> connect.rt, config |-> connect.config]
  BY DEF ServedInv, OwnInv, RecoveryInv, AttemptType
<1>. UNCHANGED <<lost, slot, made>>
  BY DEF Connecting, Begin, ConnectFails, ConnectClosed, ClosedUndone, Install, DownloadsStarted,
         ManagerRaises, Undo, Undone, UndoRaises, controller, process
<1>1. CASE Begin
  <2>1. /\ connect.at = "none" /\ task \in {"start", "sleep"}
        /\ connect'.at = "factory" /\ factory'.at = "run"
        /\ needsHub => stream' = None
        /\ UNCHANGED <<installed, needsHub, disposing, handed, skipped>>
    BY <1>1 DEF Begin, Free, controller
  <2>2. installed = None /\ lost = {}
    BY <2>1 DEF AttemptAlone
  <2>. QED BY <2>1, <2>2 DEF SlotPassed, StreamTold, Passed
<1>2. CASE ConnectFails
  <2>1. /\ connect.at = "factory" /\ factory.at \in {"failed", "config"} /\ connect'.at = "none"
        /\ UNCHANGED <<installed, needsHub, factory, disposing, handed, skipped>>
    BY <1>2 DEF ConnectFails, EndAttempt, Free
  <2>2. lost = {}
    BY <2>1 DEF AttemptAlone
  <2>. QED BY <2>1, <2>2 DEF SlotPassed, StreamTold, Passed
<1>3. CASE ConnectClosed
  BY <1>3 DEF ConnectClosed
<1>4. CASE Install
  <2>1. /\ connect.at = "factory" /\ factory.at = "done" /\ installed' = factory.rt
        /\ connect'.at = "downloads" /\ needsHub' = FALSE
        /\ UNCHANGED <<factory, disposing, handed, skipped>>
    BY <1>4 DEF Install
  <2>2. lost = {}
    BY <2>1 DEF AttemptAlone
  <2>. QED BY <2>1, <2>2 DEF SlotPassed, StreamTold, Passed
<1>5. CASE DownloadsStarted
  <2>1. /\ connect.at = "downloads" /\ connect'.at = "none"
        /\ UNCHANGED <<installed, needsHub, factory, disposing, handed, skipped>>
    BY <1>5 DEF DownloadsStarted, EndAttempt, Free, controller
  <2>2. lost = {} /\ installed # None
    BY <2>1 DEF AttemptAlone, ServedInv, OwnInv, RecoveryInv, InstalledKept
  <2>. QED BY <2>1, <2>2 DEF SlotPassed, StreamTold, Passed
<1>6. CASE ManagerRaises
  <2>1. /\ connect.at = "factory" /\ factory.at = "done"
        /\ connect'.at = "disconnect" /\ connect'.rt = factory.rt
        /\ UNCHANGED <<installed, needsHub, factory, disposing, handed, skipped>>
    BY <1>6 DEF ManagerRaises, controller
  <2>2. lost = {} /\ slot = factory.rt
    BY <2>1 DEF AttemptAlone, SlotAlone
  <2>. QED BY <2>1, <2>2 DEF SlotPassed, StreamTold, Passed
<1>7. CASE Undo
  <2>1. /\ connect.at = "disconnect" /\ StartDispose(connect.rt)
        /\ connect'.at = "undo" /\ connect'.rt = connect.rt
        /\ UNCHANGED <<installed, needsHub, factory>>
    BY <1>7 DEF Undo
  <2>2. lost = {} /\ installed = None
    BY <2>1 DEF AttemptAlone
  <2>3. connect.rt \in 1 .. made /\ connect.rt \notin handed /\ slot = connect.rt
    BY <2>1 DEF ServedTypes, SlotPassed
  <2>4. handed \subseteq 1 .. made /\ disposing \subseteq handed
    BY DEF StreamTold
  <2>5. handed' \subseteq 1 .. made /\ disposing' \subseteq handed' /\ connect.rt \in skipped' \union disposing'
    BY <2>1, <2>3, <2>4, StartDisposeHands
  <2>. QED BY <2>1, <2>2, <2>3, <2>5 DEF SlotPassed, StreamTold, Passed
<1>8. CASE Undone \/ UndoRaises
  <2>1. /\ connect.at = "undo" /\ connect.rt \notin disposing /\ connect'.at = "none"
        /\ UNCHANGED <<installed, needsHub, factory, disposing, handed, skipped>>
    BY <1>8 DEF Undone, UndoRaises, EndAttempt, Free
  <2>2. lost = {} /\ slot \in Passed
    BY <2>1 DEF AttemptAlone, SlotPassed
  <2>. QED BY <2>1, <2>2 DEF SlotPassed, StreamTold, Passed
<1>9. ~ClosedUndone
  BY DEF ClosedUndone
<1>. QED BY <1>1, <1>2, <1>3, <1>4, <1>5, <1>6, <1>7, <1>8, <1>9 DEF Connecting

LEMMA ToldLosing ==
  ASSUME ServedInv, ~closed, Losing
  PROVE  SlotPassed' /\ StreamTold'
<1>. AttemptAlone /\ SlotAlone /\ ServedTypes /\ SlotPassed /\ StreamTold
  BY DEF ServedInv, OwnInv
<1>. UNCHANGED <<connect, factory, slot, made, stream>>
  BY DEF Losing, Handle, DisposeLost, LossHandled, controller, process, hub
<1>1. CASE Handle
  <2>1. CASE UNCHANGED <<installed, needsHub, lost>>
    <3>1. UNCHANGED <<disposing, handed, skipped>>
      BY <1>1 DEF Handle
    <3>. QED BY <2>1, <3>1 DEF SlotPassed, StreamTold, Passed
  <2>2. CASE /\ installed # None /\ installed' = None
             /\ lost' = lost \union {[at |-> "disconnect", rt |-> installed]}
    <3>1. connect.at = "none" /\ UNCHANGED <<disposing, handed, skipped>>
      BY <1>1 DEF Handle
    <3>2. lost = {} /\ slot = installed /\ installed \notin handed
      BY <2>2 DEF AttemptAlone, SlotAlone, StreamTold
    <3>3. lost' = {[at |-> "disconnect", rt |-> installed]}
      BY <2>2, <3>2
    <3>4. \A l \in lost' : l.at = "disconnect" /\ l.rt = installed
      BY <3>3
    <3>5. SlotPassed'
      BY <3>1, <3>2, <3>3, <3>4 DEF SlotPassed, Passed
    <3>6. StreamTold'
      BY <2>2, <3>1 DEF StreamTold, Passed
    <3>. QED BY <3>5, <3>6
  <2>. QED BY <1>1, <2>1, <2>2 DEF Handle
<1>2. CASE DisposeLost
  <2>1. PICK l \in lost : /\ l.at = "disconnect" /\ StartDispose(l.rt)
                          /\ lost' = (lost \ {l}) \union {[l EXCEPT !.at = "dispose"]}
    BY <1>2 DEF DisposeLost
  <2>2. UNCHANGED <<installed, needsHub>>
    BY <1>2 DEF DisposeLost
  <2>3. lost = {l} /\ installed = None /\ connect.at = "none"
    BY DEF AttemptAlone
  <2>4. l = [at |-> "disconnect", rt |-> l.rt]
    BY <2>1 DEF ServedInv, TypeOK
  <2>5. lost' = {[at |-> "dispose", rt |-> l.rt]}
    BY <2>1, <2>3, <2>4
  <2>6. l.rt \in 1 .. made /\ l.rt \notin handed /\ slot = l.rt
    BY <2>1 DEF ServedTypes, SlotPassed
  <2>7. handed \subseteq 1 .. made /\ disposing \subseteq handed
    BY DEF StreamTold
  <2>8. handed' \subseteq 1 .. made /\ disposing' \subseteq handed' /\ l.rt \in skipped' \union disposing'
    BY <2>1, <2>6, <2>7, StartDisposeHands
  <2>9. \A k \in lost' : k.at = "dispose" /\ k.rt = l.rt
    BY <2>5
  <2>10. SlotPassed'
    BY <2>3, <2>5, <2>6, <2>8, <2>9 DEF SlotPassed, Passed
  <2>11. StreamTold'
    BY <2>2, <2>3, <2>8 DEF StreamTold, Passed
  <2>. QED BY <2>10, <2>11
<1>3. CASE LossHandled
  <2>1. PICK l \in lost : l.at = "dispose" /\ l.rt \notin disposing /\ lost' = lost \ {l}
    BY <1>3 DEF LossHandled
  <2>2. UNCHANGED <<installed, needsHub, disposing, handed, skipped>>
    BY <1>3 DEF LossHandled, controller
  <2>3. lost' = {} /\ installed = None /\ connect.at = "none" /\ slot \in Passed
    BY <2>1 DEF AttemptAlone, SlotPassed
  <2>. QED BY <2>2, <2>3 DEF SlotPassed, StreamTold, Passed
<1>. QED BY <1>1, <1>2, <1>3 DEF Losing

LEMMA ToldThreads ==
  ASSUME ServedInv, ~closed, ThreadStep
  PROVE  SlotPassed' /\ StreamTold'
<1>. AttemptAlone /\ SlotAlone /\ ServedTypes /\ SlotPassed /\ StreamTold
  BY DEF ServedInv, OwnInv
<1>. factory = [at |-> factory.at, rt |-> factory.rt, previous |-> factory.previous] /\ made \in Nat
  BY DEF ServedInv, OwnInv, RecoveryInv, FactoryType
<1>. UNCHANGED <<connect, installed, needsHub, lost, stream, handed>>
  BY DEF ThreadStep, Publish, Return, FactoryRaises, FactoryLeaves, Dispose, Reset, controller, hub
<1>1. CASE Publish
  <2>1. /\ factory.at = "run" /\ made' = made + 1 /\ slot' = made + 1
        /\ UNCHANGED <<disposing, skipped>>
        /\ factory'.at = "published" /\ factory'.rt = made + 1
    BY <1>1 DEF Publish
  <2>2. connect.at = "factory" /\ lost = {} /\ slot \in Passed
    BY <2>1 DEF AttemptAlone, SlotPassed
  <2>3. handed \subseteq 1 .. (made + 1) /\ made + 1 \notin handed
    BY DEF StreamTold
  <2>4. needsHub => stream \in Passed
    BY <2>2 DEF StreamTold
  <2>. QED BY <2>1, <2>2, <2>3, <2>4 DEF SlotPassed, StreamTold, Passed
<1>2. CASE Return
  <2>1. /\ factory.at = "published" /\ factory'.rt = factory.rt
        /\ \/ factory'.at = "done" /\ UNCHANGED skipped
           \/ factory'.at = "failed" /\ skipped' = skipped \union {factory.rt}
        /\ UNCHANGED <<disposing, slot, made>>
    BY <1>2 DEF Return
  <2>2. connect.at = "factory" /\ slot = factory.rt /\ lost = {}
    BY <2>1 DEF AttemptAlone, SlotAlone
  <2>3. SlotPassed'
    BY <2>1, <2>2 DEF SlotPassed, Passed
  <2>4. StreamTold'
    BY <2>1, <2>2 DEF StreamTold, Passed
  <2>. QED BY <2>3, <2>4
<1>3. CASE FactoryRaises
  <2>1. /\ factory.at = "run" /\ factory'.at \in {"failed", "config"}
        /\ UNCHANGED <<disposing, slot, made, skipped>>
    BY <1>3 DEF FactoryRaises, process
  <2>2. connect.at = "factory"
    BY <2>1 DEF AttemptAlone
  <2>. QED BY <2>1, <2>2 DEF SlotPassed, StreamTold, Passed
<1>4. CASE Dispose
  <2>1. PICK r \in disposing : /\ disposing' = disposing \ {r}
                               /\ slot' = IF slot = r THEN None ELSE slot
    BY <1>4 DEF Dispose
  <2>2. UNCHANGED <<factory, made, skipped>>
    BY <1>4 DEF Dispose
  <2>3. slot' = slot \/ (slot = r /\ slot' = None)
    BY <2>1
  <2>4. r \in handed
    BY <2>1 DEF StreamTold
  <2>5. connect.at = "factory" /\ factory.at \in {"published", "done"} => slot # r
    BY <2>1, <2>4 DEF SlotAlone
  <2>6. SlotPassed'
    BY <2>1, <2>2, <2>3, <2>4 DEF SlotPassed, Passed
  <2>7. StreamTold'
    <3>1. connect.at = "factory" /\ needsHub => stream \in Passed \union {slot'}
      BY <2>3, <2>5 DEF StreamTold, SlotPassed
    <3>. QED BY <2>1, <2>2, <3>1 DEF StreamTold, Passed
  <2>. QED BY <2>6, <2>7
<1>5. ~Reset
  BY DEF Reset, ServedInv, OwnInv
<1>6. CASE FactoryLeaves
  <2>1. /\ factory.at = "run" /\ factory'.at = "failed" /\ made' = made + 1
        /\ UNCHANGED <<disposing, slot, skipped>>
    BY <1>6 DEF FactoryLeaves
  <2>2. connect.at = "factory"
    BY <2>1 DEF AttemptAlone
  <2>3. handed \subseteq 1 .. (made + 1)
    BY DEF StreamTold
  <2>. QED BY <2>1, <2>2, <2>3 DEF SlotPassed, StreamTold, Passed
<1>. QED BY <1>1, <1>2, <1>3, <1>4, <1>5, <1>6 DEF ThreadStep

LEMMA ToldAside ==
  ASSUME ServedInv, ~closed, Report \/ Subscribe \/ Subscribed \/ Unsubscribe \/ UNCHANGED vars
  PROVE  SlotPassed' /\ StreamTold'
<1>. AttemptAlone /\ SlotAlone /\ SlotPassed /\ StreamTold
  BY DEF ServedInv, OwnInv
<1>1. UNCHANGED <<connect, factory, installed, needsHub, lost, slot, made, disposing, handed, skipped>>
  BY DEF Report, Subscribe, Subscribed, Unsubscribe, vars, controller, process
<1>2. stream' \in {stream, slot, None}
  BY DEF Report, Subscribe, Subscribed, Unsubscribe, vars, hub
<1>3. SlotPassed'
  BY <1>1 DEF SlotPassed, Passed
<1>4. StreamTold'
  BY <1>1, <1>2 DEF StreamTold, Passed
<1>. QED BY <1>3, <1>4

LEMMA ServedNext == ServedInv /\ [Next]_vars => ServedInv'
<1>. SUFFICES ASSUME ServedInv, [Next]_vars PROVE ServedInv'
  OBVIOUS
<1>1. OwnInv'
  BY OwnNext DEF ServedInv
<1>2. TypeOK' /\ ServedTypes' /\ Ledger'
  BY TypesKeep, LedgerKeeps
<1>3. SUFFICES ASSUME ~closed' PROVE SlotPassed' /\ StreamTold'
  BY <1>1, <1>2 DEF ServedInv
<1>4. ~Close
  BY <1>3 DEF Close
<1>5. CASE closed
  <2>1. closed'
    BY <1>4, <1>5 DEF Next, LoopStep, Environment, Loop, Connecting, Losing, Closing, ThreadStep,
       Begin, ConnectFails, ConnectClosed, ClosedUndone, Install, DownloadsStarted, ManagerRaises,
       Undo, Undone, UndoRaises, Handle, DisposeLost, LossHandled, CloseDisposed, Drain,
       DrainTimeout, Drained, DisposeLate, Publish, Return, FactoryRaises, FactoryLeaves,
       Dispose, Reset, Report, Subscribe, Subscribed, Unsubscribe, controller, vars
  <2>. QED BY <1>3, <2>1
<1>6. CASE ~closed
  <2>1. ~Closing
    BY <1>6 DEF ServedInv, OwnInv, Closing, CloseDisposed, Drain, DrainTimeout, Drained, DisposeLate
  <2>. QED BY <1>4, <1>6, <2>1, ToldConnecting, ToldLosing, ToldThreads, ToldAside
           DEF Next, LoopStep, Environment, Loop
<1>. QED BY <1>5, <1>6

\* A runtime is put back into use by Install alone, and only while the hub waits.
LEMMA FollowStep ==
  ServedInv /\ [Next]_vars =>
    [needsHub /\ installed' # None => stream' \in {None, installed'} \union skipped]_vars
<1>. SUFFICES ASSUME ServedInv, [Next]_vars, needsHub, installed' # None
              PROVE  stream' \in {None, installed'} \union skipped
  OBVIOUS
<1>1. ~closed /\ StreamTold /\ SlotAlone
  <2>1. OwnInv'
    BY OwnNext DEF ServedInv
  <2>2. ~closed'
    BY <2>1 DEF OwnInv
  <2>3. ~closed
    <3>1. ASSUME closed PROVE FALSE
      <4>1. installed = None
        BY <3>1 DEF ServedInv, OwnInv
      <4>2. ~Install
        BY <3>1 DEF Install
      <4>. QED BY <4>1, <4>2 DEF Next, LoopStep, Environment, Loop, Connecting, Losing, Closing,
         ThreadStep, Begin, ConnectFails, ConnectClosed, ClosedUndone, DownloadsStarted,
         ManagerRaises, Undo, Undone, UndoRaises, Handle, DisposeLost, LossHandled, Close,
         CloseDisposed, Drain, DrainTimeout, Drained, DisposeLate, Publish, Return, FactoryRaises,
         FactoryLeaves, Dispose, Reset, Report, Subscribe, Subscribed, Unsubscribe, controller, vars
    <3>. QED BY <3>1
  <2>. QED BY <2>3 DEF ServedInv, OwnInv
<1>2. installed = None
  BY <1>1 DEF StreamTold
<1>3. Install
  BY <1>2 DEF Next, LoopStep, Environment, Loop, Connecting, Losing, Closing, ThreadStep, Begin,
     ConnectFails, ConnectClosed, ClosedUndone, DownloadsStarted, ManagerRaises, Undo, Undone,
     UndoRaises, Handle, DisposeLost, LossHandled, Close, CloseDisposed, Drain, DrainTimeout,
     Drained, DisposeLate, Publish, Return, FactoryRaises, FactoryLeaves, Dispose, Reset, Report,
     Subscribe, Subscribed, Unsubscribe, controller, vars
<1>4. /\ connect.at = "factory" /\ factory.at = "done" /\ installed' = factory.rt
      /\ stream' = stream
  BY <1>3 DEF Install, hub
<1>5. slot = factory.rt
  BY <1>1, <1>4 DEF SlotAlone
<1>. QED BY <1>1, <1>4, <1>5 DEF StreamTold, Passed

\* For any number of runtimes, reports, failing connects and closes, with addresses
\* of closed runtimes used again: the state keeps its types - no more runtimes are
\* made than losses and raising connects account for -, one runtime is served at a
\* time, and recovery leaves no client behind untold (runtime_controller.py,
\* bigqmt.py, ws/quote_hub.py).
THEOREM OwnedAndFollowed == Spec => RuntimeOwned
<1>1. ServedInv => TypeOK /\ OneRuntime
  BY DEF ServedInv, OwnInv, SlotAlone, AttemptAlone, OneRuntime
<1>. QED BY <1>1, ServedInit, ServedNext, FollowStep, PTL DEF Spec, RuntimeOwned, StreamsFollow

=============================================================================
