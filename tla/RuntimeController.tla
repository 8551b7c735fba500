------------------------- MODULE RuntimeController -------------------------
(***************************************************************************)
(* The owner of the bridge's one native runtime: connecting, recovery      *)
(* after a transport loss, and shutdown (server/runtime_controller.py),    *)
(* the module-wide runtime slot behind market_data (server/bigqmt.py), and *)
(* the shared realtime quote subscription that must move from a lost       *)
(* runtime to its successor (server/ws/quote_hub.py).                      *)
(*                                                                         *)
(* A loop action runs from one await of the event loop to the next; the    *)
(* factory, dispose and reset threads run beside the loop.                 *)
(***************************************************************************)
EXTENDS Naturals

CONSTANTS
  Addrs,       \* values of id(runtime); one of a closed runtime can come again
  NoAddr,
  MaxReports,  \* bound on transport-failure reports
  MaxFaults    \* bound on raising account connects and closes

ASSUME RuntimeAssumption ==
  MaxReports \in Nat /\ MaxFaults \in Nat /\ NoAddr \notin Addrs

\* One runtime to start with, one for every report and raising call.
Runtimes == 1 .. (1 + MaxReports + MaxFaults)
None == 0

VARIABLES
  installed,    \* runtime
  needsHub,     \* _needs_hub_invalidation
  configError,  \* configuration_error
  closed,       \* _closed
  disposed,     \* _disposed_runtime_ids
  task,         \* start() or the recovery task, or why there is none
  connect,      \* the attempt that holds _connect_lock
  inflight,     \* is there an _inflight_connect?
  factory,      \* the thread of the runtime factory
  lost,         \* transport losses being handled
  reports,      \* transport losses not yet handled
  reported,
  disposing,    \* runtimes a thread is closing
  closing,      \* close()
  late,         \* is a factory's late result to be disposed of?
  slot,         \* bigqmt._runtime
  made,         \* runtimes made so far
  open,         \* runtimes that own sockets and threads
  stuck,        \* runtimes whose close raised
  raised,       \* those whose close raised to the coroutine that waited for it
  addr,         \* id() of each runtime
  faults,
  stream,       \* the runtime the realtime hub's subscription is on
  streamGen,    \* _active_generation
  asking,       \* a subscription in progress, which blocks the loop
  handed,       \* runtimes given to a dispose thread
  skipped       \* runtimes not given to one: for the address they have, or because
                \* their factory raised after all

controller == <<installed, needsHub, configError, closed, disposed>>
process    == <<slot, made, open, stuck, raised, addr>>
hub        == <<stream, streamGen, asking>>
bounds     == <<reported, faults>>
disposal   == <<disposed, disposing, handed, skipped>>
vars == <<controller, task, connect, inflight, factory, lost, reports, bounds,
          disposing, closing, late, process, hub, handed, skipped>>

Free == [at |-> "none", rt |-> None, config |-> FALSE]

\* start() or the recovery task is there; or it died of a dispose that raised, or a
\* loss handler did so before it could start one.
Running == {"start", "sleep", "attempt"}
Ended   == {"died", "unstarted"}

TypeOK ==
  /\ installed \in Runtimes \union {None}
  /\ needsHub \in BOOLEAN /\ configError \in BOOLEAN /\ closed \in BOOLEAN
  /\ disposed \subseteq Addrs
  /\ task \in {"none"} \union Running \union Ended
  /\ connect \in [at : {"none", "factory", "disconnect", "undo", "closed", "downloads"},
                  rt : Runtimes \union {None}, config : BOOLEAN]
  /\ inflight \in BOOLEAN
  /\ factory \in [at : {"idle", "run", "published", "done", "failed", "config"},
                  rt : Runtimes \union {None}, previous : Runtimes \union {None}]
  /\ lost \subseteq [at : {"disconnect", "dispose"}, rt : Runtimes]
  /\ reports \in 0 .. MaxReports /\ reported \in 0 .. MaxReports /\ faults \in 0 .. MaxFaults
  /\ disposing \subseteq Runtimes
  /\ closing \in [at : {"no", "dispose", "drain", "drained", "reset", "done", "aborted"},
                  rt : Runtimes \union {None}]
  /\ late \in BOOLEAN
  /\ slot \in Runtimes \union {None} /\ made \in Runtimes \union {0}
  /\ open \subseteq Runtimes /\ stuck \subseteq Runtimes /\ raised \subseteq Runtimes
  /\ addr \in [Runtimes -> Addrs \union {NoAddr}]
  /\ stream \in Runtimes \union {None} /\ streamGen \in Addrs \union {NoAddr}
  /\ asking \in BOOLEAN
  /\ handed \subseteq Runtimes /\ skipped \subseteq Runtimes

Init ==
  /\ installed = None /\ needsHub = FALSE /\ configError = FALSE /\ closed = FALSE
  /\ disposed = {} /\ task = "start" /\ connect = Free /\ inflight = FALSE
  /\ factory = [at |-> "idle", rt |-> None, previous |-> None]
  /\ lost = {} /\ reports = 0 /\ reported = 0 /\ faults = 0
  /\ disposing = {} /\ closing = [at |-> "no", rt |-> None] /\ late = FALSE
  /\ slot = None /\ made = 0 /\ open = {} /\ stuck = {} /\ raised = {}
  /\ addr = [r \in Runtimes |-> NoAddr]
  /\ stream = None /\ streamGen = NoAddr /\ asking = FALSE
  /\ handed = {} /\ skipped = {}

\* A dispose thread starts unless the runtime's address was disposed of before.
StartDispose(r) ==
  \/ /\ addr[r] \in disposed
     /\ skipped' = IF r \in handed THEN skipped ELSE skipped \union {r}
     /\ UNCHANGED <<disposed, disposing, handed>>
  \/ /\ addr[r] \notin disposed
     /\ disposed' = disposed \union {addr[r]}
     /\ disposing' = disposing \union {r}
     /\ handed' = handed \union {r}
     /\ UNCHANGED skipped

\* What is waited for: nothing when the dispose is skipped.
Awaited(r) == IF addr[r] \in disposed THEN None ELSE r

----------------------------------------------------------------------------
(* A connection attempt, under _connect_lock *)

\* Mutant: clients of a lost runtime are not told.
BeginUntold ==
  /\ connect.at = "none" /\ task \in {"start", "sleep"} /\ ~closed
  /\ connect' = [Free EXCEPT !.at = "factory"]
  /\ task' = IF task = "start" THEN task ELSE "attempt"
  /\ inflight' = TRUE
  /\ factory' = [at |-> "run", rt |-> None, previous |-> None]
  /\ UNCHANGED <<controller, lost, reports, bounds, closing, late, process,
                 disposing, handed, skipped, hub>>

\* start(), or the recovery task after its delay.
Begin ==
  /\ connect.at = "none" /\ task \in {"start", "sleep"} /\ ~closed
  /\ connect' = [Free EXCEPT !.at = "factory"]
  /\ task' = IF task = "start" THEN task ELSE "attempt"
  /\ inflight' = TRUE
  /\ factory' = [at |-> "run", rt |-> None, previous |-> None]
  /\ IF needsHub THEN stream' = None /\ streamGen' = NoAddr ELSE UNCHANGED <<stream, streamGen>>
  /\ UNCHANGED <<controller, lost, reports, bounds, closing, late, process,
                 disposing, handed, skipped, asking>>

\* Mutant: the recovery task gives up after a failed attempt.
EndAttemptForGood(ok, config) == connect' = Free /\ task' = "none"

\* The lock is released; a failed attempt is repeated unless it cannot help.
EndAttempt(ok, config) ==
  /\ connect' = Free
  /\ task' = IF ok \/ config \/ closed THEN "none" ELSE "sleep"

\* The factory raised.
ConnectFails ==
  /\ connect.at = "factory" /\ factory.at \in {"failed", "config"}
  /\ inflight' = FALSE
  /\ configError' = (factory.at = "config")
  /\ EndAttempt(FALSE, factory.at = "config")
  /\ UNCHANGED <<installed, needsHub, closed, disposed, factory, lost, reports, bounds,
                 disposing, closing, late, process, hub, handed, skipped>>

\* start() goes on after close().
ConnectClosed ==
  /\ connect.at = "factory" /\ factory.at = "done" /\ closed
  /\ inflight' = FALSE
  /\ StartDispose(factory.rt)
  /\ connect' = [connect EXCEPT !.at = "closed", !.rt = Awaited(factory.rt)]
  /\ UNCHANGED <<installed, needsHub, configError, closed, task, factory, lost, reports,
                 bounds, closing, late, process, hub>>

\* That dispose is inside the attempt's try: an exception of it is one more failure.
ClosedUndone ==
  /\ connect.at = "closed" /\ closed /\ connect.rt \notin disposing
  /\ configError' = (configError /\ connect.rt \notin raised)
  /\ EndAttempt(FALSE, FALSE)
  /\ UNCHANGED <<installed, needsHub, closed, disposed, inflight, factory, lost, reports,
                 bounds, disposing, closing, late, process, hub, handed, skipped>>

Install ==
  /\ connect.at = "factory" /\ factory.at = "done" /\ ~closed
  /\ inflight' = FALSE
  /\ installed' = factory.rt
  /\ configError' = FALSE /\ needsHub' = FALSE
  /\ connect' = [connect EXCEPT !.at = "downloads"]
  /\ UNCHANGED <<closed, disposed, task, factory, lost, reports, bounds, disposing,
                 closing, late, process, hub, handed, skipped>>

DownloadsStarted ==
  /\ connect.at = "downloads"
  /\ EndAttempt(TRUE, FALSE)
  /\ UNCHANGED <<controller, inflight, factory, lost, reports, bounds, disposing,
                 closing, late, process, hub, handed, skipped>>

\* The account manager raises in connect; it is disconnected in a thread first.
ManagerRaises ==
  /\ connect.at = "factory" /\ factory.at = "done" /\ ~closed
  /\ faults < MaxFaults /\ faults' = faults + 1
  /\ inflight' = FALSE
  /\ \E config \in BOOLEAN :
       connect' = [at |-> "disconnect", rt |-> factory.rt, config |-> config]
  /\ UNCHANGED <<controller, task, factory, lost, reports, reported, disposing,
                 closing, late, process, hub, handed, skipped>>

Undo ==
  /\ connect.at = "disconnect"
  /\ StartDispose(connect.rt)
  /\ connect' = [connect EXCEPT !.at = "undo"]
  /\ UNCHANGED <<installed, needsHub, configError, closed, task, inflight, factory, lost,
                 reports, bounds, closing, late, process, hub>>

Undone ==
  /\ connect.at = "undo" /\ connect.rt \notin disposing \union raised
  /\ configError' = connect.config
  /\ EndAttempt(FALSE, connect.config)
  /\ UNCHANGED <<installed, needsHub, closed, disposed, inflight, factory, lost, reports,
                 bounds, disposing, closing, late, process, hub, handed, skipped>>

\* The dispose in the exception handler raises, out of the recovery task or out
\* of start() and the bridge's startup.
UndoRaises ==
  /\ connect.at = "undo" /\ connect.rt \in raised \ disposing
  /\ connect' = Free
  /\ IF task = "start"
       THEN /\ task' = "none" /\ closed' = TRUE
            /\ closing' = IF closed THEN closing ELSE [at |-> "aborted", rt |-> None]
       ELSE task' = "died" /\ UNCHANGED <<closed, closing>>
  /\ UNCHANGED <<installed, needsHub, configError, disposed, inflight, factory, lost, reports,
                 bounds, disposing, late, process, hub, handed, skipped>>

----------------------------------------------------------------------------
(* Transport losses *)

\* A request or a readiness probe failed, on this runtime or on an earlier one.
Report ==
  /\ made > 0 /\ ~closed /\ ~configError
  /\ reported < MaxReports /\ reported' = reported + 1
  /\ reports' = reports + 1
  /\ UNCHANGED <<controller, task, connect, inflight, factory, lost, faults, disposing,
                 closing, late, process, hub, handed, skipped>>

\* Whatever runtime is installed now is given up.
Handle ==
  /\ reports > 0 /\ connect.at = "none"
  /\ reports' = reports - 1
  /\ IF closed \/ configError \/ installed = None
       THEN UNCHANGED <<installed, needsHub, lost>>
       ELSE /\ lost' = lost \union {[at |-> "disconnect", rt |-> installed]}
            /\ installed' = None /\ needsHub' = TRUE
  /\ UNCHANGED <<configError, closed, disposed, task, connect, inflight, factory, bounds,
                 disposing, closing, late, process, hub, handed, skipped>>

DisposeLost ==
  \E l \in lost :
    /\ l.at = "disconnect"
    /\ StartDispose(l.rt)
    /\ lost' = (lost \ {l}) \union {[l EXCEPT !.at = "dispose"]}
    /\ UNCHANGED <<installed, needsHub, configError, closed, task, connect, inflight,
                   factory, reports, bounds, closing, late, process, hub>>

\* Mutant: recovery starts only after a failed start().
EnsureNoRecovery == UNCHANGED task

EnsureRecovery ==
  task' = IF closed \/ configError \/ task \in Running THEN task ELSE "sleep"

\* A dispose that raises ends the handler before it comes to that.
LossHandled ==
  \E l \in lost :
    /\ l.at = "dispose" /\ l.rt \notin disposing
    /\ lost' = lost \ {l}
    /\ \/ l.rt \notin raised /\ EnsureRecovery
       \/ l.rt \in raised /\ task' = IF task = "none" THEN "unstarted" ELSE task
    /\ UNCHANGED <<controller, connect, inflight, factory, reports, bounds, disposing,
                   closing, late, process, hub, handed, skipped>>

----------------------------------------------------------------------------
(* Shutdown *)

\* The quote hub is closed and the recovery task canceled wherever it awaits; a
\* thread it started runs on.  Awaiting a task that died raises its exception.
Close ==
  /\ ~closed /\ closed' = TRUE
  /\ IF task = "start"
       THEN UNCHANGED <<task, connect>>
       ELSE task' = "none" /\ connect' = Free
  /\ stream' = None
  /\ IF task = "died"
       THEN closing' = [at |-> "aborted", rt |-> None] /\ UNCHANGED <<installed, disposal>>
       ELSE /\ closing' = [at |-> "dispose", rt |-> installed]
            /\ installed' = None
            /\ \/ installed # None /\ StartDispose(installed)
               \/ installed = None /\ UNCHANGED disposal
  /\ UNCHANGED <<needsHub, configError, inflight, factory, lost, reports, bounds, late,
                 process, streamGen, asking>>

\* A dispose that raised ends close() before the drain and the reset.
CloseDisposed ==
  /\ closing.at = "dispose" /\ closing.rt \notin disposing
  /\ closing' = [at |-> IF closing.rt \in raised THEN "aborted"
                        ELSE IF inflight THEN "drain" ELSE "reset", rt |-> None]
  /\ UNCHANGED <<controller, task, connect, inflight, factory, lost, reports, bounds,
                 disposing, late, process, hub, handed, skipped>>

\* The factory's result arrives in time.
Drain ==
  /\ closing.at = "drain" /\ factory.at \in {"done", "failed", "config"}
  /\ inflight' = FALSE
  /\ \/ /\ factory.at = "done" /\ StartDispose(factory.rt)
        /\ closing' = [at |-> "drained", rt |-> Awaited(factory.rt)]
     \/ /\ factory.at # "done" /\ UNCHANGED disposal
        /\ closing' = [at |-> "reset", rt |-> None]
  /\ UNCHANGED <<installed, needsHub, configError, closed, task, connect, factory, lost,
                 reports, bounds, late, process, hub>>

\* Mutant: a result after the timeout is forgotten.
DrainTimeoutForgets ==
  /\ closing.at = "drain" /\ factory.at \in {"run", "published"}
  /\ closing' = [at |-> "reset", rt |-> None]
  /\ UNCHANGED <<controller, task, connect, inflight, factory, lost, reports, bounds,
                 disposing, late, process, hub, handed, skipped>>

DrainTimeout ==
  /\ closing.at = "drain" /\ factory.at \in {"run", "published"}
  /\ late' = TRUE
  /\ closing' = [at |-> "reset", rt |-> None]
  /\ UNCHANGED <<controller, task, connect, inflight, factory, lost, reports, bounds,
                 disposing, process, hub, handed, skipped>>

Drained ==
  /\ closing.at = "drained" /\ closing.rt \notin disposing
  /\ closing' = [at |-> IF closing.rt \in raised THEN "aborted" ELSE "reset", rt |-> None]
  /\ UNCHANGED <<controller, task, connect, inflight, factory, lost, reports, bounds,
                 disposing, late, process, hub, handed, skipped>>

DisposeLate ==
  /\ late /\ factory.at \in {"done", "failed", "config"}
  /\ late' = FALSE
  /\ \/ factory.at = "done" /\ StartDispose(factory.rt)
     \/ factory.at # "done" /\ UNCHANGED disposal
  /\ UNCHANGED <<installed, needsHub, configError, closed, task, connect, inflight,
                 factory, lost, reports, bounds, closing, process, hub>>

----------------------------------------------------------------------------
(* Threads *)

\* close() of a runtime raises when its transport's I/O thread does not end within
\* two seconds; what the runtime owns stays.
CloseRaises(r) ==
  /\ r \in open /\ faults < MaxFaults /\ faults' = faults + 1
  /\ stuck' = stuck \union {r}
  /\ UNCHANGED open

Closes(r) == open' = open \ {r} /\ UNCHANGED <<stuck, faults>>

\* The address of a runtime nobody refers to any more can come again.
NewAddr == \E a \in Addrs \ {addr[r] : r \in open \ stuck} : addr' = [addr EXCEPT ![made + 1] = a]

\* A new runtime takes the slot.
Publish ==
  /\ factory.at = "run"
  /\ made' = made + 1 /\ NewAddr
  /\ open' = open \union {made + 1}
  /\ slot' = made + 1
  /\ factory' = [at |-> "published", rt |-> made + 1, previous |-> slot]
  /\ UNCHANGED <<controller, task, connect, inflight, lost, reports, bounds, disposing,
                 closing, late, stuck, raised, hub, handed, skipped>>

\* The previous runtime is closed; when that raises the new one stays in the slot,
\* but the controller does not get it.
Return ==
  /\ factory.at = "published"
  /\ \/ /\ Closes(factory.previous)
        /\ factory' = [factory EXCEPT !.at = "done"]
        /\ UNCHANGED skipped
     \/ /\ CloseRaises(factory.previous)
        /\ factory' = [factory EXCEPT !.at = "failed"]
        /\ skipped' = skipped \union {factory.rt}
  /\ UNCHANGED <<controller, task, connect, inflight, lost, reports, reported, disposing,
                 closing, late, slot, made, raised, addr, hub, handed>>

\* The runtime does not connect, and is closed before it is in the slot.
FactoryRaises ==
  /\ factory.at = "run"
  /\ \E result \in {"failed", "config"} : factory' = [factory EXCEPT !.at = result]
  /\ UNCHANGED <<controller, task, connect, inflight, lost, reports, bounds, disposing,
                 closing, late, process, hub, handed, skipped>>

\* That close raises, too.
FactoryLeaves ==
  /\ factory.at = "run"
  /\ faults < MaxFaults /\ faults' = faults + 1
  /\ made' = made + 1 /\ NewAddr
  /\ open' = open \union {made + 1} /\ stuck' = stuck \union {made + 1}
  /\ factory' = [factory EXCEPT !.at = "failed"]
  /\ UNCHANGED <<controller, task, connect, inflight, lost, reports, reported, disposing,
                 closing, late, slot, raised, hub, handed, skipped>>

\* discard_bigqmt_runtime, which raises what close() raises, or _close_runtime of
\* a runtime that lost the slot, which does not.
Dispose ==
  \E r \in disposing :
    /\ disposing' = disposing \ {r}
    /\ slot' = IF slot = r THEN None ELSE slot
    /\ \/ Closes(r) /\ UNCHANGED raised
       \/ CloseRaises(r) /\ raised' = IF slot = r THEN raised \union {r} ELSE raised
    /\ UNCHANGED <<controller, task, connect, inflight, factory, lost, reports, reported,
                   closing, late, made, addr, hub, handed, skipped>>

Reset ==
  /\ closing.at = "reset"
  /\ slot' = None /\ (Closes(slot) \/ CloseRaises(slot))
  /\ closing' = [closing EXCEPT !.at = "done"]
  /\ UNCHANGED <<controller, task, connect, inflight, factory, lost, reports, reported,
                 disposing, late, made, raised, addr, hub, handed, skipped>>

----------------------------------------------------------------------------
(* The realtime quote hub, with one key *)

Generation == IF slot = None THEN NoAddr ELSE addr[slot]

\* A client subscribes: a change of generation ends the old subscription.
Subscribe ==
  /\ ~closed /\ task # "start"
  /\ asking' = TRUE
  /\ stream' = IF streamGen \notin {NoAddr, Generation} THEN None ELSE stream
  /\ streamGen' = Generation
  /\ UNCHANGED <<controller, task, connect, inflight, factory, lost, reports, bounds,
                 disposing, closing, late, process, handed, skipped>>

\* The native call, when nobody has the key yet; it can fail.
Subscribed ==
  /\ asking /\ asking' = FALSE
  /\ \/ stream = None /\ slot \in open /\ stream' = slot
     \/ UNCHANGED stream
  /\ UNCHANGED <<controller, task, connect, inflight, factory, lost, reports, bounds,
                 disposing, closing, late, process, streamGen, handed, skipped>>

\* The last client leaves.
Unsubscribe ==
  /\ stream # None /\ stream' = None
  /\ UNCHANGED <<controller, task, connect, inflight, factory, lost, reports, bounds,
                 disposing, closing, late, process, streamGen, asking, handed, skipped>>

----------------------------------------------------------------------------
Connecting ==
  \/ Begin \/ ConnectFails \/ ConnectClosed \/ ClosedUndone \/ Install \/ DownloadsStarted
  \/ ManagerRaises \/ Undo \/ Undone \/ UndoRaises

Losing == Handle \/ DisposeLost \/ LossHandled

Closing == CloseDisposed \/ Drain \/ DrainTimeout \/ Drained \/ DisposeLate

\* A subscription's native call blocks the loop.
Loop(A) == ~asking /\ A

LoopStep == Loop(Connecting) \/ Loop(Losing) \/ Loop(Closing)

ThreadStep == Publish \/ Return \/ FactoryRaises \/ FactoryLeaves \/ Dispose \/ Reset

Environment == Report \/ Loop(Close \/ Subscribe \/ Unsubscribe)

Next == LoopStep \/ ThreadStep \/ Subscribed \/ Environment

Spec == Init /\ [][Next]_vars

\* The loop gives each of its tasks its turn, the threads run, a native call
\* ends, and QMT is not down for ever.
FairSpec ==
  /\ Spec
  /\ SF_vars(Loop(Connecting)) /\ SF_vars(Loop(Losing)) /\ SF_vars(Loop(Closing))
  /\ WF_vars(Dispose) /\ WF_vars(Return) /\ WF_vars(Reset) /\ WF_vars(Subscribed)
  /\ WF_vars(Publish \/ FactoryRaises \/ FactoryLeaves) /\ SF_vars(Publish)

----------------------------------------------------------------------------
\* No loss is forgotten: while the bridge is up and no configuration error
\* stopped it, an absent runtime is being awaited, connected or cleared away.  Only
\* a dispose that raised ends the task or handler that would bring one.
Attended == task \in Running \/ lost # {}

RecoveryUnderway ==
  installed = None /\ ~closed /\ ~configError => Attended \/ (task \in Ended /\ raised # {})

\* That not even such a dispose does so is what no run lists and TLC refutes.
AlwaysAttended == installed = None /\ ~closed /\ ~configError => Attended

\* The runtime the controller has is the one the module serves, and no other
\* holds sockets or threads but one whose close raised, even when a dispose was
\* skipped for its address.
OneRuntime ==
  installed # None => slot = installed /\ installed \in open /\ open \ {installed} \subseteq stuck

\* When recovery from a transport loss installs a runtime, no client is left on
\* an earlier one without having been told, unless that one's dispose was skipped.
StreamsFollow ==
  [][needsHub /\ installed' # None => stream' \in {None, installed'} \union skipped]_vars

\* An absent runtime is replaced, unless the bridge closes or is misconfigured, or
\* a dispose that raised ended the recovery.
Recovers ==
  installed = None /\ ~closed /\ ~configError ~>
    installed # None \/ closed \/ configError \/ task \in Ended

\* After a close() that raised nothing every runtime is closed in the end, one that
\* a factory returned after the drain timeout too, unless its dispose was skipped or
\* its own close raised.
CloseReleases == <>[](closed /\ closing.at # "aborted" => open \subseteq skipped \union stuck)

\* One runtime is served at a time and its clients know it: across losses,
\* recoveries and closes the controller, the module and the hub agree on which
\* (runtime_controller.py, bigqmt.py).
RuntimeOwned == [](TypeOK /\ OneRuntime) /\ StreamsFollow

=============================================================================
