-------------------------- MODULE HistoryDownload --------------------------
(***************************************************************************)
(* The resumable history-download jobs of the bridge: the job manager and  *)
(* its worker thread, the thread that makes the native calls of a batch,   *)
(* and the state files a restart begins from (routers/download.py,         *)
(* download_state.py), with the serialized native lane of helpers.py.      *)
(* Every action that changes a job saves it before it gives up the lock,   *)
(* so a job here is at once the object in memory and its file.             *)
(***************************************************************************)
EXTENDS Naturals, Sequences, FiniteSets

CONSTANTS
  Jobs,
  Stocks,
  Requests,      \* sets of symbols a job may ask for
  NoJob,
  NoStock,
  BatchSize,     \* batch_size
  MaxAttempts,   \* max_attempts of each job
  MaxCrashes     \* bound on bridge crashes

ASSUME DownloadAssumption ==
  /\ IsFiniteSet(Jobs)
  /\ NoJob \notin Jobs /\ NoStock \notin Stocks
  /\ Requests \in [Jobs -> SUBSET ((SUBSET Stocks) \ {{}})]
  /\ BatchSize \in Nat \ {0}
  /\ MaxAttempts \in [Jobs -> Nat \ {0}]
  /\ MaxCrashes \in Nat

VARIABLES
  stocks,    \* requested symbols
  status,
  result,    \* symbol_results
  failed,    \* failed_symbols
  invoked,   \* download_invoked_symbols
  inflight,  \* native_inflight_symbols
  stop,      \* stop_requested
  queue,     \* _queue
  worker,    \* the worker thread, in _run_job
  thread,    \* the thread of a batch, left to itself after a timeout
  stuck,     \* the lane is blocked until the bridge restarts
  crashes,
  seen,      \* symbols for which the job's latest history read found rows
  late,      \* native calls made after a cancel
  unknown    \* jobs with a native call in flight when the bridge crashed

record == <<stocks, status, result, failed, invoked, inflight, stop>>
ghosts == <<seen, late, unknown>>
vars == <<record, queue, worker, thread, stuck, crashes, ghosts>>

Ended   == {"completed", "failed", "canceled", "requires_reconciliation"}
Working == {"queued", "running", "paused_market_hours"}

Idle     == [at |-> "idle", job |-> NoJob, todo |-> {}, batch |-> {},
             asked |-> {}, retry |-> {}, attempt |-> 0]
NoThread == [at |-> "none", job |-> NoJob, left |-> {}, stock |-> NoStock, outcome |-> "none"]

Results  == {"none", "ok", "target_missing", "transport_stuck", "error"}
Workers  == [at : {"idle", "popped", "loop", "paused", "batch", "grace", "retry"},
             job : Jobs \union {NoJob}, todo : SUBSET Stocks, batch : SUBSET Stocks,
             asked : SUBSET Stocks, retry : SUBSET Stocks, attempt : Nat]
Threads  == [at : {"none", "check", "armed", "entered", "native", "record", "done"},
             job : Jobs \union {NoJob}, left : SUBSET Stocks,
             stock : Stocks \union {NoStock}, outcome : {"none", "ok", "stuck", "error"}]

TypeOK ==
  /\ stocks \in [Jobs -> SUBSET Stocks]
  /\ status \in [Jobs -> Working \union Ended \union {"absent"}]
  /\ result \in [Jobs -> [Stocks -> Results]]
  /\ failed \in [Jobs -> SUBSET Stocks] /\ invoked \in [Jobs -> SUBSET Stocks]
  /\ inflight \in [Jobs -> SUBSET Stocks]
  /\ stop \in [Jobs -> BOOLEAN]
  /\ queue \in Seq(Jobs)
  /\ worker \in Workers /\ thread \in Threads
  /\ worker.at = "idle" <=> worker.job = NoJob
  /\ thread.at = "none" <=> thread.job = NoJob
  /\ thread.at \in {"armed", "entered", "native", "record"} => thread.stock # NoStock
  /\ stuck \in BOOLEAN
  /\ crashes \in 0 .. MaxCrashes
  /\ seen \in [Jobs -> SUBSET Stocks]
  /\ late \in [Jobs -> Nat]
  /\ unknown \subseteq Jobs

Init ==
  /\ stocks = [j \in Jobs |-> {}] /\ status = [j \in Jobs |-> "absent"]
  /\ result = [j \in Jobs |-> [s \in Stocks |-> "none"]]
  /\ failed = [j \in Jobs |-> {}] /\ invoked = [j \in Jobs |-> {}]
  /\ inflight = [j \in Jobs |-> {}] /\ stop = [j \in Jobs |-> FALSE]
  /\ queue = <<>>
  /\ worker = Idle /\ thread = NoThread
  /\ stuck = FALSE /\ crashes = 0
  /\ seen = [j \in Jobs |-> {}] /\ late = [j \in Jobs |-> 0] /\ unknown = {}

\* The worker is at the head of its loop over batches, with S left to do.
Loop(j, S) == [Idle EXCEPT !.at = "loop", !.job = j, !.todo = S]

Ok(j) == {s \in Stocks : result[j][s] = "ok"}

\* Mutant: a cancel is looked for in the status, which only a queued job changes.
StopRequestedByStatus(j) == status[j] = "canceled"

StopRequested(j) == stop[j]

SetStatus(j, st) == status' = [status EXCEPT ![j] = st]

----------------------------------------------------------------------------
(* The HTTP handlers *)

Submit(j) ==
  /\ status[j] = "absent"
  /\ \E S \in Requests[j] : stocks' = [stocks EXCEPT ![j] = S]
  /\ SetStatus(j, "queued")
  /\ queue' = Append(queue, j)
  /\ UNCHANGED <<result, failed, invoked, inflight, stop, worker, thread, stuck, crashes, ghosts>>

\* A job the worker has just taken is no longer there.
Dequeue(j) ==
  \/ (\A i \in 1 .. Len(queue) : queue[i] # j) /\ UNCHANGED queue
  \/ \E i \in 1 .. Len(queue) :
       /\ queue[i] = j
       /\ queue' = SubSeq(queue, 1, i - 1) \o SubSeq(queue, i + 1, Len(queue))

Cancel(j) ==
  /\ status[j] # "absent"
  /\ stop' = [stop EXCEPT ![j] = TRUE]
  /\ IF status[j] = "queued"
       THEN SetStatus(j, "canceled") /\ Dequeue(j)
       ELSE UNCHANGED <<status, queue>>
  /\ UNCHANGED <<stocks, result, failed, invoked, inflight, worker, thread, stuck, crashes, ghosts>>

----------------------------------------------------------------------------
(* The worker thread, on the job it has taken *)

\* Any thread left over is joined first.
Pop ==
  /\ worker.at = "idle" /\ thread.at = "none" /\ queue # <<>>
  /\ worker' = [Idle EXCEPT !.at = "popped", !.job = Head(queue)]
  /\ queue' = Tail(queue)
  /\ UNCHANGED <<record, thread, stuck, crashes, ghosts>>

\* A history read of S finds rows for all but M; a failed read finds none.
ReadRows(j, S, M) ==
  /\ M \subseteq S /\ (stuck => M = S)
  /\ seen' = [seen EXCEPT ![j] = (@ \ M) \union (S \ M)]

\* Success of an earlier process is rechecked.
StartJob(j) ==
  /\ worker.at = "popped"
  /\ SetStatus(j, "running")
  /\ \E M \in SUBSET Ok(j) :
       /\ ReadRows(j, Ok(j), M)
       /\ worker' = Loop(j, (stocks[j] \ Ok(j)) \union M)
  /\ UNCHANGED <<stocks, result, failed, invoked, inflight, stop, queue, thread, stuck, crashes, late, unknown>>

MarkCanceled(j) ==
  /\ SetStatus(j, "canceled")
  /\ worker' = Idle
  /\ UNCHANGED <<stocks, result, failed, invoked, inflight, stop, queue, stuck, crashes, ghosts>>

StopAtLoop(j) ==
  /\ worker.at = "loop" /\ worker.todo # {} /\ StopRequested(j)
  /\ MarkCanceled(j) /\ UNCHANGED thread

\* A thread starts on the symbols S.
Ask(j, S, w) ==
  /\ worker' = [w EXCEPT !.at = "batch", !.asked = S]
  /\ thread' = [NoThread EXCEPT !.at = "check", !.job = j, !.left = S]

TakeBatch(j) ==
  /\ \E B \in SUBSET worker.todo :
       /\ Cardinality(B) = IF Cardinality(worker.todo) < BatchSize
                             THEN Cardinality(worker.todo) ELSE BatchSize
       /\ Ask(j, B, [worker EXCEPT !.todo = @ \ B, !.batch = B, !.retry = {}, !.attempt = 1])
  /\ SetStatus(j, "running")
  /\ UNCHANGED <<stocks, result, failed, invoked, inflight, stop, queue, stuck, crashes, ghosts>>

StartBatch(j) ==
  /\ worker.at = "loop" /\ worker.todo # {} /\ ~StopRequested(j)
  /\ TakeBatch(j)

\* The market is open: no batch starts.
PauseForMarket(j) ==
  /\ worker.at = "loop" /\ worker.todo # {} /\ ~StopRequested(j)
  /\ SetStatus(j, "paused_market_hours")
  /\ worker' = [worker EXCEPT !.at = "paused"]
  /\ UNCHANGED <<stocks, result, failed, invoked, inflight, stop, queue, thread, stuck, crashes, ghosts>>

Resume(j) ==
  /\ worker.at = "paused"
  /\ \/ StopRequested(j) /\ MarkCanceled(j) /\ UNCHANGED thread
     \/ ~StopRequested(j) /\ TakeBatch(j)

FinishJob(j) ==
  /\ worker.at = "loop" /\ worker.todo = {}
  /\ SetStatus(j, IF (\E s \in Stocks : result[j][s] = "transport_stuck") \/ failed[j] = stocks[j]
                    THEN "failed" ELSE "completed")
  /\ worker' = Idle
  /\ UNCHANGED <<stocks, result, failed, invoked, inflight, stop, queue, thread, stuck, crashes, ghosts>>

----------------------------------------------------------------------------
(* The worker thread, on what became of a batch *)

\* A symbol that is already ok keeps its result.
Mark(j, S, r) ==
  LET new == {s \in S : result[j][s] # "ok"}
  IN /\ result' = [result EXCEPT ![j] = [s \in Stocks |-> IF s \in new THEN r ELSE @[s]]]
     /\ failed' = [failed EXCEPT ![j] = IF r = "ok" THEN @ ELSE @ \union new]

\* The thread is waited for up to the batch or no-progress timeout, then for a
\* grace period.
BatchTimeout ==
  /\ worker.at = "batch" /\ thread.at # "done"
  /\ worker' = [worker EXCEPT !.at = "grace"]
  /\ UNCHANGED <<record, queue, thread, stuck, crashes, ghosts>>

Returned(o) == worker.at = "batch" /\ thread.at = "done" /\ thread.outcome = o

\* Mutant: the rows are not looked for.
BatchOkUnread(j) ==
  /\ Returned("ok")
  /\ thread' = NoThread /\ UNCHANGED <<stuck, seen>>

\* What _run_batch returns: after a good call the rows must be visible.
BatchOk(j) ==
  /\ Returned("ok")
  /\ ReadRows(j, worker.asked, {})
  /\ thread' = NoThread /\ UNCHANGED stuck

BatchMissing(j) ==
  /\ Returned("ok")
  /\ \E M \in (SUBSET worker.asked) \ {{}} : ReadRows(j, worker.asked, M)
  /\ thread' = NoThread /\ UNCHANGED stuck

\* A thread that outlives the grace period blocks the lane and is left alone.
BatchStuck ==
  /\ \/ Returned("stuck") /\ thread' = NoThread /\ UNCHANGED stuck
     \/ worker.at = "grace" /\ thread.at # "done" /\ stuck' = TRUE /\ UNCHANGED thread
  /\ UNCHANGED seen

\* An error, a timeout or a call given up for a cancel.
BatchError ==
  /\ Returned("error") \/ (worker.at = "grace" /\ thread.at = "done")
  /\ thread' = NoThread /\ UNCHANGED <<stuck, seen>>

\* The rest of the job cannot run: on to the end of _run_job.
GiveUp(j, S) ==
  /\ Mark(j, S, "transport_stuck")
  /\ worker' = Loop(j, {})

FirstAttempt(j) ==
  /\ worker.attempt = 1
  /\ \/ /\ BatchOk(j) /\ Mark(j, worker.asked, "ok")
        /\ worker' = Loop(j, worker.todo) /\ UNCHANGED status
     \/ /\ BatchMissing(j) /\ Mark(j, worker.asked, "target_missing")
        /\ worker' = Loop(j, worker.todo) /\ UNCHANGED status
     \/ /\ BatchStuck /\ GiveUp(j, worker.asked \union worker.todo) /\ UNCHANGED status
     \/ /\ BatchError /\ StopRequested(j)
        /\ SetStatus(j, "canceled") /\ worker' = Idle /\ UNCHANGED <<result, failed>>
     \/ /\ BatchError /\ ~StopRequested(j)
        /\ worker' = [worker EXCEPT !.at = "retry", !.retry = worker.batch]
        /\ UNCHANGED <<status, result, failed>>
  /\ UNCHANGED <<stocks, invoked, inflight, stop, queue, crashes, late, unknown>>

NextSymbol == worker' = [worker EXCEPT !.at = "retry", !.retry = @ \ worker.asked]

\* The body of _retry_symbol's loop; a cancel leaves the symbol unmarked.
Retried(j) ==
  /\ worker.attempt > 1
  /\ \/ BatchOk(j) /\ Mark(j, worker.asked, "ok") /\ NextSymbol
     \/ BatchStuck /\ GiveUp(j, worker.retry \union worker.todo)
     \/ /\ BatchMissing(j) \/ BatchError
        /\ StopRequested(j) /\ NextSymbol /\ UNCHANGED <<result, failed>>
     \/ /\ \/ BatchMissing(j) /\ Mark(j, worker.asked, "target_missing")
           \/ BatchError /\ Mark(j, worker.asked, "error")
        /\ ~StopRequested(j) /\ worker.attempt = MaxAttempts[j] /\ NextSymbol
  /\ UNCHANGED <<stocks, status, invoked, inflight, stop, queue, crashes, late, unknown>>

RetryAgain(j) ==
  /\ worker.attempt > 1 /\ ~StopRequested(j) /\ worker.attempt < MaxAttempts[j]
  /\ \/ Returned("ok") /\ \E M \in (SUBSET worker.asked) \ {{}} : ReadRows(j, worker.asked, M)
     \/ Returned("error") /\ UNCHANGED seen
     \/ worker.at = "grace" /\ thread.at = "done" /\ UNCHANGED seen
  /\ Ask(j, worker.asked, [worker EXCEPT !.attempt = @ + 1])
  /\ UNCHANGED <<record, queue, stuck, crashes, late, unknown>>

\* The symbols of a failed batch are retried one by one.  A batch of one does
\* not look for a cancel first.
RetrySymbol(j) ==
  /\ worker.at = "retry"
  /\ \/ /\ worker.retry # {} /\ StopRequested(j) /\ Cardinality(worker.batch) > 1
        /\ MarkCanceled(j) /\ UNCHANGED thread
     \/ /\ StopRequested(j) => Cardinality(worker.batch) = 1
        /\ \E s \in worker.retry :
             \/ MaxAttempts[j] > 1 /\ Ask(j, {s}, [worker EXCEPT !.attempt = 2]) /\ UNCHANGED record
             \/ /\ MaxAttempts[j] = 1
                /\ Mark(j, {s}, "error")
                /\ worker' = [worker EXCEPT !.retry = @ \ {s}]
                /\ UNCHANGED <<stocks, status, invoked, inflight, stop, thread>>
        /\ UNCHANGED <<queue, stuck, crashes, ghosts>>
     \/ /\ worker.retry = {}
        /\ worker' = Loop(j, worker.todo)
        /\ UNCHANGED <<record, queue, thread, stuck, crashes, ghosts>>

WorkerStep ==
  \/ Pop
  \/ \E j \in Jobs :
       /\ worker.job = j
       /\ \/ StartJob(j) \/ StopAtLoop(j) \/ StartBatch(j) \/ PauseForMarket(j) \/ Resume(j)
          \/ FirstAttempt(j) \/ Retried(j) \/ RetryAgain(j) \/ RetrySymbol(j) \/ FinishJob(j)

----------------------------------------------------------------------------
(* The thread of a batch *)

\* Nobody waits for the result of a thread that was left alone.
ThreadEnds(j, o) ==
  /\ thread' = IF worker.at \in {"batch", "grace"}
                 THEN [NoThread EXCEPT !.at = "done", !.job = j, !.outcome = o] ELSE NoThread
  /\ inflight' = [inflight EXCEPT ![j] = {}]

Rest == <<stocks, status, result, failed, stop, queue, worker, stuck, crashes, seen, unknown>>

\* Mutant: the native call is not recorded before it is made.
CheckNextUnrecorded(j) ==
  /\ thread.at = "check"
  /\ \/ thread.left = {} /\ ThreadEnds(j, "ok")
     \/ thread.left # {} /\ StopRequested(j) /\ ThreadEnds(j, "error")
     \/ \E s \in thread.left :
          /\ ~StopRequested(j)
          /\ thread' = [thread EXCEPT !.at = "armed", !.stock = s]
          /\ UNCHANGED inflight
  /\ UNCHANGED <<Rest, invoked, late>>

\* The symbol is saved as in flight before the lane is entered.
CheckNext(j) ==
  /\ thread.at = "check"
  /\ \/ thread.left = {} /\ ThreadEnds(j, "ok")
     \/ thread.left # {} /\ StopRequested(j) /\ ThreadEnds(j, "error")
     \/ \E s \in thread.left :
          /\ ~StopRequested(j)
          /\ thread' = [thread EXCEPT !.at = "armed", !.stock = s]
          /\ inflight' = [inflight EXCEPT ![j] = {s}]
  /\ UNCHANGED <<Rest, invoked, late>>

\* The lane is refused, not reached in time or, after a cancel, not used.
EnterLane(j) ==
  /\ thread.at = "armed"
  /\ \/ stuck /\ ThreadEnds(j, "stuck")
     \/ ~stuck /\ ThreadEnds(j, "error")
     \/ /\ ~stuck /\ ~StopRequested(j)
        /\ thread' = [thread EXCEPT !.at = "entered"] /\ UNCHANGED inflight
  /\ UNCHANGED <<Rest, invoked, late>>

\* A cancel may come between the last look at it and the call.
CallNative(j) ==
  /\ thread.at = "entered"
  /\ thread' = [thread EXCEPT !.at = "native"]
  /\ late' = IF stop[j] THEN [late EXCEPT ![j] = @ + 1] ELSE late
  /\ UNCHANGED <<Rest, invoked, inflight>>

\* An RPC timeout is one of the errors.
NativeReturns(j) ==
  /\ thread.at = "native"
  /\ \/ /\ thread' = [thread EXCEPT !.at = "record"]
        /\ inflight' = [inflight EXCEPT ![j] = {}]
     \/ ThreadEnds(j, "error")
  /\ UNCHANGED <<Rest, invoked, late>>

RecordInvocation(j) ==
  /\ thread.at = "record"
  /\ invoked' = [invoked EXCEPT ![j] = @ \union {thread.stock}]
  /\ thread' = [thread EXCEPT !.at = "check", !.left = @ \ {thread.stock}, !.stock = NoStock]
  /\ UNCHANGED <<Rest, inflight, late>>

ThreadStep ==
  \E j \in Jobs :
    /\ thread.job = j
    /\ CheckNext(j) \/ EnterLane(j) \/ CallNative(j) \/ NativeReturns(j) \/ RecordInvocation(j)

----------------------------------------------------------------------------
(* The bridge crashes and starts again from the state files *)

\* Mutant: a job paused for market hours is not restored.
RestoredActive == {j \in Jobs : status[j] \in {"queued", "running"} /\ inflight[j] = {}}

Restored == {j \in Jobs : status[j] \in Working /\ inflight[j] = {}}

\* Files are read in the order of their random names.
Crash ==
  /\ crashes < MaxCrashes /\ crashes' = crashes + 1
  /\ status' = [j \in Jobs |-> IF inflight[j] # {} THEN "requires_reconciliation"
                               ELSE IF j \in Restored THEN "queued" ELSE status[j]]
  /\ \E q \in [1 .. Cardinality(Restored) -> Restored] :
       /\ \A j \in Restored : \E i \in DOMAIN q : q[i] = j
       /\ queue' = q
  /\ worker' = Idle /\ thread' = NoThread /\ stuck' = FALSE
  /\ unknown' = unknown \union {j \in Jobs : thread.at = "native" /\ thread.job = j}
  /\ UNCHANGED <<stocks, result, failed, invoked, inflight, stop, seen, late>>

Next ==
  \/ \E j \in Jobs : Submit(j) \/ Cancel(j)
  \/ WorkerStep \/ BatchTimeout \/ ThreadStep \/ Crash

Spec == Init /\ [][Next]_vars

\* Both threads run, a native call ends (its RPC has a deadline) and the market closes.
FairSpec == Spec /\ WF_vars(WorkerStep) /\ WF_vars(ThreadStep)

----------------------------------------------------------------------------
\* A native call whose outcome a crash left unknown is never made again.
UnknownNotReplayed == thread.at = "native" => thread.job \notin unknown

\* After a cancel at most the call on its way to QMT is still made, whatever
\* batches, retries, timeouts and restarts follow.
CancelStopsCalls == \A j \in Jobs : late[j] <= 1

\* A symbol is reported ok only when its native call returned and, within one
\* process, the job's latest read of it found rows.
OkIsEarned ==
  \A j \in Jobs : Ok(j) \subseteq invoked[j] /\ (crashes = 0 => Ok(j) \subseteq seen[j])

\* A job completes with a result for every symbol, unless it was canceled.
CompletedAccounts ==
  \A j \in Jobs : status[j] = "completed" =>
    stop[j] \/ \A s \in stocks[j] : result[j][s] # "none"

\* When a job completes with history_visibility_verified, its latest read of
\* every symbol found rows.
VerifiedHasRows ==
  \A j \in Jobs : status[j] = "completed" /\ stocks[j] \subseteq Ok(j) => stocks[j] \subseteq seen[j]

\* Every job that waits, runs or is paused comes to an end.
EveryJobEnds == \A j \in Jobs : status[j] \in Working ~> status[j] \in Ended

\* What a job reports of its symbols was earned by calls and reads of it, and a
\* completed job accounts for each of them (download.py, _run_job).
ResultsAreEarned == TypeOK /\ OkIsEarned /\ CompletedAccounts

=============================================================================
