----------------------- MODULE HistoryDownloadProofs -----------------------
(***************************************************************************)
(* Proofs about HistoryDownload, for any number of jobs, symbols, retries  *)
(* and crashes.                                                            *)
(***************************************************************************)
EXTENDS HistoryDownload, FiniteSetTheorems, SequenceTheorems, TLAPS

----------------------------------------------------------------------------
(* Types *)

\* Only finitely many jobs wait to be restored.
LEMMA RestoredFinite == Cardinality(Restored) \in Nat
BY FS_Subset, FS_CardinalityType, DownloadAssumption DEF Restored

\* Building blocks of the threads' states.
LEMMA StateTypes ==
  /\ Idle \in Workers /\ NoThread \in Threads
  /\ \A j \in Jobs, S \in SUBSET Stocks :
       /\ Loop(j, S) \in Workers
       /\ [NoThread EXCEPT !.at = "check", !.job = j, !.left = S] \in Threads
  /\ \A j \in Jobs, o \in {"ok", "stuck", "error"} :
       [NoThread EXCEPT !.at = "done", !.job = j, !.outcome = o] \in Threads
<1>1. Idle \in Workers /\ NoThread \in Threads
  BY DEF Idle, NoThread, Workers, Threads
<1>2. ASSUME NEW j \in Jobs, NEW S \in SUBSET Stocks
      PROVE  /\ Loop(j, S) \in Workers
             /\ [NoThread EXCEPT !.at = "check", !.job = j, !.left = S] \in Threads
  BY DEF Loop, Idle, NoThread, Workers, Threads
<1>3. ASSUME NEW j \in Jobs, NEW o \in {"ok", "stuck", "error"}
      PROVE  [NoThread EXCEPT !.at = "done", !.job = j, !.outcome = o] \in Threads
  BY DEF NoThread, Threads
<1>4. QED
  BY <1>1, <1>2, <1>3

\* Taking a job out of the queue leaves a queue, of jobs that were in it.
LEMMA DequeueType ==
  ASSUME queue \in Seq(Jobs), NEW j \in Jobs, Dequeue(j)
  PROVE  /\ queue' \in Seq(Jobs)
         /\ \A k \in 1 .. Len(queue') : \E i \in 1 .. Len(queue) : queue'[k] = queue[i]
<1>1. CASE UNCHANGED queue
  BY <1>1
<1>2. ASSUME NEW i \in 1 .. Len(queue),
             queue' = SubSeq(queue, 1, i - 1) \o SubSeq(queue, i + 1, Len(queue))
      PROVE  /\ queue' \in Seq(Jobs)
             /\ \A k \in 1 .. Len(queue') : \E n \in 1 .. Len(queue) : queue'[k] = queue[n]
  <2> DEFINE s == SubSeq(queue, 1, i - 1)
             t == SubSeq(queue, i + 1, Len(queue))
  <2>1. /\ s \in Seq(Jobs) /\ Len(s) = i - 1
        /\ \A k \in 1 .. Len(s) : s[k] = queue[k]
    BY SubSeqProperties
  <2>2. /\ t \in Seq(Jobs) /\ Len(t) = Len(queue) - i
        /\ \A k \in 1 .. Len(t) : t[k] = queue[i + k]
    BY SubSeqProperties
  <2> HIDE DEF s, t
  <2>3. queue' = s \o t
    BY <1>2 DEF s, t
  <2>4. /\ queue' \in Seq(Jobs) /\ Len(queue') = Len(s) + Len(t)
        /\ \A k \in 1 .. Len(s) + Len(t) : queue'[k] = IF k <= Len(s) THEN s[k] ELSE t[k - Len(s)]
    BY <2>1, <2>2, <2>3, ConcatProperties
  <2>5. ASSUME NEW k \in 1 .. Len(queue')
        PROVE  \E n \in 1 .. Len(queue) : queue'[k] = queue[n]
    <3>1. CASE k <= Len(s)
      BY <3>1, <2>1, <2>4
    <3>2. CASE k > Len(s)
      <4>1. k - Len(s) \in 1 .. Len(t) /\ i + (k - Len(s)) \in 1 .. Len(queue)
        BY <3>2, <2>1, <2>2, <2>4
      <4>2. queue'[k] = queue[i + (k - Len(s))]
        BY <3>2, <4>1, <2>1, <2>2, <2>4
      <4>3. QED
        BY <4>1, <4>2
    <3>3. QED
      BY <3>1, <3>2, <2>1
  <2>6. QED
    BY <2>4, <2>5
<1>3. QED
  BY <1>1, <1>2 DEF Dequeue

\* Handlers of HTTP requests keep every variable in its type.
LEMMA HandlerType ==
  ASSUME TypeOK, NEW j \in Jobs, Submit(j) \/ Cancel(j)
  PROVE  TypeOK'
<1>1. CASE Submit(j)
  <2>1. queue' \in Seq(Jobs)
    BY <1>1 DEF Submit, TypeOK
  <2>2. stocks' \in [Jobs -> SUBSET Stocks]
    <3>1. PICK S \in Requests[j] : stocks' = [stocks EXCEPT ![j] = S]
      BY <1>1 DEF Submit
    <3>2. S \in SUBSET Stocks
      BY DownloadAssumption
    <3>3. QED
      BY <3>1, <3>2 DEF TypeOK
  <2>3. QED
    BY <1>1, <2>1, <2>2 DEF TypeOK, Submit, SetStatus, Working, Ended, ghosts
<1>2. CASE Cancel(j)
  <2>1. queue' \in Seq(Jobs)
    BY <1>2, DequeueType DEF TypeOK, Cancel
  <2>2. QED
    BY <1>2, <2>1 DEF TypeOK, Cancel, SetStatus, Working, Ended, ghosts
<1>3. QED
  BY <1>1, <1>2

\* Marking results keeps their types.
LEMMA MarkType ==
  ASSUME TypeOK, NEW j \in Jobs, NEW S \in SUBSET Stocks, NEW r \in Results, Mark(j, S, r)
  PROVE  /\ result' \in [Jobs -> [Stocks -> Results]]
         /\ failed' \in [Jobs -> SUBSET Stocks]
BY DEF TypeOK, Mark

\* A history read keeps the type of what was seen.
LEMMA ReadType ==
  ASSUME TypeOK, NEW j \in Jobs, NEW S \in SUBSET Stocks, NEW M, ReadRows(j, S, M)
  PROVE  seen' \in [Jobs -> SUBSET Stocks]
BY DEF TypeOK, ReadRows

\* Starting a thread on S.
LEMMA AskType ==
  ASSUME NEW j \in Jobs, NEW S \in SUBSET Stocks, NEW w \in Workers, w.job = j, Ask(j, S, w)
  PROVE  /\ worker' \in Workers /\ thread' \in Threads
         /\ worker'.at = "batch" /\ worker'.job = j
         /\ thread'.at = "check" /\ thread'.job = j
<1>1. worker' = [w EXCEPT !.at = "batch", !.asked = S]
  BY DEF Ask
<1>2. thread' = [NoThread EXCEPT !.at = "check", !.job = j, !.left = S]
  BY DEF Ask
<1>3. QED
  BY <1>1, <1>2, StateTypes DEF Workers, NoThread

\* Steps of the worker before and after its batches.
LEMMA WorkerType ==
  ASSUME TypeOK, NEW j \in Jobs, worker.job = j,
         StartJob(j) \/ StopAtLoop(j) \/ StartBatch(j) \/ PauseForMarket(j) \/ Resume(j) \/ FinishJob(j)
  PROVE  TypeOK'
<1> USE DownloadAssumption DEF TypeOK, SetStatus, Working, Ended, ghosts
<1>1. CASE StartJob(j)
  <2>1. Ok(j) \in SUBSET Stocks
    BY DEF Ok
  <2>2. seen' \in [Jobs -> SUBSET Stocks]
    BY <1>1, <2>1, ReadType DEF StartJob
  <2>3. PICK M \in SUBSET Ok(j) : worker' = Loop(j, (stocks[j] \ Ok(j)) \union M)
    BY <1>1 DEF StartJob
  <2>4. (stocks[j] \ Ok(j)) \union M \in SUBSET Stocks
    BY <2>1
  <2>5. worker' \in Workers /\ worker'.at = "loop" /\ worker'.job = j
    BY <2>3, <2>4, StateTypes DEF Loop, Idle
  <2>6. QED
    BY <1>1, <2>2, <2>5 DEF StartJob
<1>2. ASSUME TakeBatch(j) PROVE TypeOK'
  <2>1. PICK B \in SUBSET worker.todo :
          Ask(j, B, [worker EXCEPT !.todo = @ \ B, !.batch = B, !.retry = {}, !.attempt = 1])
    BY <1>2 DEF TakeBatch
  <2> DEFINE w == [worker EXCEPT !.todo = @ \ B, !.batch = B, !.retry = {}, !.attempt = 1]
  <2>2. B \in SUBSET Stocks /\ w \in Workers /\ w.job = j
    BY DEF Workers
  <2>3. /\ worker' \in Workers /\ thread' \in Threads
        /\ worker'.at = "batch" /\ worker'.job = j
        /\ thread'.at = "check" /\ thread'.job = j
    BY <2>1, <2>2, AskType
  <2>4. QED
    BY <1>2, <2>3 DEF TakeBatch
<1>3. ASSUME MarkCanceled(j), UNCHANGED thread PROVE TypeOK'
  <2>1. worker' = Idle /\ worker' \in Workers
    BY <1>3, StateTypes DEF MarkCanceled
  <2>2. QED
    BY <1>3, <2>1 DEF MarkCanceled, Idle
<1>4. CASE PauseForMarket(j)
  <2>1. worker' \in Workers /\ worker'.at = "paused" /\ worker'.job = j
    BY <1>4 DEF PauseForMarket, Workers
  <2>2. QED
    BY <1>4, <2>1 DEF PauseForMarket
<1>5. CASE FinishJob(j)
  <2>1. worker' = Idle /\ worker' \in Workers
    BY <1>5, StateTypes DEF FinishJob
  <2>2. QED
    BY <1>5, <2>1 DEF FinishJob, Idle
<1>6. QED
  BY <1>1, <1>2, <1>3, <1>4, <1>5 DEF StopAtLoop, StartBatch, Resume

\* What became of a batch keeps every variable in its type.
LEMMA BatchType ==
  ASSUME TypeOK, NEW j \in Jobs, worker.job = j,
         BatchOk(j) \/ BatchMissing(j) \/ BatchStuck \/ BatchError
  PROVE  /\ seen' \in [Jobs -> SUBSET Stocks]
         /\ thread' \in Threads /\ (thread'.at = "none" <=> thread'.job = NoJob)
         /\ thread'.at \in {"armed", "entered", "native", "record"} => thread'.stock # NoStock
         /\ stuck' \in BOOLEAN
<1>1. worker.asked \in SUBSET Stocks
  BY DEF TypeOK, Workers
<1>2. NoThread \in Threads /\ NoThread.at = "none" /\ NoThread.job = NoJob
  BY StateTypes DEF NoThread
<1>3. CASE BatchOk(j)
  <2>1. seen' \in [Jobs -> SUBSET Stocks]
    BY <1>3, <1>1, ReadType DEF BatchOk
  <2>2. QED
    BY <1>3, <1>2, <2>1 DEF BatchOk, TypeOK
<1>4. CASE BatchMissing(j)
  <2>1. seen' \in [Jobs -> SUBSET Stocks]
    BY <1>4, <1>1, ReadType DEF BatchMissing
  <2>2. QED
    BY <1>4, <1>2, <2>1 DEF BatchMissing, TypeOK
<1>5. CASE BatchStuck
  BY <1>5, <1>2 DEF BatchStuck, TypeOK
<1>6. CASE BatchError
  BY <1>6, <1>2 DEF BatchError, TypeOK
<1>7. QED
  BY <1>3, <1>4, <1>5, <1>6

\* The states the worker goes to when a batch is done.
LEMMA LoopType ==
  ASSUME NEW j \in Jobs, NEW S \in SUBSET Stocks, worker' = Loop(j, S)
  PROVE  worker' \in Workers /\ worker'.at = "loop" /\ worker'.job = j
<1>1. Loop(j, S) \in Workers
  BY StateTypes
<1>2. Loop(j, S).at = "loop" /\ Loop(j, S).job = j
  BY DEF Loop, Idle
<1>3. QED
  BY <1>1, <1>2

LEMMA IdleType ==
  ASSUME worker' = Idle
  PROVE  worker' \in Workers /\ worker'.at = "idle" /\ worker'.job = NoJob
BY StateTypes DEF Idle

LEMMA RetryStateType ==
  ASSUME TypeOK, NEW S \in SUBSET Stocks, worker' = [worker EXCEPT !.at = "retry", !.retry = S]
  PROVE  worker' \in Workers /\ worker'.at = "retry" /\ worker'.job = worker.job
BY DEF TypeOK, Workers

\* The worker after its first or a later attempt at a batch.
LEMMA AttemptType ==
  ASSUME TypeOK, NEW j \in Jobs, worker.job = j,
         FirstAttempt(j) \/ Retried(j)
  PROVE  TypeOK'
<1>1. worker.at # "idle" /\ j # NoJob
  BY DownloadAssumption DEF TypeOK
<1>2. /\ seen' \in [Jobs -> SUBSET Stocks]
      /\ thread' \in Threads /\ (thread'.at = "none" <=> thread'.job = NoJob)
      /\ thread'.at \in {"armed", "entered", "native", "record"} => thread'.stock # NoStock
      /\ stuck' \in BOOLEAN
  BY BatchType DEF FirstAttempt, Retried
<1>3. \A S \in SUBSET Stocks, r \in Results : Mark(j, S, r) =>
        result' \in [Jobs -> [Stocks -> Results]] /\ failed' \in [Jobs -> SUBSET Stocks]
  BY MarkType
<1>4. result' \in [Jobs -> [Stocks -> Results]] /\ failed' \in [Jobs -> SUBSET Stocks]
  <2>1. /\ worker.asked \in SUBSET Stocks
        /\ worker.asked \union worker.todo \in SUBSET Stocks
        /\ worker.retry \union worker.todo \in SUBSET Stocks
    BY DEF TypeOK, Workers
  <2>2. {"ok", "target_missing", "transport_stuck", "error"} \subseteq Results
    BY DEF Results
  <2>3. CASE UNCHANGED <<result, failed>>
    BY <2>3 DEF TypeOK
  <2>4. QED
    BY <2>1, <2>2, <2>3, <1>3 DEF FirstAttempt, Retried, GiveUp
<1>5. worker' \in Workers /\ (worker'.at = "idle" <=> worker'.job = NoJob)
  <2>1. \/ worker' = Loop(j, worker.todo) \/ worker' = Loop(j, {}) \/ worker' = Idle
        \/ worker' = [worker EXCEPT !.at = "retry", !.retry = worker.batch]
        \/ worker' = [worker EXCEPT !.at = "retry", !.retry = worker.retry \ worker.asked]
    BY DEF FirstAttempt, Retried, GiveUp, NextSymbol
  <2>2. worker.retry \ worker.asked \in SUBSET Stocks /\ {} \in SUBSET Stocks
    BY DEF TypeOK, Workers
  <2>3. CASE \E S \in SUBSET Stocks : worker' = Loop(j, S)
    BY <1>1, <2>3, LoopType
  <2>4. CASE worker' = Idle
    BY <2>4, IdleType
  <2>5. CASE \E S \in SUBSET Stocks : worker' = [worker EXCEPT !.at = "retry", !.retry = S]
    BY <1>1, <2>5, RetryStateType
  <2>6. worker.todo \in SUBSET Stocks /\ worker.batch \in SUBSET Stocks
    BY DEF TypeOK, Workers
  <2>7. QED
    BY <2>1, <2>2, <2>3, <2>4, <2>5, <2>6
<1>6. status' \in [Jobs -> Working \union Ended \union {"absent"}]
  BY DEF FirstAttempt, Retried, SetStatus, TypeOK, Ended
<1>7. UNCHANGED <<stocks, invoked, inflight, stop, queue, crashes, late, unknown>>
  BY DEF FirstAttempt, Retried
<1>8. QED
  BY <1>2, <1>4, <1>5, <1>6, <1>7 DEF TypeOK

\* The worker between two attempts.
LEMMA RetryType ==
  ASSUME TypeOK, NEW j \in Jobs, worker.job = j, RetryAgain(j) \/ RetrySymbol(j)
  PROVE  TypeOK'
<1>1. worker.at # "idle" /\ j # NoJob
  BY DownloadAssumption DEF TypeOK
<1>2. ASSUME NEW S \in SUBSET Stocks, NEW n \in Nat, Ask(j, S, [worker EXCEPT !.attempt = n])
      PROVE  /\ worker' \in Workers /\ thread' \in Threads
             /\ worker'.at = "batch" /\ worker'.job = j
             /\ thread'.at = "check" /\ thread'.job = j
  <2>1. [worker EXCEPT !.attempt = n] \in Workers /\ [worker EXCEPT !.attempt = n].job = j
    BY DEF TypeOK, Workers
  <2>2. QED
    BY <1>2, <2>1, AskType
<1>3. CASE RetryAgain(j)
  <2>1. worker.asked \in SUBSET Stocks /\ worker.attempt + 1 \in Nat
    BY DEF TypeOK, Workers
  <2>2. seen' \in [Jobs -> SUBSET Stocks]
    BY <1>3, <2>1, ReadType DEF RetryAgain, TypeOK
  <2>3. Ask(j, worker.asked, [worker EXCEPT !.attempt = worker.attempt + 1])
    BY <1>3 DEF RetryAgain
  <2>4. /\ worker' \in Workers /\ thread' \in Threads
        /\ worker'.at = "batch" /\ worker'.job = j
        /\ thread'.at = "check" /\ thread'.job = j
    BY <1>2, <2>1, <2>3
  <2>5. QED
    BY <1>1, <1>3, <2>2, <2>4 DEF RetryAgain, TypeOK, record
<1>4. CASE RetrySymbol(j)
  <2>1. ASSUME MarkCanceled(j), UNCHANGED thread PROVE TypeOK'
    <3>1. worker' = Idle /\ worker' \in Workers
      BY <2>1, StateTypes DEF MarkCanceled
    <3>2. QED
      BY <2>1, <3>1 DEF MarkCanceled, Idle, TypeOK, SetStatus, Ended, ghosts
  <2>2. ASSUME NEW s \in worker.retry, Ask(j, {s}, [worker EXCEPT !.attempt = 2]),
               UNCHANGED <<record, queue, stuck, crashes, ghosts>>
        PROVE  TypeOK'
    <3>1. {s} \in SUBSET Stocks
      BY DEF TypeOK, Workers
    <3>2. /\ worker' \in Workers /\ thread' \in Threads
          /\ worker'.at = "batch" /\ worker'.job = j
          /\ thread'.at = "check" /\ thread'.job = j
      BY <1>2, <2>2, <3>1
    <3>3. QED
      BY <1>1, <2>2, <3>2 DEF TypeOK, record, ghosts
  <2>3. ASSUME NEW s \in worker.retry, Mark(j, {s}, "error"),
               worker' = [worker EXCEPT !.retry = worker.retry \ {s}],
               UNCHANGED <<stocks, status, invoked, inflight, stop, thread>>,
               UNCHANGED <<queue, stuck, crashes, ghosts>>
        PROVE  TypeOK'
    <3>1. {s} \in SUBSET Stocks /\ "error" \in Results
      BY DEF TypeOK, Workers, Results
    <3>2. result' \in [Jobs -> [Stocks -> Results]] /\ failed' \in [Jobs -> SUBSET Stocks]
      BY <2>3, <3>1, MarkType
    <3>3. worker' \in Workers /\ worker'.at = worker.at /\ worker'.job = worker.job
      BY <2>3 DEF TypeOK, Workers
    <3>4. QED
      BY <2>3, <3>2, <3>3 DEF TypeOK, ghosts
  <2>4. ASSUME worker' = Loop(j, worker.todo), UNCHANGED <<record, queue, thread, stuck, crashes, ghosts>>
        PROVE  TypeOK'
    <3>1. worker.todo \in SUBSET Stocks
      BY DEF TypeOK, Workers
    <3>2. worker' \in Workers /\ worker'.at = "loop" /\ worker'.job = j
      BY <2>4, <3>1, LoopType
    <3>3. QED
      BY <1>1, <2>4, <3>2 DEF TypeOK, record, ghosts
  <2>5. QED
    BY <1>4, <2>1, <2>2, <2>3, <2>4 DEF RetrySymbol
<1>5. QED
  BY <1>3, <1>4

\* Steps of the thread of a batch.
LEMMA ThreadType ==
  ASSUME TypeOK, NEW j \in Jobs, thread.job = j,
         CheckNext(j) \/ EnterLane(j) \/ CallNative(j) \/ NativeReturns(j) \/ RecordInvocation(j)
  PROVE  TypeOK'
<1>1. j # NoJob /\ thread.at # "none"
  BY DownloadAssumption DEF TypeOK
<1> DEFINE Typed == /\ thread' \in Threads /\ (thread'.at = "none" <=> thread'.job = NoJob)
                    /\ thread'.at \in {"armed", "entered", "native", "record"} => thread'.stock # NoStock
                    /\ inflight' \in [Jobs -> SUBSET Stocks]
<1>2. ASSUME NEW o \in {"ok", "stuck", "error"}, ThreadEnds(j, o)
      PROVE  Typed
  <2>1. inflight' \in [Jobs -> SUBSET Stocks]
    BY <1>2 DEF ThreadEnds, TypeOK
  <2>2. CASE thread' = NoThread
    <3>1. thread' \in Threads
      BY <2>2, StateTypes
    <3>2. thread'.at = "none" /\ thread'.job = NoJob
      BY <2>2 DEF NoThread
    <3>3. QED
      BY <2>1, <3>1, <3>2
  <2>3. CASE thread' = [NoThread EXCEPT !.at = "done", !.job = j, !.outcome = o]
    <3>1. thread' \in Threads
      BY <2>3, StateTypes
    <3>2. thread'.at = "done" /\ thread'.job = j
      BY <2>3 DEF NoThread
    <3>3. QED
      BY <1>1, <2>1, <3>1, <3>2
  <2>4. QED
    BY <1>2, <2>2, <2>3 DEF ThreadEnds
<1>3. Typed
  <2>1. CASE CheckNext(j)
    <3>1. ASSUME NEW s \in thread.left, thread' = [thread EXCEPT !.at = "armed", !.stock = s],
                 inflight' = [inflight EXCEPT ![j] = {s}]
          PROVE  Typed
      <4>1. s \in Stocks /\ s # NoStock
        BY DownloadAssumption DEF TypeOK, Threads
      <4>2. thread' \in Threads /\ thread'.at = "armed" /\ thread'.job = j /\ thread'.stock = s
        BY <3>1, <4>1 DEF TypeOK, Threads
      <4>3. QED
        BY <1>1, <3>1, <4>1, <4>2 DEF TypeOK
    <3>2. QED
      BY <1>2, <2>1, <3>1 DEF CheckNext
  <2>2. CASE EnterLane(j)
    <3>1. ASSUME thread.at = "armed", thread' = [thread EXCEPT !.at = "entered"], UNCHANGED inflight
          PROVE  Typed
      BY <1>1, <3>1 DEF TypeOK, Threads
    <3>2. QED
      BY <1>2, <2>2, <3>1 DEF EnterLane
  <2>3. CASE CallNative(j)
    BY <1>1, <2>3 DEF CallNative, TypeOK, Threads
  <2>4. CASE NativeReturns(j)
    <3>1. ASSUME thread.at = "native", thread' = [thread EXCEPT !.at = "record"],
                 inflight' = [inflight EXCEPT ![j] = {}]
          PROVE  Typed
      BY <1>1, <3>1 DEF TypeOK, Threads
    <3>2. QED
      BY <1>2, <2>4, <3>1 DEF NativeReturns
  <2>5. CASE RecordInvocation(j)
    BY <1>1, <2>5 DEF RecordInvocation, TypeOK, Threads
  <2>6. QED
    BY <2>1, <2>2, <2>3, <2>4, <2>5
<1>4. invoked' \in [Jobs -> SUBSET Stocks] /\ late' \in [Jobs -> Nat]
  <2>1. CASE RecordInvocation(j)
    <3>1. {thread.stock} \subseteq Stocks
      BY <2>1 DEF RecordInvocation, TypeOK, Threads
    <3>2. QED
      BY <2>1, <3>1 DEF RecordInvocation, TypeOK
  <2>2. CASE CallNative(j)
    BY <2>2 DEF CallNative, TypeOK
  <2>3. QED
    BY <2>1, <2>2 DEF CheckNext, EnterLane, NativeReturns, TypeOK
<1>5. UNCHANGED Rest
  BY DEF CheckNext, EnterLane, CallNative, NativeReturns, RecordInvocation
<1>6. QED
  BY <1>3, <1>4, <1>5 DEF TypeOK, Rest

\* A crash restores the jobs from their files.
LEMMA CrashType ==
  ASSUME TypeOK, Crash
  PROVE  TypeOK'
<1>1. worker' \in Workers /\ worker'.at = "idle" /\ worker'.job = NoJob
  BY IdleType DEF Crash
<1>2. thread' \in Threads /\ thread'.at = "none" /\ thread'.job = NoJob
  BY StateTypes DEF Crash, NoThread
<1>3. queue' \in Seq(Jobs)
  <2>1. PICK q \in [1 .. Cardinality(Restored) -> Restored] : queue' = q
    BY DEF Crash
  <2>2. Restored \subseteq Jobs
    BY DEF Restored
  <2> DEFINE n == Cardinality(Restored)
  <2>3. n \in Nat
    BY RestoredFinite
  <2> HIDE DEF n
  <2>4. q \in [1 .. n -> Jobs]
    BY <2>1, <2>2 DEF n
  <2>5. q \in Seq(Jobs)
    BY <2>3, <2>4, SeqDef
  <2>6. QED
    BY <2>1, <2>5
<1>4. status' \in [Jobs -> Working \union Ended \union {"absent"}]
  BY DEF Crash, TypeOK, Working, Ended
<1>5. crashes' \in 0 .. MaxCrashes
  BY DownloadAssumption DEF Crash, TypeOK
<1>6. QED
  BY <1>1, <1>2, <1>3, <1>4, <1>5 DEF Crash, TypeOK

LEMMA InitType == Init => TypeOK
<1> SUFFICES ASSUME Init PROVE TypeOK
  OBVIOUS
<1>1. worker \in Workers /\ thread \in Threads
  BY StateTypes DEF Init
<1>2. /\ worker.at = "idle" /\ worker.job = NoJob
      /\ thread.at = "none" /\ thread.job = NoJob
  BY DEF Init, Idle, NoThread
<1>3. queue \in Seq(Jobs)
  BY DEF Init
<1>4. result \in [Jobs -> [Stocks -> Results]]
  BY DEF Init, Results
<1>5. status \in [Jobs -> Working \union Ended \union {"absent"}]
  BY DEF Init
<1>6. crashes \in 0 .. MaxCrashes
  BY DownloadAssumption DEF Init
<1>7. QED
  BY <1>1, <1>2, <1>3, <1>4, <1>5, <1>6 DEF Init, TypeOK

LEMMA StepType == TypeOK /\ [Next]_vars => TypeOK'
<1> SUFFICES ASSUME TypeOK, [Next]_vars PROVE TypeOK'
  OBVIOUS
<1>1. CASE UNCHANGED vars
  BY <1>1 DEF TypeOK, vars, record, ghosts
<1>2. ASSUME NEW j \in Jobs, Submit(j) \/ Cancel(j) PROVE TypeOK'
  BY <1>2, HandlerType
<1>3. CASE Pop
  <2>1. queue # <<>> /\ Head(queue) \in Jobs /\ Tail(queue) \in Seq(Jobs)
    BY <1>3 DEF Pop, TypeOK
  <2>2. /\ worker' = [Idle EXCEPT !.at = "popped", !.job = Head(queue)]
        /\ queue' = Tail(queue)
    BY <1>3 DEF Pop
  <2>3. worker' \in Workers /\ worker'.at = "popped" /\ worker'.job = Head(queue)
    BY <2>1, <2>2 DEF Idle, Workers
  <2>4. QED
    BY <1>3, <2>1, <2>2, <2>3, DownloadAssumption DEF Pop, TypeOK, record, ghosts
<1>4. CASE BatchTimeout
  <2>1. worker' \in Workers /\ worker'.at = "grace" /\ worker'.job = worker.job
    BY <1>4 DEF BatchTimeout, TypeOK, Workers
  <2>2. QED
    BY <1>4, <2>1 DEF BatchTimeout, TypeOK, record, ghosts
<1>5. ASSUME NEW j \in Jobs, worker.job = j,
             \/ StartJob(j) \/ StopAtLoop(j) \/ StartBatch(j) \/ PauseForMarket(j) \/ Resume(j)
             \/ FirstAttempt(j) \/ Retried(j) \/ RetryAgain(j) \/ RetrySymbol(j) \/ FinishJob(j)
      PROVE  TypeOK'
  BY <1>5, WorkerType, AttemptType, RetryType
<1>6. CASE ThreadStep
  BY <1>6, ThreadType DEF ThreadStep
<1>7. CASE Crash
  BY <1>7, CrashType
<1>8. QED
  BY <1>1, <1>2, <1>3, <1>4, <1>5, <1>6, <1>7 DEF Next, WorkerStep

\* Type correctness of the job manager, for every configuration.
THEOREM TypeCorrect == Spec => []TypeOK
BY InitType, StepType, PTL DEF Spec

----------------------------------------------------------------------------
(* Unknown outcomes and cancels *)

Queued == {queue[i] : i \in 1 .. Len(queue)}

\* A job interrupted in a native call is out of reach of both threads.
UnknownInv ==
  \A k \in unknown : /\ status[k] = "requires_reconciliation"
                     /\ thread.job # k /\ worker.job # k /\ k \notin Queued

\* A native call, and the way to it, is on file.
InflightInv == thread.at \in {"armed", "entered", "native"} => inflight[thread.job] # {}

\* A call counted as late came after the last look at the cancel.
LateInv ==
  \A k \in Jobs : /\ late[k] <= 1
                  /\ late[k] = 1 => stop[k] /\ ~(thread.job = k /\ thread.at = "entered")

IInv == TypeOK /\ UnknownInv /\ InflightInv /\ LateInv

WorkerActs(j) ==
  \/ StartJob(j) \/ StopAtLoop(j) \/ StartBatch(j) \/ PauseForMarket(j) \/ Resume(j)
  \/ FirstAttempt(j) \/ Retried(j) \/ RetryAgain(j) \/ RetrySymbol(j) \/ FinishJob(j)

\* What a step of the worker can do to jobs, threads and the queue.
LEMMA WorkerFrame ==
  ASSUME TypeOK, NEW j \in Jobs, worker.job = j, WorkerActs(j)
  PROVE  /\ UNCHANGED <<queue, unknown, inflight, stop, late>>
         /\ \A k \in Jobs : k # j => status'[k] = status[k]
         /\ worker'.job \in {j, NoJob}
         /\ \/ UNCHANGED thread
            \/ thread'.at \in {"none", "check"} /\ thread'.job \in {j, NoJob}
<1>1. UNCHANGED <<queue, unknown, inflight, stop, late>>
  BY DEF WorkerActs, StartJob, StopAtLoop, StartBatch, PauseForMarket, Resume, FirstAttempt,
         Retried, RetryAgain, RetrySymbol, FinishJob, MarkCanceled, TakeBatch, ghosts, record
<1>2. \A k \in Jobs : k # j => status'[k] = status[k]
  <2>1. status' = status \/ \E st : status' = [status EXCEPT ![j] = st]
    BY DEF WorkerActs, StartJob, StopAtLoop, StartBatch, PauseForMarket, Resume, FirstAttempt,
           Retried, RetryAgain, RetrySymbol, FinishJob, MarkCanceled, TakeBatch, SetStatus, record
  <2>2. QED
    BY <2>1 DEF TypeOK
<1>3. ASSUME NEW S, NEW w, Ask(j, S, w), w.job = j, w \in Workers
      PROVE  worker'.job = j /\ thread'.at = "check" /\ thread'.job = j
  <2>1. /\ worker' = [w EXCEPT !.at = "batch", !.asked = S]
        /\ thread' = [NoThread EXCEPT !.at = "check", !.job = j, !.left = S]
    BY <1>3 DEF Ask
  <2>2. QED
    BY <1>3, <2>1 DEF Workers, NoThread
<1>4. ASSUME TakeBatch(j) PROVE worker'.job = j /\ thread'.at = "check" /\ thread'.job = j
  <2>1. PICK B \in SUBSET worker.todo :
          Ask(j, B, [worker EXCEPT !.todo = @ \ B, !.batch = B, !.retry = {}, !.attempt = 1])
    BY <1>4 DEF TakeBatch
  <2> DEFINE w == [worker EXCEPT !.todo = @ \ B, !.batch = B, !.retry = {}, !.attempt = 1]
  <2>2. w.job = j /\ w \in Workers
    BY DEF TypeOK, Workers
  <2>3. QED
    BY <1>3, <2>1, <2>2
<1>5. NoThread.at = "none" /\ NoThread.job = NoJob /\ Idle.job = NoJob
  BY DEF NoThread, Idle
<1>6. \A S : Loop(j, S).job = j
  BY DEF Loop, Idle
<1>7. worker.job = j /\ [worker EXCEPT !.at = "paused"].job = j
  BY DEF TypeOK, Workers
<1>8. \A S : [worker EXCEPT !.at = "retry", !.retry = S].job = j /\ [worker EXCEPT !.retry = S].job = j
  BY DEF TypeOK, Workers
<1>9. /\ worker'.job \in {j, NoJob}
      /\ UNCHANGED thread \/ (thread'.at \in {"none", "check"} /\ thread'.job \in {j, NoJob})
  <2>1. CASE StartJob(j)
    BY <1>6, <2>1 DEF StartJob
  <2>2. CASE StopAtLoop(j)
    BY <1>5, <2>2 DEF StopAtLoop, MarkCanceled
  <2>3. CASE StartBatch(j)
    BY <1>4, <2>3 DEF StartBatch
  <2>4. CASE PauseForMarket(j)
    BY <1>7, <2>4 DEF PauseForMarket
  <2>5. CASE Resume(j)
    BY <1>4, <1>5, <2>5 DEF Resume, MarkCanceled
  <2>6. CASE FirstAttempt(j) \/ Retried(j)
    <3>1. UNCHANGED thread \/ thread' = NoThread
      BY <2>6 DEF FirstAttempt, Retried, BatchOk, BatchMissing, BatchStuck, BatchError
    <3>2. \/ \E S : worker' = Loop(j, S)
          \/ worker' = Idle
          \/ \E S : worker' = [worker EXCEPT !.at = "retry", !.retry = S]
      BY <2>6 DEF FirstAttempt, Retried, GiveUp, NextSymbol
    <3>3. QED
      BY <1>5, <1>6, <1>8, <3>1, <3>2
  <2>7. CASE RetryAgain(j)
    <3>1. PICK n \in Nat : n = worker.attempt + 1
      BY DEF TypeOK, Workers
    <3>2. [worker EXCEPT !.attempt = n].job = j /\ [worker EXCEPT !.attempt = n] \in Workers
      BY DEF TypeOK, Workers
    <3>3. Ask(j, worker.asked, [worker EXCEPT !.attempt = n])
      BY <2>7, <3>1 DEF RetryAgain
    <3>4. QED
      BY <1>3, <3>2, <3>3
  <2>8. CASE RetrySymbol(j)
    <3>1. [worker EXCEPT !.attempt = 2].job = j /\ [worker EXCEPT !.attempt = 2] \in Workers
      BY DEF TypeOK, Workers
    <3>2. CASE MarkCanceled(j) /\ UNCHANGED thread
      BY <1>5, <3>2 DEF MarkCanceled
    <3>3. CASE \E s \in worker.retry : Ask(j, {s}, [worker EXCEPT !.attempt = 2])
      BY <1>3, <3>1, <3>3
    <3>4. CASE UNCHANGED thread /\ (\E S : worker' = [worker EXCEPT !.retry = S] \/ worker' = Loop(j, S))
      BY <1>6, <1>8, <3>4
    <3>5. \/ MarkCanceled(j) /\ UNCHANGED thread
          \/ \E s \in worker.retry : Ask(j, {s}, [worker EXCEPT !.attempt = 2])
          \/ UNCHANGED thread /\ (\E S : worker' = [worker EXCEPT !.retry = S] \/ worker' = Loop(j, S))
      BY <2>8 DEF RetrySymbol
    <3>6. QED
      BY <3>2, <3>3, <3>4, <3>5
  <2>9. CASE FinishJob(j)
    BY <1>5, <2>9 DEF FinishJob
  <2>10. QED
    BY <2>1, <2>2, <2>3, <2>4, <2>5, <2>6, <2>7, <2>8, <2>9 DEF WorkerActs
<1>10. QED
  BY <1>1, <1>2, <1>9

\* What a step of a batch's thread leaves alone.
LEMMA ThreadFrame ==
  ASSUME TypeOK, NEW j \in Jobs, thread.job = j,
         \/ CheckNext(j) \/ EnterLane(j) \/ CallNative(j) \/ NativeReturns(j) \/ RecordInvocation(j)
  PROVE  UNCHANGED <<queue, unknown, status, stop, worker>> /\ thread'.job \in {j, NoJob}
<1>1. UNCHANGED <<queue, unknown, status, stop, worker>>
  BY DEF CheckNext, EnterLane, CallNative, NativeReturns, RecordInvocation, Rest
<1>2. NoThread.job = NoJob /\ \A o : [NoThread EXCEPT !.at = "done", !.job = j, !.outcome = o].job = j
  BY DEF NoThread
<1>3. ASSUME NEW o, ThreadEnds(j, o) PROVE thread'.job \in {j, NoJob}
  BY <1>2, <1>3 DEF ThreadEnds
<1>4. \A x, y, z : /\ [thread EXCEPT !.at = x].job = j
                   /\ [thread EXCEPT !.at = x, !.stock = y].job = j
                   /\ [thread EXCEPT !.at = x, !.left = z, !.stock = y].job = j
  BY DEF TypeOK, Threads
<1>5. thread'.job \in {j, NoJob}
  <2>1. CASE CheckNext(j)
    <3>1. \/ ThreadEnds(j, "ok") \/ ThreadEnds(j, "error")
          \/ \E s : thread' = [thread EXCEPT !.at = "armed", !.stock = s]
      BY <2>1 DEF CheckNext
    <3>2. ASSUME NEW s, thread' = [thread EXCEPT !.at = "armed", !.stock = s]
          PROVE  thread'.job = j
      BY <3>2 DEF TypeOK, Threads
    <3>3. QED
      BY <1>3, <3>1, <3>2
  <2>2. CASE EnterLane(j)
    <3>1. \/ ThreadEnds(j, "stuck") \/ ThreadEnds(j, "error")
          \/ thread' = [thread EXCEPT !.at = "entered"]
      BY <2>2 DEF EnterLane
    <3>2. QED
      BY <1>3, <1>4, <3>1
  <2>3. CASE CallNative(j)
    BY <1>4, <2>3 DEF CallNative
  <2>4. CASE NativeReturns(j)
    BY <1>3, <1>4, <2>4 DEF NativeReturns
  <2>5. CASE RecordInvocation(j)
    BY <1>4, <2>5 DEF RecordInvocation
  <2>6. QED
    BY <2>1, <2>2, <2>3, <2>4, <2>5
<1>6. QED
  BY <1>1, <1>5

\* A batch's thread starts a call only after it has put it on file.
LEMMA InflightStep == IInv /\ [Next]_vars => InflightInv'
<1> SUFFICES ASSUME IInv, [Next]_vars PROVE InflightInv'
  OBVIOUS
<1> USE DEF IInv
<1>1. CASE UNCHANGED <<thread, inflight>>
  BY <1>1 DEF InflightInv
<1>2. CASE thread'.at \in {"none", "check", "done", "record"}
  BY <1>2 DEF InflightInv
<1>3. ASSUME NEW j \in Jobs, worker.job = j, WorkerActs(j) PROVE InflightInv'
  BY <1>1, <1>2, <1>3, WorkerFrame
<1>4. ASSUME NEW j \in Jobs, thread.job = j,
             \/ CheckNext(j) \/ EnterLane(j) \/ CallNative(j) \/ NativeReturns(j) \/ RecordInvocation(j)
      PROVE  InflightInv'
  <2>1. ASSUME NEW o, ThreadEnds(j, o) PROVE thread'.at \in {"none", "done"}
    BY <2>1 DEF ThreadEnds, NoThread
  <2>2. CASE CheckNext(j)
    <3>1. ASSUME NEW s, thread' = [thread EXCEPT !.at = "armed", !.stock = s],
                 inflight' = [inflight EXCEPT ![j] = {s}]
          PROVE  InflightInv'
      BY <1>4, <3>1 DEF InflightInv, TypeOK, Threads
    <3>2. QED
      BY <1>2, <2>1, <2>2, <3>1 DEF CheckNext
  <2>3. CASE EnterLane(j)
    <3>1. CASE thread' = [thread EXCEPT !.at = "entered"] /\ UNCHANGED inflight /\ thread.at = "armed"
      BY <3>1 DEF InflightInv, TypeOK, Threads
    <3>2. QED
      BY <1>2, <2>1, <2>3, <3>1 DEF EnterLane
  <2>4. CASE CallNative(j)
    BY <2>4 DEF CallNative, InflightInv, TypeOK, Threads
  <2>5. CASE NativeReturns(j)
    <3>1. [thread EXCEPT !.at = "record"].at = "record"
      BY DEF TypeOK, Threads
    <3>2. QED
      BY <1>2, <2>1, <2>5, <3>1 DEF NativeReturns
  <2>6. CASE RecordInvocation(j)
    <3>1. thread'.at = "check"
      BY <2>6 DEF RecordInvocation, TypeOK, Threads
    <3>2. QED
      BY <1>2, <3>1
  <2>7. QED
    BY <1>4, <2>2, <2>3, <2>4, <2>5, <2>6
<1>5. CASE Crash
  BY <1>2, <1>5 DEF Crash, NoThread
<1>6. CASE \/ \E j \in Jobs : Submit(j) \/ Cancel(j)
           \/ Pop \/ BatchTimeout \/ UNCHANGED vars
  BY <1>1, <1>6 DEF Submit, Cancel, Pop, BatchTimeout, vars, record
<1>7. QED
  BY <1>3, <1>4, <1>5, <1>6 DEF Next, WorkerStep, WorkerActs, ThreadStep

\* The queue only ever gains a job that was not known before.
LEMMA QueuedFrame ==
  ASSUME TypeOK, NEW j \in Jobs
  PROVE  /\ queue' = Append(queue, j) => Queued' = Queued \union {j}
         /\ queue # <<>> /\ queue' = Tail(queue) => Queued' \subseteq Queued /\ Head(queue) \in Queued
         /\ Dequeue(j) => Queued' \subseteq Queued
<1>1. queue \in Seq(Jobs)
  BY DEF TypeOK
<1>2. ASSUME queue' = Append(queue, j) PROVE Queued' = Queued \union {j}
  <2>1. /\ Len(queue') = Len(queue) + 1 /\ queue'[Len(queue) + 1] = j
        /\ \A i \in 1 .. Len(queue) : queue'[i] = queue[i]
    BY <1>1, <1>2
  <2>2. Len(queue) \in Nat
    BY <1>1
  <2>3. QED
    BY <2>1, <2>2 DEF Queued
<1>3. ASSUME queue # <<>>, queue' = Tail(queue)
      PROVE  Queued' \subseteq Queued /\ Head(queue) \in Queued
  <2>1. /\ Len(queue) \in Nat \ {0} /\ Len(queue') = Len(queue) - 1 /\ Head(queue) = queue[1]
        /\ \A i \in 1 .. Len(queue') : queue'[i] = queue[i + 1]
    BY <1>1, <1>3, HeadTailProperties
  <2>2. \A i \in 1 .. Len(queue') : queue'[i] \in Queued
    <3>1. \A i \in 1 .. Len(queue') : i + 1 \in 1 .. Len(queue)
      BY <2>1
    <3>2. QED
      BY <2>1, <3>1 DEF Queued
  <2>3. Queued' \subseteq Queued
    BY <2>2 DEF Queued
  <2>4. 1 \in 1 .. Len(queue)
    BY <2>1
  <2>5. queue[1] \in Queued
    BY <2>4 DEF Queued
  <2>6. QED
    BY <2>1, <2>3, <2>5
<1>4. ASSUME Dequeue(j) PROVE Queued' \subseteq Queued
  BY <1>1, <1>4, DequeueType DEF Queued
<1>5. QED
  BY <1>2, <1>3, <1>4

\* A job interrupted in a native call stays where neither thread finds it.
LEMMA UnknownStep == IInv /\ [Next]_vars => UnknownInv'
<1> SUFFICES ASSUME IInv, [Next]_vars PROVE UnknownInv'
  OBVIOUS
<1> USE DEF IInv
<1>1. CASE UNCHANGED vars
  BY <1>1 DEF UnknownInv, Queued, vars, record, ghosts
<1>2. CASE \E j \in Jobs : Submit(j)
  <2>1. PICK j \in Jobs : Submit(j)
    BY <1>2
  <2>2. Queued' = Queued \union {j}
    BY <2>1, QueuedFrame DEF Submit
  <2>3. j \notin unknown
    BY <2>1 DEF Submit, UnknownInv
  <2>4. QED
    BY <2>1, <2>2, <2>3 DEF Submit, SetStatus, UnknownInv, TypeOK, ghosts
<1>3. CASE \E j \in Jobs : Cancel(j)
  <2>1. PICK j \in Jobs : Cancel(j)
    BY <1>3
  <2>2. UNCHANGED <<status, queue>> \/ (status[j] = "queued" /\ SetStatus(j, "canceled") /\ Dequeue(j))
    BY <2>1 DEF Cancel
  <2>3. Queued' \subseteq Queued
    BY <2>2, QueuedFrame DEF Queued
  <2>4. \A k \in unknown : status'[k] = status[k]
    BY <2>2 DEF SetStatus, UnknownInv, TypeOK
  <2>5. QED
    BY <2>1, <2>3, <2>4 DEF Cancel, UnknownInv, ghosts
<1>4. CASE Pop
  <2>1. Queued' \subseteq Queued /\ Head(queue) \in Queued
    BY <1>4, QueuedFrame DEF Pop, TypeOK
  <2>2. worker'.job = Head(queue)
    BY <1>4 DEF Pop, Idle
  <2>3. QED
    BY <1>4, <2>1, <2>2 DEF Pop, UnknownInv, record, ghosts
<1>5. CASE BatchTimeout
  <2>1. worker'.job = worker.job
    BY <1>5 DEF BatchTimeout, TypeOK, Workers
  <2>2. QED
    BY <1>5, <2>1 DEF BatchTimeout, UnknownInv, Queued, record, ghosts
<1>6. ASSUME NEW j \in Jobs, worker.job = j, WorkerActs(j) PROVE UnknownInv'
  <2>1. thread'.job \in {thread.job, j, NoJob} /\ worker'.job \in {j, NoJob}
    BY <1>6, WorkerFrame
  <2>2. \A k \in unknown : k # j /\ k # NoJob /\ status'[k] = status[k]
    BY <1>6, WorkerFrame, DownloadAssumption DEF UnknownInv, TypeOK
  <2>3. unknown' = unknown /\ Queued' = Queued
    BY <1>6, WorkerFrame DEF Queued
  <2>4. QED
    BY <2>1, <2>2, <2>3 DEF UnknownInv
<1>7. ASSUME NEW j \in Jobs, thread.job = j,
             \/ CheckNext(j) \/ EnterLane(j) \/ CallNative(j) \/ NativeReturns(j) \/ RecordInvocation(j)
      PROVE  UnknownInv'
  <2>1. UNCHANGED <<queue, unknown, status, stop, worker>> /\ thread'.job \in {j, NoJob}
    BY <1>7, ThreadFrame
  <2>2. NoJob \notin unknown
    BY DownloadAssumption DEF TypeOK
  <2>3. QED
    BY <1>7, <2>1, <2>2 DEF UnknownInv, Queued
<1>8. CASE Crash
  <2>1. worker'.job = NoJob /\ thread'.job = NoJob
    BY <1>8 DEF Crash, Idle, NoThread
  <2>2. PICK q \in [1 .. Cardinality(Restored) -> Restored] : queue' = q
    BY <1>8 DEF Crash
  <2>3. Queued' \subseteq Restored
    <3>1. Len(q) = Cardinality(Restored)
      BY RestoredFinite
    <3>2. QED
      BY <2>2, <3>1 DEF Queued
  <2>4. ASSUME NEW k \in unknown' PROVE status'[k] = "requires_reconciliation" /\ k \notin Restored
    <3>1. CASE k \in unknown
      BY <1>8, <3>1 DEF Crash, UnknownInv, Restored, Working, TypeOK
    <3>2. CASE thread.at = "native" /\ thread.job = k /\ k \in Jobs
      BY <1>8, <3>2 DEF Crash, InflightInv, Restored
    <3>3. QED
      BY <1>8, <2>4, <3>1, <3>2 DEF Crash
  <2>5. NoJob \notin unknown'
    BY <1>8, DownloadAssumption DEF Crash, TypeOK
  <2>6. QED
    BY <2>1, <2>3, <2>4, <2>5 DEF UnknownInv
<1>9. QED
  BY <1>1, <1>2, <1>3, <1>4, <1>5, <1>6, <1>7, <1>8 DEF Next, WorkerStep, WorkerActs, ThreadStep

\* The one call a cancel may miss is the one that had seen no cancel yet.
LEMMA LateStep == IInv /\ [Next]_vars => LateInv'
<1> SUFFICES ASSUME IInv, [Next]_vars PROVE LateInv'
  OBVIOUS
<1> USE DEF IInv
<1>1. CASE UNCHANGED vars
  BY <1>1 DEF LateInv, vars, record, ghosts
<1>2. CASE \E j \in Jobs : Submit(j) \/ Cancel(j)
  <2>1. UNCHANGED <<late, thread>> /\ \A k \in Jobs : stop[k] => stop'[k]
    BY <1>2 DEF Submit, Cancel, TypeOK, ghosts
  <2>2. QED
    BY <2>1 DEF LateInv
<1>3. CASE Pop \/ BatchTimeout
  BY <1>3 DEF Pop, BatchTimeout, LateInv, record, ghosts
<1>4. ASSUME NEW j \in Jobs, worker.job = j, WorkerActs(j) PROVE LateInv'
  <2>1. UNCHANGED <<stop, late>> /\ (UNCHANGED thread \/ thread'.at \in {"none", "check"})
    BY <1>4, WorkerFrame
  <2>2. QED
    BY <2>1 DEF LateInv
<1>5. ASSUME NEW j \in Jobs, thread.job = j,
             \/ CheckNext(j) \/ EnterLane(j) \/ CallNative(j) \/ NativeReturns(j) \/ RecordInvocation(j)
      PROVE  LateInv'
  <2>1. UNCHANGED stop /\ thread'.job \in {j, NoJob}
    BY <1>5, ThreadFrame
  <2>2. ASSUME UNCHANGED late, thread'.at # "entered" PROVE LateInv'
    BY <2>1, <2>2 DEF LateInv
  <2>3. ASSUME NEW o, ThreadEnds(j, o) PROVE thread'.at # "entered"
    BY <2>3 DEF ThreadEnds, NoThread
  <2>4. CASE CheckNext(j)
    <3>1. ASSUME NEW s, thread' = [thread EXCEPT !.at = "armed", !.stock = s] PROVE thread'.at # "entered"
      BY <3>1 DEF TypeOK, Threads
    <3>2. QED
      BY <2>2, <2>3, <2>4, <3>1 DEF CheckNext
  <2>5. CASE EnterLane(j)
    <3>1. CASE ~stop[j] /\ UNCHANGED late
      BY <1>5, <2>1, <3>1, DownloadAssumption DEF LateInv, TypeOK
    <3>2. QED
      BY <2>2, <2>3, <2>5, <3>1 DEF EnterLane, StopRequested
  <2>6. CASE CallNative(j)
    <3>1. thread.at = "entered" /\ thread'.at # "entered"
      BY <2>6 DEF CallNative, TypeOK, Threads
    <3>2. CASE ~stop[j]
      BY <2>2, <2>6, <3>1, <3>2 DEF CallNative
    <3>3. CASE stop[j]
      <4>1. late[j] = 0
        BY <1>5, <3>1 DEF LateInv, TypeOK
      <4>2. late' = [late EXCEPT ![j] = 1]
        BY <2>6, <3>3, <4>1 DEF CallNative
      <4>3. QED
        BY <2>1, <3>1, <3>3, <4>2 DEF LateInv, TypeOK
    <3>4. QED
      BY <3>2, <3>3
  <2>7. CASE NativeReturns(j)
    <3>1. [thread EXCEPT !.at = "record"].at # "entered"
      BY DEF TypeOK, Threads
    <3>2. QED
      BY <2>2, <2>3, <2>7, <3>1 DEF NativeReturns
  <2>8. CASE RecordInvocation(j)
    <3>1. thread'.at # "entered" /\ UNCHANGED late
      BY <2>8 DEF RecordInvocation, TypeOK, Threads
    <3>2. QED
      BY <2>2, <3>1
  <2>9. QED
    BY <1>5, <2>4, <2>5, <2>6, <2>7, <2>8
<1>6. CASE Crash
  BY <1>6 DEF Crash, LateInv, NoThread
<1>7. QED
  BY <1>1, <1>2, <1>3, <1>4, <1>5, <1>6 DEF Next, WorkerStep, WorkerActs, ThreadStep

LEMMA Inductive == Spec => []IInv
<1>1. Init => IInv
  BY InitType DEF Init, IInv, UnknownInv, InflightInv, LateInv, NoThread
<1>2. IInv /\ [Next]_vars => IInv'
  BY StepType, InflightStep, UnknownStep, LateStep DEF IInv
<1>3. QED
  BY <1>1, <1>2, PTL DEF Spec

\* A native call whose outcome a crash left unknown is never made again,
\* however many restarts, jobs and requests follow: a restart finds the call on
\* file and keeps its job out of the queue for good.
THEOREM UnknownStays == Spec => []UnknownNotReplayed
<1>1. IInv => UnknownNotReplayed
  BY DEF IInv, UnknownInv, UnknownNotReplayed
<1>2. QED
  BY <1>1, Inductive, PTL

\* After a cancel at most one native call of the job is still made, in whatever
\* batch, retry, thread left behind or later process.
THEOREM CancelLimits == Spec => []CancelStopsCalls
<1>1. IInv => CancelStopsCalls
  BY DEF IInv, LateInv, CancelStopsCalls
<1>2. QED
  BY <1>1, Inductive, PTL

----------------------------------------------------------------------------
(* Results are earned *)

\* A batch is under way.
InBatch == worker.at \in {"batch", "grace"}

\* Symbols the worker still has to bring to a result.
Pending == worker.todo \union worker.retry \union {s \in worker.asked : InBatch}

\* A thread works for the worker's batch or was left alone by a job that gave
\* up; when it returns well, every symbol of the batch has been invoked.
EarnThread ==
  /\ InBatch => thread.job = worker.job
  /\ thread.at # "none" => InBatch \/ worker.at = "idle" \/ (worker.at = "loop" /\ worker.todo = {})
  /\ InBatch /\ thread.at # "done" => worker.asked \subseteq thread.left \union invoked[worker.job]
  /\ InBatch /\ thread.at = "done" /\ thread.outcome = "ok" => worker.asked \subseteq invoked[worker.job]

\* What is asked for, retried and left to do do not overlap.
EarnShape ==
  /\ InBatch => worker.todo \cap worker.asked = {}
  /\ InBatch /\ worker.attempt = 1 => worker.asked = worker.batch /\ worker.retry = {}
  /\ InBatch /\ worker.attempt # 1 => worker.asked \subseteq worker.retry
  /\ worker.todo \cap worker.retry = {}
  /\ worker.at \in {"loop", "paused"} => worker.retry = {}

\* A requested symbol has a result or is pending, unless the job was canceled.
EarnMarked ==
  /\ \A j \in Jobs : status[j] = "absent" => j \notin Queued /\ worker.job # j
  /\ \A j \in Jobs : Ok(j) \subseteq invoked[j]
  /\ \A j \in Jobs : worker.job = j /\ worker.at # "popped" =>
       stop[j] \/ \A s \in stocks[j] : result[j][s] # "none" \/ s \in Pending
  /\ CompletedAccounts

\* Before the first crash a job runs once, begins without results, and does not
\* read again what it has found.
EarnFresh ==
  /\ \A i, k \in 1 .. Len(queue) : queue[i] = queue[k] => i = k
  /\ worker.job \notin Queued
  /\ \A j \in Jobs : j \in Queued \/ status[j] = "absent" \/ (worker.job = j /\ worker.at = "popped")
       => Ok(j) = {}
  /\ \A j \in Jobs : worker.job = j => Pending \cap Ok(j) = {}
  /\ \A j \in Jobs : Ok(j) \subseteq seen[j]

EarnInv == TypeOK /\ EarnThread /\ EarnShape /\ EarnMarked /\ (crashes = 0 => EarnFresh)

\* Marking S leaves no symbol without a result that had one.
LEMMA MarkEffect ==
  ASSUME TypeOK, NEW j \in Jobs, NEW S \in SUBSET Stocks, NEW r \in Results \ {"none"}, Mark(j, S, r)
  PROVE  /\ \A k \in Jobs : k # j => Ok(k)' = Ok(k) /\ result'[k] = result[k]
         /\ Ok(j)' = IF r = "ok" THEN Ok(j) \union S ELSE Ok(j)
         /\ \A s \in Stocks : result[j][s] # "none" \/ s \in S => result'[j][s] # "none"
<1>1. /\ \A k \in Jobs : k # j => result'[k] = result[k]
      /\ \A s \in Stocks : result'[j][s] = IF s \in S /\ result[j][s] # "ok" THEN r ELSE result[j][s]
  BY DEF Mark, TypeOK
<1>2. QED
  BY <1>1 DEF Ok

\* A thread is started on S.
LEMMA AskEffect ==
  ASSUME NEW j \in Jobs, NEW S, NEW w \in Workers, w.job = j, Ask(j, S, w)
  PROVE  /\ worker'.at = "batch" /\ worker'.job = j /\ worker'.asked = S
         /\ worker'.todo = w.todo /\ worker'.retry = w.retry /\ worker'.batch = w.batch
         /\ worker'.attempt = w.attempt
         /\ thread'.at = "check" /\ thread'.job = j /\ thread'.left = S
<1>1. worker' = [w EXCEPT !.at = "batch", !.asked = S]
  BY DEF Ask
<1>2. thread' = [NoThread EXCEPT !.at = "check", !.job = j, !.left = S]
  BY DEF Ask
<1>3. QED
  BY <1>1, <1>2 DEF Workers, NoThread

\* What a history read changes.
LEMMA ReadEffect ==
  ASSUME TypeOK, NEW j \in Jobs, NEW S, NEW M, ReadRows(j, S, M)
  PROVE  /\ \A k \in Jobs : k # j => seen'[k] = seen[k]
         /\ seen'[j] = (seen[j] \ M) \union (S \ M)
  BY DEF ReadRows, TypeOK

\* The worker's step on j keeps what is known of the marks when what it does to
\* j's own does.
LEMMA MarkedKeeps ==
  ASSUME EarnInv, NEW j \in Jobs, worker.job = j, UNCHANGED <<queue, stop, stocks, invoked>>,
         \A k \in Jobs : k # j => status'[k] = status[k] /\ result'[k] = result[k],
         status'[j] # "absent", worker'.job \in {j, NoJob},
         Ok(j)' \subseteq invoked[j],
         \A s \in Stocks : result[j][s] # "none" => result'[j][s] # "none",
         worker'.job = j /\ worker'.at # "popped" =>
           stop[j] \/ \A s \in stocks[j] : result'[j][s] # "none" \/ s \in Pending',
         status'[j] = "completed" => status[j] = "completed" \/ stop[j] \/
           \A s \in stocks[j] : result'[j][s] # "none"
  PROVE  EarnMarked'
<1>1. NoJob \notin Jobs /\ \A k \in Jobs : stocks[k] \subseteq Stocks
  BY DownloadAssumption DEF EarnInv, TypeOK
<1>2. \A k \in Jobs : status'[k] = "absent" => k \notin Queued' /\ worker'.job # k
  BY <1>1 DEF EarnInv, EarnMarked, Queued
<1>3. \A k \in Jobs : Ok(k)' \subseteq invoked'[k]
  BY DEF EarnInv, EarnMarked, Ok
<1>4. \A k \in Jobs : worker'.job = k /\ worker'.at # "popped" =>
        stop'[k] \/ \A s \in stocks'[k] : result'[k][s] # "none" \/ s \in Pending'
  BY <1>1
<1>5. CompletedAccounts'
  <2>. SUFFICES ASSUME NEW k \in Jobs, status'[k] = "completed", ~stop[k], NEW s \in stocks[k]
                PROVE  result'[k][s] # "none"
    BY DEF CompletedAccounts
  <2>. QED BY <1>1 DEF EarnInv, EarnMarked, CompletedAccounts
<1>. QED BY <1>2, <1>3, <1>4, <1>5 DEF EarnMarked

\* The same for what is known before the first crash.
LEMMA FreshKeeps ==
  ASSUME EarnInv, EarnFresh, NEW j \in Jobs, worker.job = j, UNCHANGED queue,
         \A k \in Jobs : k # j =>
           status'[k] = status[k] /\ result'[k] = result[k] /\ seen'[k] = seen[k],
         status'[j] # "absent", worker'.job \in {j, NoJob}, worker'.at # "popped",
         worker'.job = j => Pending' \cap Ok(j)' = {},
         Ok(j)' \subseteq seen'[j]
  PROVE  EarnFresh'
<1>1. NoJob \notin Jobs /\ Queued \subseteq Jobs /\ Queued' = Queued
  BY DownloadAssumption DEF EarnInv, TypeOK, Queued
<1>2. worker'.job \notin Queued'
  BY <1>1 DEF EarnFresh
<1>3. \A k \in Jobs : k \in Queued' \/ status'[k] = "absent" \/ (worker'.job = k /\ worker'.at = "popped")
        => Ok(k)' = {}
  BY <1>1 DEF EarnFresh, Ok
<1>4. \A k \in Jobs : worker'.job = k => Pending' \cap Ok(k)' = {}
  BY <1>1
<1>5. \A k \in Jobs : Ok(k)' \subseteq seen'[k]
  BY DEF EarnFresh, Ok
<1>. QED BY <1>2, <1>3, <1>4, <1>5 DEF EarnFresh

\* The worker takes a batch of what is left to do.
LEMMA TakeBatchEarns ==
  ASSUME EarnInv, NEW j \in Jobs, worker.job = j, worker.at \in {"loop", "paused"},
         TakeBatch(j)
  PROVE  EarnThread' /\ EarnShape' /\ EarnMarked' /\ (crashes' = 0 => EarnFresh')
<1>1. PICK B \in SUBSET worker.todo :
        Ask(j, B, [worker EXCEPT !.todo = @ \ B, !.batch = B, !.retry = {}, !.attempt = 1])
  BY DEF TakeBatch
<1>. DEFINE w == [worker EXCEPT !.todo = @ \ B, !.batch = B, !.retry = {}, !.attempt = 1]
<1>2. /\ w \in Workers /\ w.job = j /\ w.todo = worker.todo \ B /\ w.retry = {}
      /\ w.batch = B /\ w.attempt = 1
  BY DEF EarnInv, TypeOK, Workers
<1>. HIDE DEF w
<1>3. /\ worker'.at = "batch" /\ worker'.job = j /\ worker'.asked = B
      /\ worker'.todo = worker.todo \ B /\ worker'.retry = {} /\ worker'.batch = B
      /\ worker'.attempt = 1
      /\ thread'.at = "check" /\ thread'.job = j /\ thread'.left = B
  BY <1>1, <1>2, AskEffect, ZenonT(30) DEF w
<1>4. Pending' = Pending
  <2>1. worker.retry = {} /\ ~InBatch
    BY DEF EarnInv, EarnShape, InBatch
  <2>. QED BY <1>3, <2>1 DEF Pending, InBatch
<1>5. /\ UNCHANGED <<queue, stop, stocks, invoked, result, seen, crashes>>
      /\ status' = [status EXCEPT ![j] = "running"]
  BY DEF TakeBatch, SetStatus, ghosts
<1>6. EarnThread' /\ EarnShape'
  BY <1>3 DEF EarnThread, EarnShape, InBatch
<1>7. EarnMarked'
  BY <1>3, <1>4, <1>5, MarkedKeeps DEF EarnInv, EarnMarked, Ok, TypeOK
<1>8. crashes' = 0 => EarnFresh'
  BY <1>3, <1>4, <1>5, FreshKeeps DEF EarnInv, EarnFresh, Ok, TypeOK
<1>. QED BY <1>6, <1>7, <1>8

\* The other steps of the worker between batches.
LEMMA BetweenEarns ==
  ASSUME EarnInv, NEW j \in Jobs, worker.job = j,
         StartJob(j) \/ StopAtLoop(j) \/ StartBatch(j) \/ PauseForMarket(j) \/ Resume(j) \/ FinishJob(j)
  PROVE  EarnThread' /\ EarnShape' /\ EarnMarked' /\ (crashes' = 0 => EarnFresh')
<1>1. CASE StartJob(j)
  <2>1. PICK M \in SUBSET Ok(j) :
          ReadRows(j, Ok(j), M) /\ worker' = Loop(j, (stocks[j] \ Ok(j)) \union M)
    BY <1>1 DEF StartJob
  <2>2. /\ worker'.at = "loop" /\ worker'.job = j /\ worker'.retry = {}
        /\ worker'.todo = (stocks[j] \ Ok(j)) \union M
    BY <2>1 DEF Loop, Idle
  <2>3. Pending' = (stocks[j] \ Ok(j)) \union M
    BY <2>2 DEF Pending, InBatch
  <2>4. /\ UNCHANGED <<queue, stop, stocks, invoked, result, crashes, thread>>
        /\ status' = [status EXCEPT ![j] = "running"] /\ worker.at = "popped"
    BY <1>1 DEF StartJob, SetStatus
  <2>5. thread.at = "none"
    BY <2>4 DEF EarnInv, EarnThread, InBatch
  <2>6. EarnThread' /\ EarnShape'
    BY <2>2, <2>4, <2>5 DEF EarnThread, EarnShape, InBatch
  <2>7. EarnMarked'
    BY <2>2, <2>3, <2>4, MarkedKeeps DEF EarnInv, EarnMarked, Ok, TypeOK
  <2>8. ASSUME crashes = 0 PROVE EarnFresh'
    <3>1. EarnFresh /\ Ok(j) = {} /\ M = {}
      BY <2>4, <2>8 DEF EarnInv, EarnFresh
    <3>2. UNCHANGED seen
      <4>1. seen' = [seen EXCEPT ![j] = (@ \ M) \union (Ok(j) \ M)]
        BY <2>1 DEF ReadRows
      <4>. QED BY <3>1, <4>1 DEF EarnInv, TypeOK
    <3>. QED BY <2>2, <2>4, <3>1, <3>2, FreshKeeps DEF EarnInv, EarnFresh, Ok, TypeOK
  <2>. QED BY <2>4, <2>6, <2>7, <2>8
<1>2. ASSUME MarkCanceled(j) /\ UNCHANGED thread, worker.at \in {"loop", "paused"},
             worker.at = "loop" => worker.todo # {}
      PROVE  EarnThread' /\ EarnShape' /\ EarnMarked' /\ (crashes' = 0 => EarnFresh')
  <2>1. worker'.at = "idle" /\ worker'.job = NoJob /\ worker'.todo = {} /\ worker'.retry = {}
    BY <1>2 DEF MarkCanceled, Idle
  <2>2. /\ UNCHANGED <<queue, stop, stocks, invoked, result, seen, crashes, thread>>
        /\ status' = [status EXCEPT ![j] = "canceled"]
    BY <1>2 DEF MarkCanceled, SetStatus, ghosts
  <2>3. EarnThread' /\ EarnShape'
    BY <2>1, <2>2 DEF EarnThread, EarnShape, InBatch
  <2>4. EarnMarked'
    BY <2>1, <2>2, MarkedKeeps, DownloadAssumption DEF EarnInv, EarnMarked, Ok, TypeOK
  <2>5. crashes = 0 => EarnFresh'
    BY <2>1, <2>2, FreshKeeps, DownloadAssumption DEF EarnInv, EarnFresh, Ok, TypeOK
  <2>. QED BY <2>2, <2>3, <2>4, <2>5
<1>3. CASE StopAtLoop(j)
  BY <1>2, <1>3 DEF StopAtLoop
<1>4. CASE StartBatch(j)
  BY <1>4, TakeBatchEarns DEF StartBatch
<1>5. CASE PauseForMarket(j)
  <2>1. /\ worker'.at = "paused" /\ worker.at = "loop" /\ worker.todo # {}
        /\ worker'.job = j /\ worker'.todo = worker.todo /\ worker'.retry = worker.retry
    BY <1>5 DEF PauseForMarket, EarnInv, TypeOK, Workers
  <2>2. /\ UNCHANGED <<queue, stop, stocks, invoked, result, seen, crashes, thread>>
        /\ status' = [status EXCEPT ![j] = "paused_market_hours"]
    BY <1>5 DEF PauseForMarket, SetStatus, ghosts
  <2>3. Pending' = Pending
    BY <2>1 DEF Pending, InBatch
  <2>4. EarnThread' /\ EarnShape'
    BY <2>1, <2>2 DEF EarnInv, EarnThread, EarnShape, InBatch
  <2>5. EarnMarked'
    BY <2>1, <2>2, <2>3, MarkedKeeps DEF EarnInv, EarnMarked, Ok, TypeOK
  <2>6. crashes = 0 => EarnFresh'
    BY <2>1, <2>2, <2>3, FreshKeeps DEF EarnInv, EarnFresh, Ok, TypeOK
  <2>. QED BY <2>2, <2>4, <2>5, <2>6
<1>6. CASE Resume(j)
  BY <1>2, <1>6, TakeBatchEarns DEF Resume
<1>7. CASE FinishJob(j)
  <2>1. /\ worker'.at = "idle" /\ worker'.job = NoJob /\ worker'.todo = {} /\ worker'.retry = {}
        /\ worker.at = "loop" /\ worker.todo = {}
    BY <1>7 DEF FinishJob, Idle
  <2>2. /\ UNCHANGED <<queue, stop, stocks, invoked, result, seen, crashes, thread>>
        /\ \E st \in {"failed", "completed"} : status' = [status EXCEPT ![j] = st]
    BY <1>7 DEF FinishJob, SetStatus, ghosts
  <2>3. Pending = {}
    BY <2>1 DEF EarnInv, EarnShape, Pending, InBatch
  <2>4. EarnThread' /\ EarnShape'
    BY <2>1, <2>2 DEF EarnThread, EarnShape, InBatch
  <2>5. /\ \A k \in Jobs : k # j => status'[k] = status[k]
        /\ status'[j] # "absent"
    BY <2>2 DEF EarnInv, TypeOK
  <2>6. stop[j] \/ \A s \in stocks[j] : result[j][s] # "none"
    BY <2>1, <2>3 DEF EarnInv, EarnMarked
  <2>7. EarnMarked'
    BY <2>1, <2>2, <2>5, <2>6, MarkedKeeps, DownloadAssumption DEF EarnInv, EarnMarked, Ok
  <2>8. crashes = 0 => EarnFresh'
    BY <2>1, <2>2, <2>5, FreshKeeps, DownloadAssumption DEF EarnInv, EarnFresh, Ok
  <2>. QED BY <2>2, <2>4, <2>7, <2>8
<1>. QED BY <1>1, <1>3, <1>4, <1>5, <1>6, <1>7

\* What becomes of a batch is known from its thread.
LEMMA BatchEffect ==
  ASSUME EarnInv, NEW j \in Jobs, worker.job = j, worker.asked \in SUBSET Stocks
  PROVE  /\ BatchOk(j) => /\ InBatch /\ thread'.at = "none" /\ worker.asked \subseteq invoked[j]
                          /\ \A k \in Jobs : k # j => seen'[k] = seen[k]
                          /\ seen[j] \subseteq seen'[j]
                          /\ worker.asked \subseteq seen'[j]
         /\ BatchMissing(j) => /\ InBatch /\ thread'.at = "none"
                               /\ \A k \in Jobs : k # j => seen'[k] = seen[k]
                               /\ seen[j] \subseteq seen'[j] \union worker.asked
         /\ BatchStuck => /\ InBatch /\ UNCHANGED seen /\ (thread'.at = "none" \/ UNCHANGED thread)
         /\ BatchError => InBatch /\ UNCHANGED seen /\ thread'.at = "none"
<1>1. NoThread.at = "none"
  BY DEF NoThread
<1>2. ASSUME BatchOk(j)
      PROVE  /\ InBatch /\ thread'.at = "none" /\ worker.asked \subseteq invoked[j]
             /\ \A k \in Jobs : k # j => seen'[k] = seen[k]
             /\ seen[j] \subseteq seen'[j]
             /\ worker.asked \subseteq seen'[j]
  <2>1. InBatch /\ thread'.at = "none" /\ worker.asked \subseteq invoked[j]
    BY <1>1, <1>2 DEF BatchOk, Returned, InBatch, EarnInv, EarnThread
  <2>2. ReadRows(j, worker.asked, {})
    BY <1>2 DEF BatchOk
  <2>3. /\ \A k \in Jobs : k # j => seen'[k] = seen[k]
        /\ seen'[j] = (seen[j] \ {}) \union (worker.asked \ {})
    BY <2>2, ReadEffect DEF EarnInv
  <2>. QED BY <2>1, <2>3
<1>3. ASSUME BatchMissing(j)
      PROVE  /\ InBatch /\ thread'.at = "none"
             /\ \A k \in Jobs : k # j => seen'[k] = seen[k]
             /\ seen[j] \subseteq seen'[j] \union worker.asked
  <2>1. InBatch /\ thread'.at = "none"
    BY <1>1, <1>3 DEF BatchMissing, Returned, InBatch
  <2>2. PICK M \in SUBSET worker.asked : ReadRows(j, worker.asked, M)
    BY <1>3 DEF BatchMissing
  <2>3. /\ \A k \in Jobs : k # j => seen'[k] = seen[k]
        /\ seen'[j] = (seen[j] \ M) \union (worker.asked \ M)
    BY <2>2, ReadEffect DEF EarnInv
  <2>. QED BY <2>1, <2>2, <2>3
<1>4. BatchStuck => InBatch /\ UNCHANGED seen /\ (thread'.at = "none" \/ UNCHANGED thread)
  BY <1>1 DEF BatchStuck, Returned, InBatch
<1>5. BatchError => InBatch /\ UNCHANGED seen /\ thread'.at = "none"
  BY <1>1 DEF BatchError, Returned, InBatch
<1>. QED BY <1>2, <1>3, <1>4, <1>5

\* The worker goes on without symbols that are marked, or that a cancel leaves.
LEMMA MovesOn ==
  ASSUME EarnInv, NEW j \in Jobs, worker.job = j, InBatch \/ worker.at = "retry",
         NEW S \in SUBSET Stocks, NEW r \in Results \ {"none"},
         \/ Mark(j, S, r)
         \/ UNCHANGED result /\ (S = {} \/ stop[j]) /\ r = "error",
         r = "ok" => S \subseteq invoked[j] /\ S \subseteq seen'[j] /\ Pending' \cap S = {},
         UNCHANGED <<queue, stop, stocks, invoked, crashes>>,
         \A k \in Jobs : k # j => status'[k] = status[k] /\ seen'[k] = seen[k],
         Ok(j) \cap Pending = {} => Ok(j) \cap seen[j] \subseteq seen'[j],
         status'[j] \in {status[j], "running", "canceled"},
         \/ worker'.at \in {"batch", "loop", "retry"} /\ worker'.job = j
         \/ worker'.at = "idle" /\ worker'.job = NoJob,
         Pending' \subseteq Pending,
         worker'.job = j => Pending \subseteq Pending' \union S
  PROVE  EarnMarked' /\ (crashes' = 0 => EarnFresh')
<1>1. NoJob \notin Jobs /\ stocks[j] \subseteq Stocks /\ status[j] # "absent" /\ worker.at # "popped"
  BY DownloadAssumption DEF EarnInv, TypeOK, EarnMarked, InBatch
<1>2. /\ \A k \in Jobs : k # j => Ok(k)' = Ok(k) /\ result'[k] = result[k]
      /\ Ok(j)' = IF r = "ok" THEN Ok(j) \union S ELSE Ok(j)
      /\ \A s \in Stocks : result[j][s] # "none" \/ (s \in S /\ ~stop[j]) => result'[j][s] # "none"
  <2>1. CASE Mark(j, S, r)
    BY <2>1, MarkEffect DEF EarnInv
  <2>2. CASE UNCHANGED result /\ (S = {} \/ stop[j]) /\ r = "error"
    BY <2>2 DEF Ok
  <2>. QED BY <2>1, <2>2
<1>3. EarnMarked'
  <2>1. Ok(j)' \subseteq invoked[j]
    BY <1>2 DEF EarnInv, EarnMarked
  <2>2. worker'.job = j => stop[j] \/ \A s \in stocks[j] : result'[j][s] # "none" \/ s \in Pending'
    BY <1>1, <1>2 DEF EarnInv, EarnMarked
  <2>3. status'[j] = "completed" => status[j] = "completed"
    OBVIOUS
  <2>. QED BY <1>1, <1>2, <2>1, <2>2, <2>3, MarkedKeeps
<1>4. ASSUME crashes = 0 PROVE EarnFresh'
  <2>1. EarnFresh /\ Ok(j) \cap Pending = {}
    BY <1>4 DEF EarnInv, EarnFresh
  <2>2. Ok(j)' \subseteq seen'[j]
    BY <1>2, <2>1 DEF EarnFresh
  <2>3. worker'.job = j => Pending' \cap Ok(j)' = {}
    BY <1>2, <2>1
  <2>. QED BY <1>1, <1>2, <2>1, <2>2, <2>3, FreshKeeps
<1>. QED BY <1>3, <1>4

\* The worker's fields as it goes on.
LEMMA WorkerForms ==
  ASSUME TypeOK
  PROVE  /\ \A k \in Jobs, S \in SUBSET Stocks :
              /\ Loop(k, S).at = "loop" /\ Loop(k, S).job = k /\ Loop(k, S).todo = S
              /\ Loop(k, S).retry = {}
         /\ Idle.at = "idle" /\ Idle.job = NoJob /\ Idle.todo = {} /\ Idle.retry = {}
         /\ \A S : /\ [worker EXCEPT !.at = "retry", !.retry = S].at = "retry"
                   /\ [worker EXCEPT !.at = "retry", !.retry = S].job = worker.job
                   /\ [worker EXCEPT !.at = "retry", !.retry = S].todo = worker.todo
                   /\ [worker EXCEPT !.at = "retry", !.retry = S].retry = S
         /\ \A S : /\ [worker EXCEPT !.retry = S].at = worker.at
                   /\ [worker EXCEPT !.retry = S].job = worker.job
                   /\ [worker EXCEPT !.retry = S].todo = worker.todo
                   /\ [worker EXCEPT !.retry = S].retry = S
         /\ \A n \in Nat : /\ [worker EXCEPT !.attempt = n] \in Workers
                           /\ [worker EXCEPT !.attempt = n].job = worker.job
                           /\ [worker EXCEPT !.attempt = n].todo = worker.todo
                           /\ [worker EXCEPT !.attempt = n].retry = worker.retry
                           /\ [worker EXCEPT !.attempt = n].attempt = n
  BY DEF TypeOK, Workers, Loop, Idle

\* After a batch the worker's state is between batches again.
LEMMA AfterBatch ==
  ASSUME EarnInv,
         \/ worker'.at = "loop" /\ worker'.retry = {} /\ (thread'.at = "none" \/ worker'.todo = {})
         \/ worker'.at = "idle" /\ worker'.todo = {}
         \/ worker'.at = "retry" /\ thread'.at = "none" /\ worker'.todo \cap worker'.retry = {}
  PROVE  EarnThread' /\ EarnShape' /\ Pending' = worker'.todo \union worker'.retry
  BY DEF EarnThread, EarnShape, InBatch, Pending

\* A batch's first attempt.
LEMMA FirstEarns ==
  ASSUME EarnInv, NEW j \in Jobs, worker.job = j, FirstAttempt(j)
  PROVE  EarnThread' /\ EarnShape' /\ EarnMarked' /\ (crashes' = 0 => EarnFresh')
<1>. DEFINE Goal == EarnThread' /\ EarnShape' /\ EarnMarked' /\ (crashes' = 0 => EarnFresh')
<1>1. /\ worker.asked \in SUBSET Stocks /\ worker.todo \in SUBSET Stocks /\ worker.attempt = 1
      /\ UNCHANGED <<queue, stop, stocks, invoked, crashes>> /\ TypeOK
  BY DEF EarnInv, TypeOK, Workers, FirstAttempt
<1>2. InBatch
  BY DEF FirstAttempt, BatchOk, BatchMissing, BatchStuck, BatchError, Returned, InBatch
<1>3. /\ worker.todo \cap worker.asked = {} /\ worker.asked = worker.batch /\ worker.retry = {}
      /\ Pending = worker.todo \union worker.asked
  BY <1>1, <1>2 DEF EarnInv, EarnShape, Pending
<1>4. ASSUME BatchOk(j), Mark(j, worker.asked, "ok"), worker' = Loop(j, worker.todo), UNCHANGED status
      PROVE  Goal
  <2>1. /\ worker'.at = "loop" /\ worker'.job = j /\ worker'.todo = worker.todo /\ worker'.retry = {}
    BY <1>1, <1>4, WorkerForms
  <2>2. /\ thread'.at = "none" /\ worker.asked \subseteq invoked[j]
        /\ \A k \in Jobs : k # j => seen'[k] = seen[k]
        /\ seen[j] \subseteq seen'[j] /\ worker.asked \subseteq seen'[j]
    BY <1>1, <1>4, BatchEffect
  <2>3. EarnThread' /\ EarnShape' /\ Pending' = worker.todo
    BY <2>1, <2>2, AfterBatch
  <2>4. "ok" \in Results \ {"none"}
    BY DEF Results
  <2>5. EarnMarked' /\ (crashes' = 0 => EarnFresh')
    BY <1>1, <1>2, <1>3, <1>4, <2>1, <2>2, <2>3, <2>4, MovesOn
  <2>. QED BY <2>3, <2>5
<1>5. ASSUME BatchMissing(j), Mark(j, worker.asked, "target_missing"), worker' = Loop(j, worker.todo),
             UNCHANGED status
      PROVE  Goal
  <2>1. /\ worker'.at = "loop" /\ worker'.job = j /\ worker'.todo = worker.todo /\ worker'.retry = {}
    BY <1>1, <1>5, WorkerForms
  <2>2. /\ thread'.at = "none"
        /\ \A k \in Jobs : k # j => seen'[k] = seen[k]
        /\ seen[j] \subseteq seen'[j] \union worker.asked
    BY <1>1, <1>5, BatchEffect
  <2>3. EarnThread' /\ EarnShape' /\ Pending' = worker.todo
    BY <2>1, <2>2, AfterBatch
  <2>4. "target_missing" \in Results \ {"none"}
    BY DEF Results
  <2>5. EarnMarked' /\ (crashes' = 0 => EarnFresh')
    BY <1>1, <1>2, <1>3, <1>5, <2>1, <2>2, <2>3, <2>4, MovesOn
  <2>. QED BY <2>3, <2>5
<1>6. ASSUME BatchStuck, GiveUp(j, worker.asked \union worker.todo), UNCHANGED status PROVE Goal
  <2>1. /\ worker'.at = "loop" /\ worker'.job = j /\ worker'.todo = {} /\ worker'.retry = {}
        /\ Mark(j, worker.asked \union worker.todo, "transport_stuck")
    BY <1>1, <1>6, WorkerForms DEF GiveUp
  <2>2. UNCHANGED seen
    BY <1>1, <1>6, BatchEffect
  <2>3. EarnThread' /\ EarnShape' /\ Pending' = {}
    BY <2>1, AfterBatch
  <2>4. "transport_stuck" \in Results \ {"none"}
    BY DEF Results
  <2>5. EarnMarked' /\ (crashes' = 0 => EarnFresh')
    BY <1>1, <1>2, <1>3, <1>6, <2>1, <2>2, <2>3, <2>4, MovesOn
  <2>. QED BY <2>3, <2>5
<1>7. ASSUME BatchError, StopRequested(j), SetStatus(j, "canceled"), worker' = Idle, UNCHANGED result
      PROVE  Goal
  <2>1. worker'.at = "idle" /\ worker'.job = NoJob /\ worker'.todo = {} /\ worker'.retry = {}
    BY <1>1, <1>7, WorkerForms
  <2>2. UNCHANGED seen
    BY <1>1, <1>7, BatchEffect
  <2>3. EarnThread' /\ EarnShape' /\ Pending' = {}
    BY <2>1, AfterBatch
  <2>4. "error" \in Results \ {"none"} /\ {} \in SUBSET Stocks
    BY DEF Results
  <2>5. status' = [status EXCEPT ![j] = "canceled"]
    BY <1>7 DEF SetStatus
  <2>6. /\ \A k \in Jobs : k # j => status'[k] = status[k]
        /\ status'[j] = "canceled" /\ UNCHANGED result
        /\ worker'.at = "idle" /\ worker'.job = NoJob /\ worker'.job # j
    BY <1>1, <1>7, <2>1, <2>5, DownloadAssumption DEF TypeOK
  <2>7. EarnMarked' /\ (crashes' = 0 => EarnFresh')
    BY <1>1, <1>2, <2>2, <2>3, <2>4, <2>6, MovesOn
  <2>. QED BY <2>3, <2>7
<1>8. ASSUME BatchError, worker' = [worker EXCEPT !.at = "retry", !.retry = worker.batch],
             UNCHANGED <<status, result>>
      PROVE  Goal
  <2>1. /\ worker'.at = "retry" /\ worker'.job = j /\ worker'.todo = worker.todo
        /\ worker'.retry = worker.asked
    BY <1>1, <1>3, <1>8, WorkerForms
  <2>2. thread'.at = "none" /\ UNCHANGED seen
    BY <1>1, <1>8, BatchEffect
  <2>3. EarnThread' /\ EarnShape' /\ Pending' = Pending
    BY <1>3, <2>1, <2>2, AfterBatch
  <2>4. "error" \in Results \ {"none"} /\ {} \in SUBSET Stocks
    BY DEF Results
  <2>5. UNCHANGED <<status, result, seen>> /\ worker'.at = "retry" /\ worker'.job = j /\ Pending' = Pending
    BY <1>8, <2>1, <2>2, <2>3
  <2>6. EarnMarked' /\ (crashes' = 0 => EarnFresh')
    BY <1>1, <1>2, <2>4, <2>5, MovesOn
  <2>. QED BY <2>3, <2>6
<1>. QED BY <1>4, <1>5, <1>6, <1>7, <1>8 DEF FirstAttempt

\* A retry of one symbol, and what follows it.
LEMMA RetriedEarns ==
  ASSUME EarnInv, NEW j \in Jobs, worker.job = j, Retried(j)
  PROVE  EarnThread' /\ EarnShape' /\ EarnMarked' /\ (crashes' = 0 => EarnFresh')
<1>. DEFINE Goal == EarnThread' /\ EarnShape' /\ EarnMarked' /\ (crashes' = 0 => EarnFresh')
<1>1. /\ worker.asked \in SUBSET Stocks /\ worker.todo \in SUBSET Stocks
      /\ worker.retry \in SUBSET Stocks /\ worker.attempt # 1
      /\ UNCHANGED <<status, queue, stop, stocks, invoked, crashes>> /\ TypeOK
  BY DEF EarnInv, TypeOK, Workers, Retried
<1>2. InBatch
  BY DEF Retried, BatchOk, BatchMissing, BatchStuck, BatchError, Returned, InBatch
<1>3. /\ worker.asked \subseteq worker.retry /\ worker.todo \cap worker.retry = {}
      /\ Pending = worker.todo \union worker.retry
  BY <1>1, <1>2 DEF EarnInv, EarnShape, Pending
<1>4. {"ok", "target_missing", "error", "transport_stuck"} \subseteq Results \ {"none"}
  BY DEF Results
<1>5. ASSUME NextSymbol
      PROVE  /\ worker'.at = "retry" /\ worker'.job = j /\ worker'.todo = worker.todo
             /\ worker'.retry = worker.retry \ worker.asked
  <2>1. worker' = [worker EXCEPT !.at = "retry", !.retry = worker.retry \ worker.asked]
    BY <1>5 DEF NextSymbol
  <2>. QED BY <1>1, <2>1, WorkerForms
<1>6. ASSUME BatchOk(j), Mark(j, worker.asked, "ok"), NextSymbol PROVE Goal
  <2>1. /\ thread'.at = "none" /\ worker.asked \subseteq invoked[j]
        /\ \A k \in Jobs : k # j => seen'[k] = seen[k]
        /\ seen[j] \subseteq seen'[j] /\ worker.asked \subseteq seen'[j]
    BY <1>1, <1>6, BatchEffect
  <2>2. /\ EarnThread' /\ EarnShape'
        /\ Pending' = worker.todo \union (worker.retry \ worker.asked)
    BY <1>3, <1>5, <1>6, <2>1, AfterBatch
  <2>3. /\ worker'.at = "retry" /\ worker'.job = j /\ "ok" \in Results \ {"none"}
        /\ Mark(j, worker.asked, "ok")
    BY <1>4, <1>5, <1>6
  <2>4. /\ Pending' \subseteq Pending /\ Pending \subseteq Pending' \union worker.asked
        /\ Pending' \cap worker.asked = {}
    BY <1>3, <2>2
  <2>5. EarnMarked' /\ (crashes' = 0 => EarnFresh')
    BY <1>1, <1>2, <2>1, <2>3, <2>4, MovesOn
  <2>. QED BY <2>2, <2>5
<1>7. ASSUME BatchStuck, GiveUp(j, worker.retry \union worker.todo) PROVE Goal
  <2>1. /\ worker'.at = "loop" /\ worker'.job = j /\ worker'.todo = {} /\ worker'.retry = {}
        /\ Mark(j, worker.retry \union worker.todo, "transport_stuck")
    BY <1>1, <1>7, WorkerForms DEF GiveUp
  <2>2. UNCHANGED seen
    BY <1>1, <1>7, BatchEffect
  <2>3. EarnThread' /\ EarnShape' /\ Pending' = {}
    BY <2>1, AfterBatch
  <2>4. worker.retry \union worker.todo \in SUBSET Stocks /\ Pending = worker.retry \union worker.todo
    BY <1>1, <1>3
  <2>5. EarnMarked' /\ (crashes' = 0 => EarnFresh')
    BY <1>1, <1>2, <1>4, <2>1, <2>2, <2>3, <2>4, MovesOn
  <2>. QED BY <2>3, <2>5
<1>8. ASSUME BatchMissing(j) \/ BatchError, NextSymbol,
             NEW r \in {"target_missing", "error"},
             Mark(j, worker.asked, r) \/ (stop[j] /\ UNCHANGED result /\ r = "error")
      PROVE  Goal
  <2>1. /\ thread'.at = "none"
        /\ \A k \in Jobs : k # j => seen'[k] = seen[k]
        /\ seen[j] \subseteq seen'[j] \union worker.asked
    BY <1>1, <1>8, BatchEffect
  <2>2. /\ EarnThread' /\ EarnShape'
        /\ Pending' = worker.todo \union (worker.retry \ worker.asked)
    BY <1>3, <1>5, <1>8, <2>1, AfterBatch
  <2>3. r \in Results \ {"none"} /\ r # "ok"
    BY <1>4
  <2>4. Ok(j) \cap Pending = {} => Ok(j) \cap seen[j] \subseteq seen'[j]
    BY <1>3, <2>1
  <2>5. EarnMarked' /\ (crashes' = 0 => EarnFresh')
    BY <1>1, <1>2, <1>3, <1>5, <1>8, <2>1, <2>2, <2>3, <2>4, MovesOn
  <2>. QED BY <2>2, <2>5
<1>9. \/ BatchOk(j) /\ Mark(j, worker.asked, "ok") /\ NextSymbol
      \/ BatchStuck /\ GiveUp(j, worker.retry \union worker.todo)
      \/ (BatchMissing(j) \/ BatchError) /\ stop[j] /\ NextSymbol /\ UNCHANGED result
      \/ /\ \/ BatchMissing(j) /\ Mark(j, worker.asked, "target_missing")
            \/ BatchError /\ Mark(j, worker.asked, "error")
         /\ NextSymbol
  BY DEF Retried, StopRequested
<1>. QED BY <1>6, <1>7, <1>8, <1>9

\* Another attempt at the symbol.
LEMMA AgainEarns ==
  ASSUME EarnInv, NEW j \in Jobs, worker.job = j, RetryAgain(j)
  PROVE  EarnThread' /\ EarnShape' /\ EarnMarked' /\ (crashes' = 0 => EarnFresh')
<1>1. /\ worker.asked \in SUBSET Stocks /\ worker.attempt \in Nat /\ worker.attempt > 1
      /\ UNCHANGED <<status, result, queue, stop, stocks, invoked, crashes>> /\ TypeOK
  BY DEF EarnInv, TypeOK, Workers, RetryAgain, record
<1>2. InBatch
  BY DEF RetryAgain, Returned, InBatch
<1>3. /\ worker.asked \subseteq worker.retry /\ worker.todo \cap worker.retry = {}
      /\ worker.todo \cap worker.asked = {}
      /\ Pending = worker.todo \union worker.retry
  BY <1>1, <1>2 DEF EarnInv, EarnShape, Pending
<1>4. PICK n \in Nat : n = worker.attempt + 1
  BY <1>1
<1>5. Ask(j, worker.asked, [worker EXCEPT !.attempt = n])
  BY <1>4 DEF RetryAgain
<1>. DEFINE w == [worker EXCEPT !.attempt = n]
<1>6. w \in Workers /\ w.job = j /\ w.todo = worker.todo /\ w.retry = worker.retry /\ w.attempt = n
  BY <1>1, WorkerForms
<1>. HIDE DEF w
<1>7. /\ worker'.at = "batch" /\ worker'.job = j /\ worker'.asked = worker.asked
      /\ worker'.todo = worker.todo /\ worker'.retry = worker.retry /\ worker'.attempt = n
      /\ thread'.at = "check" /\ thread'.job = j /\ thread'.left = worker.asked
  BY <1>5, <1>6, AskEffect, ZenonT(30) DEF w
<1>8. Pending' = Pending
  BY <1>3, <1>7 DEF Pending, InBatch
<1>9. EarnThread' /\ EarnShape'
  BY <1>1, <1>3, <1>4, <1>7 DEF EarnThread, EarnShape, InBatch
<1>10. /\ \A k \in Jobs : k # j => seen'[k] = seen[k]
       /\ seen[j] \subseteq seen'[j] \union worker.asked
  <2>1. UNCHANGED seen \/ \E M \in SUBSET worker.asked : ReadRows(j, worker.asked, M)
    BY DEF RetryAgain
  <2>2. ASSUME NEW M \in SUBSET worker.asked, ReadRows(j, worker.asked, M)
        PROVE  /\ \A k \in Jobs : k # j => seen'[k] = seen[k]
               /\ seen'[j] = (seen[j] \ M) \union (worker.asked \ M)
    BY <1>1, <2>2, ReadEffect
  <2>. QED BY <2>1, <2>2
<1>11. Ok(j) \cap Pending = {} => Ok(j) \cap seen[j] \subseteq seen'[j]
  BY <1>3, <1>10
<1>12. "error" \in Results \ {"none"} /\ {} \in SUBSET Stocks
  BY DEF Results
<1>13. EarnMarked' /\ (crashes' = 0 => EarnFresh')
  BY <1>1, <1>2, <1>7, <1>8, <1>10, <1>11, <1>12, MovesOn
<1>. QED BY <1>9, <1>13

\* The next symbol of a failed batch.
LEMMA SymbolEarns ==
  ASSUME EarnInv, NEW j \in Jobs, worker.job = j, RetrySymbol(j)
  PROVE  EarnThread' /\ EarnShape' /\ EarnMarked' /\ (crashes' = 0 => EarnFresh')
<1>. DEFINE Goal == EarnThread' /\ EarnShape' /\ EarnMarked' /\ (crashes' = 0 => EarnFresh')
<1>1. /\ worker.todo \in SUBSET Stocks /\ worker.retry \in SUBSET Stocks /\ worker.at = "retry"
      /\ UNCHANGED <<queue, stop, stocks, invoked, crashes, seen>> /\ TypeOK
  BY DEF EarnInv, TypeOK, Workers, RetrySymbol, MarkCanceled, record, ghosts
<1>2. /\ worker.todo \cap worker.retry = {} /\ thread.at = "none"
      /\ Pending = worker.todo \union worker.retry
  BY <1>1 DEF EarnInv, EarnShape, EarnThread, Pending, InBatch
<1>3. "error" \in Results \ {"none"} /\ {} \in SUBSET Stocks
  BY DEF Results
<1>4. ASSUME MarkCanceled(j), UNCHANGED thread PROVE Goal
  <2>1. worker'.at = "idle" /\ worker'.job = NoJob /\ worker'.todo = {} /\ worker'.retry = {}
    BY <1>1, <1>4, WorkerForms DEF MarkCanceled
  <2>2. EarnThread' /\ EarnShape' /\ Pending' = {}
    BY <2>1, AfterBatch
  <2>3. status' = [status EXCEPT ![j] = "canceled"] /\ UNCHANGED result
    BY <1>4 DEF MarkCanceled, SetStatus
  <2>4. /\ \A k \in Jobs : k # j => status'[k] = status[k]
        /\ status'[j] = "canceled" /\ UNCHANGED result
        /\ worker'.at = "idle" /\ worker'.job = NoJob /\ worker'.job # j
    BY <1>1, <2>1, <2>3, DownloadAssumption DEF TypeOK
  <2>5. EarnMarked' /\ (crashes' = 0 => EarnFresh')
    BY <1>1, <1>3, <2>2, <2>4, MovesOn
  <2>. QED BY <2>2, <2>5
<1>5. ASSUME NEW s \in worker.retry, Ask(j, {s}, [worker EXCEPT !.attempt = 2]), UNCHANGED <<status, result>>
      PROVE  Goal
  <2>. DEFINE w == [worker EXCEPT !.attempt = 2]
  <2>1. w \in Workers /\ w.job = j /\ w.todo = worker.todo /\ w.retry = worker.retry /\ w.attempt = 2
    BY <1>1, WorkerForms
  <2>. HIDE DEF w
  <2>2. /\ worker'.at = "batch" /\ worker'.job = j /\ worker'.asked = {s}
        /\ worker'.todo = worker.todo /\ worker'.retry = worker.retry /\ worker'.attempt = 2
        /\ thread'.at = "check" /\ thread'.job = j /\ thread'.left = {s}
    BY <1>5, <2>1, AskEffect DEF w
  <2>3. Pending' = Pending
    BY <1>2, <2>2 DEF Pending, InBatch
  <2>4. EarnThread' /\ EarnShape'
    BY <1>2, <2>2 DEF EarnThread, EarnShape, InBatch
  <2>5. EarnMarked' /\ (crashes' = 0 => EarnFresh')
    BY <1>1, <1>3, <1>5, <2>2, <2>3, MovesOn
  <2>. QED BY <2>4, <2>5
<1>6. ASSUME NEW s \in worker.retry, Mark(j, {s}, "error"),
             worker' = [worker EXCEPT !.retry = @ \ {s}], UNCHANGED <<status, thread>>
      PROVE  Goal
  <2>1. worker' = [worker EXCEPT !.retry = worker.retry \ {s}]
    BY <1>6
  <2>2. /\ worker'.at = "retry" /\ worker'.job = j /\ worker'.todo = worker.todo
        /\ worker'.retry = worker.retry \ {s}
    BY <1>1, <2>1, WorkerForms
  <2>3. EarnThread' /\ EarnShape' /\ Pending' = worker.todo \union (worker.retry \ {s})
    BY <1>2, <1>6, <2>2, AfterBatch
  <2>4. {s} \in SUBSET Stocks
    BY <1>1
  <2>5. EarnMarked' /\ (crashes' = 0 => EarnFresh')
    BY <1>1, <1>2, <1>3, <1>6, <2>2, <2>3, <2>4, MovesOn
  <2>. QED BY <2>3, <2>5
<1>7. ASSUME worker.retry = {}, worker' = Loop(j, worker.todo), UNCHANGED <<status, result, thread>>
      PROVE  Goal
  <2>1. /\ worker'.at = "loop" /\ worker'.job = j /\ worker'.todo = worker.todo /\ worker'.retry = {}
    BY <1>1, <1>7, WorkerForms
  <2>2. EarnThread' /\ EarnShape' /\ Pending' = Pending
    BY <1>2, <1>7, <2>1, AfterBatch
  <2>3. EarnMarked' /\ (crashes' = 0 => EarnFresh')
    BY <1>1, <1>3, <1>7, <2>1, <2>2, MovesOn
  <2>. QED BY <2>2, <2>3
<1>8. \/ MarkCanceled(j) /\ UNCHANGED thread
      \/ \E s \in worker.retry :
           Ask(j, {s}, [worker EXCEPT !.attempt = 2]) /\ UNCHANGED <<status, result>>
      \/ \E s \in worker.retry : /\ Mark(j, {s}, "error")
                                 /\ worker' = [worker EXCEPT !.retry = @ \ {s}]
                                 /\ UNCHANGED <<status, thread>>
      \/ worker.retry = {} /\ worker' = Loop(j, worker.todo) /\ UNCHANGED <<status, result, thread>>
  BY DEF RetrySymbol, record
<1>. QED BY <1>4, <1>5, <1>6, <1>7, <1>8

\* The batch's thread records what it has invoked before it ends well.
LEMMA ThreadEarns ==
  ASSUME EarnInv, NEW j \in Jobs, thread.job = j,
         \/ CheckNext(j) \/ EnterLane(j) \/ CallNative(j) \/ NativeReturns(j) \/ RecordInvocation(j)
  PROVE  EarnThread' /\ EarnShape' /\ EarnMarked' /\ (crashes' = 0 => EarnFresh')
<1>1. UNCHANGED <<queue, status, stop, worker, result, stocks, seen, crashes>>
  BY DEF CheckNext, EnterLane, CallNative, NativeReturns, RecordInvocation, Rest
<1>2. \A k \in Jobs : invoked[k] \subseteq invoked'[k]
  <2>1. UNCHANGED invoked \/ invoked' = [invoked EXCEPT ![j] = @ \union {thread.stock}]
    BY DEF CheckNext, EnterLane, CallNative, NativeReturns, RecordInvocation
  <2>. QED BY <2>1, ZenonT(30) DEF EarnInv, TypeOK
<1>3. EarnShape' /\ Pending' = Pending /\ Queued' = Queued /\ InBatch' = InBatch
  BY <1>1 DEF EarnInv, EarnShape, Pending, InBatch, Queued
<1>4. EarnMarked'
  BY <1>1, <1>2, <1>3 DEF EarnInv, EarnMarked, Ok, CompletedAccounts
<1>5. crashes' = 0 => EarnFresh'
  BY <1>1, <1>3 DEF EarnInv, EarnFresh, Ok
<1>6. /\ thread \in Threads /\ thread.at # "none" /\ worker.asked \subseteq Stocks
      /\ InBatch => worker.job = j
      /\ InBatch \/ worker.at = "idle" \/ (worker.at = "loop" /\ worker.todo = {})
      /\ InBatch /\ thread.at # "done" => worker.asked \subseteq thread.left \union invoked[j]
  <2>1. thread.at # "none"
    BY DownloadAssumption DEF EarnInv, TypeOK
  <2>. QED BY <2>1 DEF EarnInv, EarnThread, TypeOK, Workers
\* As long as the thread goes on, or ends otherwise than well, only what it
\* has left and has invoked matters.
<1>7. ASSUME InBatch => thread'.job = j,
             InBatch /\ thread'.at # "done" => worker.asked \subseteq thread'.left \union invoked'[j],
             InBatch /\ thread'.at = "done" /\ thread'.outcome = "ok" => worker.asked \subseteq invoked'[j]
      PROVE  EarnThread'
  BY <1>1, <1>3, <1>6, <1>7 DEF EarnThread
<1>8. ASSUME NEW o \in {"ok", "stuck", "error"}, ThreadEnds(j, o),
             o = "ok" /\ InBatch => worker.asked \subseteq invoked'[j]
      PROVE  EarnThread'
  <2>1. InBatch => thread'.at = "done" /\ thread'.job = j /\ thread'.outcome = o
    BY <1>8 DEF ThreadEnds, InBatch, NoThread
  <2>. QED BY <1>7, <1>8, <2>1
<1>9. ASSUME CheckNext(j) PROVE EarnThread'
  <2>1. CASE thread.left = {} /\ ThreadEnds(j, "ok")
    BY <1>2, <1>6, <1>8, <1>9, <2>1 DEF CheckNext
  <2>2. CASE ThreadEnds(j, "error")
    BY <1>8, <2>2
  <2>3. ASSUME NEW s \in thread.left, thread' = [thread EXCEPT !.at = "armed", !.stock = s]
        PROVE  EarnThread'
    <3>1. thread'.at = "armed" /\ thread'.job = j /\ thread'.left = thread.left
      BY <1>6, <2>3 DEF Threads
    <3>. QED BY <1>2, <1>6, <1>7, <1>9, <3>1 DEF CheckNext
  <2>. QED BY <1>9, <2>1, <2>2, <2>3 DEF CheckNext
<1>10. ASSUME EnterLane(j) PROVE EarnThread'
  <2>1. ASSUME thread' = [thread EXCEPT !.at = "entered"] PROVE EarnThread'
    <3>1. thread'.at = "entered" /\ thread'.job = j /\ thread'.left = thread.left
      BY <1>6, <2>1 DEF Threads
    <3>. QED BY <1>2, <1>6, <1>7, <1>10, <3>1 DEF EnterLane
  <2>. QED BY <1>8, <1>10, <2>1 DEF EnterLane
<1>11. ASSUME CallNative(j) PROVE EarnThread'
  <2>1. thread'.at = "native" /\ thread'.job = j /\ thread'.left = thread.left /\ thread.at # "done"
    BY <1>6, <1>11 DEF CallNative, Threads
  <2>. QED BY <1>2, <1>6, <1>7, <2>1
<1>12. ASSUME NativeReturns(j) PROVE EarnThread'
  <2>1. ASSUME thread' = [thread EXCEPT !.at = "record"] PROVE EarnThread'
    <3>1. thread'.at = "record" /\ thread'.job = j /\ thread'.left = thread.left
      BY <1>6, <2>1 DEF Threads
    <3>. QED BY <1>2, <1>6, <1>7, <1>12, <3>1 DEF NativeReturns
  <2>. QED BY <1>8, <1>12, <2>1 DEF NativeReturns
<1>13. ASSUME RecordInvocation(j) PROVE EarnThread'
  <2>1. /\ thread'.at = "check" /\ thread'.job = j /\ thread'.left = thread.left \ {thread.stock}
        /\ thread.at # "done"
    BY <1>6, <1>13 DEF RecordInvocation, Threads
  <2>2. invoked'[j] = invoked[j] \union {thread.stock}
    BY <1>13 DEF RecordInvocation, EarnInv, TypeOK
  <2>. QED BY <1>6, <1>7, <2>1, <2>2
<1>. QED BY <1>3, <1>4, <1>5, <1>9, <1>10, <1>11, <1>12, <1>13

\* A queue without repetitions keeps that when a job leaves it.
LEMMA QueueDistinct ==
  ASSUME queue \in Seq(Jobs), NEW j \in Jobs,
         \A i, k \in 1 .. Len(queue) : queue[i] = queue[k] => i = k
  PROVE  /\ queue' = Append(queue, j) /\ j \notin Queued =>
              \A i, k \in 1 .. Len(queue') : queue'[i] = queue'[k] => i = k
         /\ queue # <<>> /\ queue' = Tail(queue) =>
              /\ \A i, k \in 1 .. Len(queue') : queue'[i] = queue'[k] => i = k
              /\ Head(queue) \notin Queued'
         /\ Dequeue(j) => \A i, k \in 1 .. Len(queue') : queue'[i] = queue'[k] => i = k
<1>1. ASSUME queue' = Append(queue, j), j \notin Queued, NEW i \in 1 .. Len(queue'),
             NEW k \in 1 .. Len(queue'), queue'[i] = queue'[k]
      PROVE  i = k
  <2>1. /\ Len(queue') = Len(queue) + 1 /\ queue'[Len(queue) + 1] = j /\ Len(queue) \in Nat
        /\ \A n \in 1 .. Len(queue) : queue'[n] = queue[n] /\ queue[n] # j
    BY <1>1 DEF Queued
  <2>. QED BY <1>1, <2>1
<1>2. ASSUME queue # <<>>, queue' = Tail(queue)
      PROVE  /\ \A i, k \in 1 .. Len(queue') : queue'[i] = queue'[k] => i = k
             /\ Head(queue) \notin Queued'
  <2>1. /\ Len(queue) \in Nat \ {0} /\ Len(queue') = Len(queue) - 1 /\ Head(queue) = queue[1]
        /\ \A i \in 1 .. Len(queue') : queue'[i] = queue[i + 1]
    BY <1>2, HeadTailProperties
  <2>2. \A i \in 1 .. Len(queue') : i + 1 \in 1 .. Len(queue) /\ i + 1 # 1
    BY <2>1
  <2>3. ASSUME NEW i \in 1 .. Len(queue'), NEW k \in 1 .. Len(queue'), queue'[i] = queue'[k]
        PROVE  i = k
    <3>1. queue[i + 1] = queue[k + 1] /\ i + 1 \in 1 .. Len(queue) /\ k + 1 \in 1 .. Len(queue)
      BY <2>1, <2>2, <2>3
    <3>2. i + 1 = k + 1
      BY <3>1
    <3>. QED BY <3>2
  <2>4. ASSUME NEW i \in 1 .. Len(queue') PROVE queue'[i] # Head(queue)
    <3>1. queue'[i] = queue[i + 1] /\ i + 1 \in 1 .. Len(queue) /\ i + 1 # 1 /\ 1 \in 1 .. Len(queue)
      BY <2>1, <2>2
    <3>. QED BY <2>1, <3>1
  <2>. QED BY <2>3, <2>4 DEF Queued
<1>3. ASSUME Dequeue(j), NEW a \in 1 .. Len(queue'), NEW b \in 1 .. Len(queue'), queue'[a] = queue'[b]
      PROVE  a = b
  <2>1. CASE UNCHANGED queue
    BY <1>3, <2>1
  <2>2. ASSUME NEW i \in 1 .. Len(queue),
               queue' = SubSeq(queue, 1, i - 1) \o SubSeq(queue, i + 1, Len(queue))
        PROVE  a = b
    <3>. DEFINE s == SubSeq(queue, 1, i - 1)
                t == SubSeq(queue, i + 1, Len(queue))
    <3>1. /\ s \in Seq(Jobs) /\ Len(s) = i - 1
          /\ \A k \in 1 .. Len(s) : s[k] = queue[k]
      BY SubSeqProperties
    <3>2. /\ t \in Seq(Jobs) /\ Len(t) = Len(queue) - i
          /\ \A k \in 1 .. Len(t) : t[k] = queue[i + k]
      BY SubSeqProperties
    <3>. HIDE DEF s, t
    <3>3. queue' = s \o t
      BY <2>2 DEF s, t
    <3>4. /\ Len(queue') = Len(s) + Len(t) /\ Len(queue) \in Nat
          /\ \A k \in 1 .. Len(s) + Len(t) : queue'[k] = IF k <= Len(s) THEN s[k] ELSE t[k - Len(s)]
      <4>0. s \in Seq(Jobs) /\ t \in Seq(Jobs)
        BY <3>1, <3>2
      <4>1. /\ Len(s \o t) = Len(s) + Len(t)
            /\ \A k \in 1 .. Len(s) + Len(t) : (s \o t)[k] = IF k <= Len(s) THEN s[k] ELSE t[k - Len(s)]
        BY ONLY <4>0, ConcatProperties, Zenon
      <4>2. Len(queue) \in Nat
        OBVIOUS
      <4>. QED BY <4>1, <4>2, <3>3, Zenon
    <3>5. ASSUME NEW k \in 1 .. Len(queue')
          PROVE  \E n \in 1 .. Len(queue) : queue'[k] = queue[n] /\ n = IF k < i THEN k ELSE k + 1
      <4>1. CASE k < i
        <5>1. k \in 1 .. Len(s) /\ k \in 1 .. Len(queue)
          BY <4>1, <3>1, <3>2, <3>4
        <5>. QED BY <4>1, <5>1, <3>1, <3>4
      <4>2. CASE k >= i
        <5>1. k - Len(s) \in 1 .. Len(t) /\ i + (k - Len(s)) = k + 1 /\ k + 1 \in 1 .. Len(queue)
          BY <4>2, <3>1, <3>2, <3>4
        <5>2. queue'[k] = t[k - Len(s)] /\ t[k - Len(s)] = queue[k + 1]
          BY <4>2, <5>1, <3>1, <3>2, <3>4
        <5>. QED BY <4>2, <5>1, <5>2
      <4>. QED BY <4>1, <4>2
    <3>6. PICK m \in 1 .. Len(queue) : queue'[a] = queue[m] /\ m = IF a < i THEN a ELSE a + 1
      BY <1>3, <3>5
    <3>7. PICK n \in 1 .. Len(queue) : queue'[b] = queue[n] /\ n = IF b < i THEN b ELSE b + 1
      BY <1>3, <3>5
    <3>8. m = n
      BY <1>3, <3>6, <3>7
    <3>9. a \in Int /\ b \in Int /\ i \in Int
      BY <1>3, <2>2, <3>4
    <3>. QED BY <3>6, <3>7, <3>8, <3>9
  <2>. QED BY <1>3, <2>1, <2>2 DEF Dequeue
<1>. QED BY <1>1, <1>2, <1>3

\* Requests, the next job and restarts.
LEMMA HandlersEarn ==
  ASSUME EarnInv, NEW j \in Jobs, Submit(j) \/ Cancel(j)
  PROVE  EarnThread' /\ EarnShape' /\ EarnMarked' /\ (crashes' = 0 => EarnFresh')
<1>1. /\ UNCHANGED <<result, invoked, worker, thread, seen, crashes>> /\ queue \in Seq(Jobs)
      /\ InBatch' = InBatch /\ Pending' = Pending /\ EarnThread' /\ EarnShape'
  BY DEF Submit, Cancel, ghosts, EarnInv, TypeOK, EarnThread, EarnShape, Pending, InBatch
<1>2. CASE Submit(j)
  <2>1. /\ status[j] = "absent" /\ UNCHANGED stop
        /\ \A k \in Jobs : k # j => status'[k] = status[k] /\ stocks'[k] = stocks[k]
        /\ status'[j] = "queued" /\ j \notin Queued /\ worker.job # j
    BY <1>2 DEF Submit, SetStatus, EarnInv, TypeOK, EarnMarked
  <2>2. queue' = Append(queue, j) /\ Queued' = Queued \union {j}
    BY <1>2, QueuedFrame DEF Submit, EarnInv
  <2>3. EarnMarked'
    BY <1>1, <2>1, <2>2 DEF EarnInv, EarnMarked, CompletedAccounts, Ok
  <2>4. ASSUME crashes = 0 PROVE EarnFresh'
    <3>1. \A i, k \in 1 .. Len(queue') : queue'[i] = queue'[k] => i = k
      BY <1>1, <2>1, <2>2, <2>4, QueueDistinct DEF EarnInv, EarnFresh
    <3>. QED BY <1>1, <2>1, <2>2, <2>4, <3>1 DEF EarnInv, EarnFresh, Ok
  <2>. QED BY <1>1, <2>3, <2>4
<1>3. CASE Cancel(j)
  <2>1. /\ status[j] # "absent" /\ UNCHANGED stocks
        /\ \A k \in Jobs : k # j => status'[k] = status[k]
        /\ status'[j] \in {status[j], "canceled"}
        /\ \A k \in Jobs : stop[k] => stop'[k]
    BY <1>3 DEF Cancel, SetStatus, EarnInv, TypeOK
  <2>2. UNCHANGED queue \/ Dequeue(j)
    BY <1>3 DEF Cancel
  <2>3. Queued' \subseteq Queued
    BY <2>2, QueuedFrame DEF EarnInv, Queued
  <2>4. EarnMarked'
    BY <1>1, <2>1, <2>3 DEF EarnInv, EarnMarked, CompletedAccounts, Ok
  <2>5. ASSUME crashes = 0 PROVE EarnFresh'
    <3>1. \A i, k \in 1 .. Len(queue') : queue'[i] = queue'[k] => i = k
      BY <1>1, <2>2, <2>5, QueueDistinct DEF EarnInv, EarnFresh
    <3>. QED BY <1>1, <2>1, <2>3, <2>5, <3>1 DEF EarnInv, EarnFresh, Ok
  <2>. QED BY <1>1, <2>4, <2>5
<1>. QED BY <1>2, <1>3

LEMMA PopEarns ==
  ASSUME EarnInv, Pop
  PROVE  EarnThread' /\ EarnShape' /\ EarnMarked' /\ (crashes' = 0 => EarnFresh')
<1>1. /\ queue # <<>> /\ queue' = Tail(queue) /\ queue \in Seq(Jobs) /\ thread.at = "none"
      /\ UNCHANGED <<status, stocks, stop, result, invoked, thread, seen, crashes>>
      /\ worker'.at = "popped" /\ worker'.job = Head(queue) /\ worker'.todo = {} /\ worker'.retry = {}
  BY DEF Pop, record, ghosts, Idle, EarnInv, TypeOK
<1>2. Queued' \subseteq Queued /\ Head(queue) \in Queued /\ Queued \subseteq Jobs
  <2>1. PICK k \in Jobs : TRUE
    BY <1>1
  <2>. QED BY <1>1, <2>1, QueuedFrame DEF EarnInv, Queued
<1>3. Pending' = {} /\ EarnThread' /\ EarnShape'
  BY <1>1 DEF EarnThread, EarnShape, InBatch, Pending
<1>4. EarnMarked'
  BY <1>1, <1>2 DEF EarnInv, EarnMarked, CompletedAccounts, Ok
<1>5. ASSUME crashes = 0 PROVE EarnFresh'
  <2>1. /\ \A i, k \in 1 .. Len(queue') : queue'[i] = queue'[k] => i = k
        /\ Head(queue) \notin Queued'
    BY <1>1, <1>2, <1>5, QueueDistinct DEF EarnInv, EarnFresh
  <2>. QED BY <1>1, <1>2, <1>3, <1>5, <2>1 DEF EarnInv, EarnFresh, Ok
<1>. QED BY <1>1, <1>3, <1>4, <1>5

LEMMA CrashEarns ==
  ASSUME EarnInv, Crash
  PROVE  EarnThread' /\ EarnShape' /\ EarnMarked' /\ (crashes' = 0 => EarnFresh')
<1>1. /\ worker'.at = "idle" /\ worker'.job = NoJob /\ worker'.todo = {} /\ worker'.retry = {}
      /\ thread'.at = "none"
      /\ UNCHANGED <<stocks, stop, result, invoked>> /\ crashes' # 0
  BY DEF Crash, Idle, NoThread, EarnInv, TypeOK
<1>2. PICK q \in [1 .. Cardinality(Restored) -> Restored] : queue' = q
  BY DEF Crash
<1>3. Queued' \subseteq Restored
  <2>1. Len(q) = Cardinality(Restored)
    BY RestoredFinite
  <2>. QED BY <1>2, <2>1 DEF Queued
<1>4. \A k \in Jobs : /\ status'[k] = "completed" => status[k] = "completed"
                      /\ status'[k] = "absent" => k \notin Restored
  BY DEF Crash
<1>5. EarnThread' /\ EarnShape'
  BY <1>1 DEF EarnThread, EarnShape, InBatch
<1>6. EarnMarked'
  BY <1>1, <1>3, <1>4, DownloadAssumption DEF EarnInv, EarnMarked, CompletedAccounts, Ok
<1>. QED BY <1>1, <1>5, <1>6

\* A batch that takes too long is left to its thread for a grace period.
LEMMA TimeoutEarns ==
  ASSUME EarnInv, BatchTimeout
  PROVE  EarnThread' /\ EarnShape' /\ EarnMarked' /\ (crashes' = 0 => EarnFresh')
<1>1. /\ UNCHANGED <<record, queue, thread, crashes, seen>> /\ worker.at = "batch"
      /\ worker'.at = "grace" /\ worker'.job = worker.job /\ worker'.todo = worker.todo
      /\ worker'.asked = worker.asked /\ worker'.batch = worker.batch
      /\ worker'.retry = worker.retry /\ worker'.attempt = worker.attempt
  BY DEF BatchTimeout, ghosts, EarnInv, TypeOK, Workers
<1>2. Pending' = Pending /\ InBatch /\ InBatch' /\ Queued' = Queued
  BY <1>1 DEF Pending, InBatch, Queued
<1>3. EarnThread' /\ EarnShape'
  BY <1>1, <1>2 DEF EarnInv, EarnThread, EarnShape, record
<1>4. EarnMarked'
  BY <1>1, <1>2 DEF EarnInv, EarnMarked, CompletedAccounts, Ok, record
<1>5. crashes' = 0 => EarnFresh'
  BY <1>1, <1>2 DEF EarnInv, EarnFresh, Ok, record
<1>. QED BY <1>3, <1>4, <1>5

LEMMA EarnInit == Init => EarnInv
<1>. SUFFICES ASSUME Init PROVE EarnInv
  OBVIOUS
<1>1. /\ worker.at = "idle" /\ worker.job = NoJob /\ worker.todo = {} /\ worker.retry = {}
      /\ thread.at = "none" /\ Queued = {} /\ queue = <<>>
      /\ \A j \in Jobs : Ok(j) = {} /\ status[j] = "absent"
  BY DEF Init, Idle, NoThread, Queued, Ok
<1>2. EarnThread /\ EarnShape
  BY <1>1 DEF EarnThread, EarnShape, InBatch
<1>3. EarnMarked
  BY <1>1, DownloadAssumption DEF EarnMarked, CompletedAccounts
<1>4. EarnFresh
  BY <1>1, DownloadAssumption DEF EarnFresh
<1>. QED BY <1>2, <1>3, <1>4, InitType DEF EarnInv

LEMMA EarnStep == EarnInv /\ [Next]_vars => EarnInv'
<1>. SUFFICES ASSUME EarnInv, [Next]_vars PROVE EarnInv'
  OBVIOUS
<1>1. TypeOK'
  BY StepType DEF EarnInv
<1>2. EarnThread' /\ EarnShape' /\ EarnMarked' /\ (crashes' = 0 => EarnFresh')
  <2>1. CASE UNCHANGED vars
    <3>1. UNCHANGED <<record, queue, worker, thread, crashes, seen>>
      BY <2>1 DEF vars, ghosts
    <3>2. Pending' = Pending /\ InBatch' = InBatch /\ Queued' = Queued /\ \A j \in Jobs : Ok(j)' = Ok(j)
      BY <3>1 DEF Pending, InBatch, Queued, Ok, record
    <3>3. EarnThread' /\ EarnShape'
      BY <3>1, <3>2 DEF EarnInv, EarnThread, EarnShape, record
    <3>4. EarnMarked'
      BY <3>1, <3>2 DEF EarnInv, EarnMarked, CompletedAccounts, record
    <3>5. crashes' = 0 => EarnFresh'
      BY <3>1, <3>2 DEF EarnInv, EarnFresh, record
    <3>. QED BY <3>3, <3>4, <3>5
  <2>2. CASE \E j \in Jobs : Submit(j) \/ Cancel(j)
    BY <2>2, HandlersEarn
  <2>3. CASE Pop
    BY <2>3, PopEarns
  <2>4. ASSUME NEW j \in Jobs, worker.job = j, WorkerActs(j)
        PROVE  EarnThread' /\ EarnShape' /\ EarnMarked' /\ (crashes' = 0 => EarnFresh')
    BY <2>4, BetweenEarns, FirstEarns, RetriedEarns, AgainEarns, SymbolEarns DEF WorkerActs
  <2>5. CASE BatchTimeout
    BY <2>5, TimeoutEarns
  <2>6. CASE ThreadStep
    BY <2>6, ThreadEarns DEF ThreadStep
  <2>7. CASE Crash
    BY <2>7, CrashEarns
  <2>. QED BY <2>1, <2>2, <2>3, <2>4, <2>5, <2>6, <2>7 DEF Next, WorkerStep, WorkerActs
<1>. QED BY <1>1, <1>2 DEF EarnInv

\* What a job reports of its symbols was earned, for any number of jobs, batches,
\* attempts, cancels, timeouts and crashes: a symbol is ok only when its native
\* call returned and, until the first crash, the job's last read of it found
\* rows, and a completed job that was not canceled has a result for each of its
\* symbols (download.py, _run_job, _run_batch and _retry_symbol).
THEOREM EveryResultIsEarned == Spec => []ResultsAreEarned
<1>1. EarnInv => ResultsAreEarned
  BY DEF EarnInv, EarnMarked, EarnFresh, ResultsAreEarned, OkIsEarned
<1>. QED BY <1>1, EarnInit, EarnStep, PTL DEF Spec

=============================================================================
