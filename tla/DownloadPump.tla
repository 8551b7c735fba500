---------------------------- MODULE DownloadPump ----------------------------
(***************************************************************************)
(* Download jobs as download_jobs.py runs them: a client writes a job's    *)
(* status key and pushes its id on a redis list; the strategy thread, once *)
(* per tick, takes the current job (or pops one), downloads a bounded slice *)
(* of its symbols one by one and writes the status back.  Every redis      *)
(* command is a step of its own: it may fail, and the strategy may be      *)
(* killed or reloaded between any two of them.                             *)
(*                                                                         *)
(* Abstracted: the digit-free encoding of stored values (reversible), the  *)
(* fields of a job that only describe it, and time, which appears as the   *)
(* slice's budget running out at any symbol after the first.               *)
(***************************************************************************)
EXTENDS Naturals, Sequences, FiniteSets

CONSTANTS MaxJobs,    \* download jobs clients submit
          Total,      \* symbols of a job
          Step,       \* symbols of one slice (chunk_size)
          MaxFaults   \* redis errors and lost keys the model allows

ASSUME PumpAssumption ==
  /\ MaxJobs \in Nat
  /\ Total \in Nat \ {0} /\ Step \in Nat \ {0} /\ MaxFaults \in Nat

Jobs  == 1..MaxJobs   \* job ids, numbered as they are submitted
NoJob == 0            \* no current job

VARIABLES
  status,    \* state field of each job's key; "none" when there is no key
  saved,     \* done field of each job's key
  queue,     \* job ids waiting in the redis list
  current,   \* the current-job pointer
  client,    \* where each submitting call stands
  pump,      \* the strategy thread inside pump_download_jobs
  calls,     \* how often each symbol of each job was downloaded
  faults     \* redis errors, lost keys and killed ticks so far

pumpVars == <<status, saved, queue, current, client, pump, calls, faults>>

Active == {"pending", "running"}
Ended  == {"done", "failed"}
NotPumping == [at |-> "out", job |-> NoJob, done |-> 0, n |-> 0, goal |-> "running"]

PumpInit ==
  /\ status = [j \in Jobs |-> "none"]
  /\ saved = [j \in Jobs |-> 0]
  /\ queue = <<>>
  /\ current = NoJob
  /\ client = [j \in Jobs |-> "new"]
  /\ pump = NotPumping
  /\ calls = [j \in Jobs |-> [i \in 1..Total |-> 0]]
  /\ faults = 0

-----------------------------------------------------------------------------
(* The submitting client.                                                  *)

\* submit_download_job: the status key first, then the id on the list.  The
\* pump only finds a job by its id, so the two commands are one step ...
Submit(j) ==
  /\ client[j] = "new" /\ \A i \in 1..(j-1) : client[i] # "new"
  /\ status' = [status EXCEPT ![j] = "pending"]
  /\ queue' = Append(queue, j)
  /\ client' = [client EXCEPT ![j] = "waiting"]
  /\ UNCHANGED <<saved, current, pump, calls, faults>>

\* ... unless the push raises: the caller has no job, its key stays.
SubmitFails(j) ==
  /\ client[j] = "new" /\ \A i \in 1..(j-1) : client[i] # "new"
  /\ faults < MaxFaults /\ faults' = faults + 1
  /\ status' = [status EXCEPT ![j] = "pending"]
  /\ client' = [client EXCEPT ![j] = "refused"]
  /\ UNCHANGED <<saved, queue, current, pump, calls>>

\* The TTL of a job key passes (or redis loses it).
JobKeyExpires(j) ==
  /\ status[j] # "none" /\ faults < MaxFaults
  /\ faults' = faults + 1
  /\ status' = [status EXCEPT ![j] = "none"]
  /\ UNCHANGED <<saved, queue, current, client, pump, calls>>

-----------------------------------------------------------------------------
(* The strategy thread in pump_download_jobs.                              *)

Leaves == pump' = NotPumping

Hold(j) == [at |-> "slice", job |-> j, done |-> saved[j], n |-> 0, goal |-> "running"]

\* _acquire_current_job: an active current job is continued; a pointer to
\* anything else is dropped.
LookAtCurrent ==
  /\ pump.at = "out"
  /\ IF current # NoJob /\ status[current] \in Active
     THEN pump' = Hold(current) /\ UNCHANGED current
     ELSE pump' = [pump EXCEPT !.at = "pop"] /\ current' = NoJob
  /\ UNCHANGED <<status, saved, queue, client, calls, faults>>

\* Mutant: an id that is not active any more ends the search and stays queued.
StopAtDeadId ==
  /\ pump.at = "pop"
  /\ IF queue # <<>> /\ status[Head(queue)] \in Active
     THEN /\ queue' = Tail(queue)
          /\ pump' = [pump EXCEPT !.at = "popped", !.job = Head(queue)]
     ELSE Leaves /\ UNCHANGED queue
  /\ UNCHANGED <<status, saved, current, client, calls, faults>>

\* LPOP until an active job comes out; unknown and ended ids are skipped.
PopJob ==
  /\ pump.at = "pop"
  /\ IF queue = <<>>
     THEN Leaves /\ UNCHANGED queue
     ELSE /\ queue' = Tail(queue)
          /\ pump' = IF status[Head(queue)] \in Active
                     THEN [pump EXCEPT !.at = "popped", !.job = Head(queue)]
                     ELSE pump
  /\ UNCHANGED <<status, saved, current, client, calls, faults>>

\* Mutant: the popped job is sliced without becoming the current one.
SliceUnpointed ==
  /\ pump.at = "popped"
  /\ pump' = Hold(pump.job)
  /\ UNCHANGED <<status, saved, queue, current, client, calls, faults>>

\* Only now does the pointer name the popped job.
PointAtJob ==
  /\ pump.at = "popped"
  /\ current' = pump.job
  /\ pump' = Hold(pump.job)
  /\ UNCHANGED <<status, saved, queue, client, calls, faults>>

\* _download_chunk: one symbol, downloaded.
DownloadSymbol ==
  /\ pump.at = "slice" /\ pump.done < Total /\ pump.n < Step
  /\ calls' = [calls EXCEPT ![pump.job][pump.done + 1] = @ + 1]
  /\ pump' = [pump EXCEPT !.done = @ + 1, !.n = @ + 1]
  /\ UNCHANGED <<status, saved, queue, current, client, faults>>

\* The native call raises: the job fails.
SymbolFails ==
  /\ pump.at = "slice" /\ pump.done < Total /\ pump.n < Step
  /\ pump' = [pump EXCEPT !.at = "write", !.goal = "failed"]
  /\ UNCHANGED <<status, saved, queue, current, client, calls, faults>>

\* The slice ends: no symbol left, the slice is full, or the wall-clock budget
\* is spent (never before the first symbol).
SliceEnds ==
  /\ pump.at = "slice" /\ (pump.n > 0 \/ pump.done >= Total)
  /\ pump' = [pump EXCEPT !.at = "write",
                          !.goal = IF pump.done >= Total THEN "done" ELSE "running"]
  /\ UNCHANGED <<status, saved, queue, current, client, calls, faults>>

\* _write_job: state and progress in one SETEX.
WriteStatus ==
  /\ pump.at = "write"
  /\ status' = [status EXCEPT ![pump.job] = pump.goal]
  /\ saved' = [saved EXCEPT ![pump.job] = pump.done]
  /\ IF pump.goal \in Ended THEN pump' = [pump EXCEPT !.at = "clear"] ELSE Leaves
  /\ UNCHANGED <<queue, current, client, calls, faults>>

ClearPointer ==
  /\ pump.at = "clear"
  /\ current' = NoJob
  /\ Leaves
  /\ UNCHANGED <<status, saved, queue, client, calls, faults>>

\* A redis command raises out of the pump, or the strategy is killed: what the
\* thread held in memory is gone.
PumpAborted ==
  /\ faults < MaxFaults
  /\ faults' = faults + 1
  /\ Leaves
  /\ UNCHANGED <<status, saved, queue, current, client, calls>>

PumpStep ==
  \/ PopJob \/ PointAtJob \/ DownloadSymbol \/ SymbolFails
  \/ SliceEnds \/ WriteStatus \/ ClearPointer
  \/ pump.at # "out" /\ PumpAborted

ClientStep ==
  \E j \in Jobs : Submit(j) \/ SubmitFails(j) \/ JobKeyExpires(j)

-----------------------------------------------------------------------------
PumpTypeOK ==
  /\ status \in [Jobs -> {"none"} \cup Active \cup Ended]
  /\ saved \in [Jobs -> 0..Total]
  /\ queue \in Seq(Jobs)
  /\ current \in Jobs \cup {NoJob}
  /\ client \in [Jobs -> {"new", "refused", "waiting"}]
  /\ pump \in [at : {"out", "pop", "popped", "slice", "write", "clear"},
               job : Jobs \cup {NoJob}, done : 0..Total, n : 0..Step,
               goal : {"running"} \cup Ended]
  /\ calls \in [Jobs -> [1..Total -> Nat]]
  /\ faults \in 0..MaxFaults

\* Whoever will still work on a job.
InReach(j) ==
  \/ \E i \in DOMAIN queue : queue[i] = j
  \/ current = j
  \/ pump.at # "out" /\ pump.job = j

Orphans == {j \in Jobs : client[j] = "waiting" /\ status[j] \in Active /\ ~InReach(j)}

(* A submitted job stays in somebody's hands until it ends: a fault loses  *)
(* at most the one job it hits (the id popped and not yet pointed at), and *)
(* without a fault none is ever lost.                                      *)
JobsAccounted == Cardinality(Orphans) <= faults

(* A job that is reported done had every one of its symbols downloaded,    *)
(* whatever slices, retries and restarts it went through, and no symbol is *)
(* downloaded again more often than faults interrupted its slice.          *)
DoneIsDownloaded ==
  \A j \in Jobs :
    /\ \A i \in 1..Total : calls[j][i] <= 1 + faults
    /\ status[j] = "done" => \A i \in 1..Total : calls[j][i] >= 1

\* Slices account for every job: one is lost only by a fault, and one that is
\* done was downloaded stock by stock (download_jobs.py, process).
PumpAccounts == JobsAccounted /\ DoneIsDownloaded

=============================================================================
