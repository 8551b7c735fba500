--------------------------- MODULE SectorDownload ---------------------------
(***************************************************************************)
(* POST /api/download/sector_data (routers/download.py): each request      *)
(* checks the record of the download under way, starts a thread that runs  *)
(* a child process on the serialized native lane (helpers.py), and waits   *)
(* for it up to a limit.  The record is checked in one locked section and  *)
(* written in a later one, with a native call in between.                  *)
(*                                                                         *)
(* Time is abstract: the guard of a request includes what it spent before  *)
(* its thread started, so it may expire while the thread still waits for   *)
(* the lane, runs the child or has ended.  Sector counts, progress and the *)
(* wording of the answers are left out.                                    *)
(***************************************************************************)
EXTENDS Naturals, FiniteSets

CONSTANT Downloads   \* requests of a behaviour

VARIABLES
  asker,    \* where each request is, or what it answered
  thread,   \* its download thread
  outcome,  \* what its thread put into result_queue
  record,   \* _sector_download_active: [thread, running]
  lane,     \* holder of the native lane: a download's child, another call
  stuck,    \* _stuck_reason of the lane
  raced     \* a request overwrote the record of a running download

sectorVars == <<asker, thread, outcome, record, lane, stuck, raced>>

Nobody == "nobody"
Other  == "other"

ASSUME SectorAssumption == Nobody \notin Downloads /\ Other \notin Downloads

NoRecord == [thread |-> Nobody, running |-> FALSE]

SectorInit ==
  /\ asker = [d \in Downloads |-> "new"]
  /\ thread = [d \in Downloads |-> "none"]
  /\ outcome = [d \in Downloads |-> "empty"]
  /\ record = NoRecord
  /\ lane = Nobody /\ stuck = FALSE /\ raced = FALSE

\* Thread.is_alive of a thread that was started.
Alive(d) == thread[d] \in {"queued", "child", "ending"}

-----------------------------------------------------------------------------
(* The request.                                                            *)

\* The first locked section: a running or live download answers busy, a
\* record of a dead thread is dropped.
CheckBusy(d) ==
  /\ asker[d] = "new"
  /\ LET t == record.thread
         busy == record.running \/ (t # Nobody /\ Alive(t))
     IN /\ asker' = [asker EXCEPT ![d] = IF busy THEN "busy" ELSE "counting"]
        /\ record' = IF busy THEN record ELSE NoRecord
  /\ UNCHANGED <<thread, outcome, lane, stuck, raced>>

\* _safe_sector_count, on the lane or given up; then the second locked section.
Record(d) ==
  /\ asker[d] = "counting"
  /\ raced' = (raced \/ record.running)
  /\ record' = [thread |-> d, running |-> TRUE]
  /\ asker' = [asker EXCEPT ![d] = "starting"]
  /\ UNCHANGED <<thread, outcome, lane, stuck>>

StartThread(d) ==
  /\ asker[d] = "starting"
  /\ asker' = [asker EXCEPT ![d] = "waiting"]
  /\ thread' = [thread EXCEPT ![d] = "queued"]
  /\ UNCHANGED <<outcome, record, lane, stuck, raced>>

Guard(d) ==
  /\ asker[d] = "waiting" /\ Alive(d)
  /\ asker' = [asker EXCEPT ![d] = "joining"]
  /\ UNCHANGED <<thread, outcome, record, lane, stuck, raced>>

\* Clears the record if it is still this request's.
Cleared(d) == IF record.thread = d THEN NoRecord ELSE record

\* Mutant: a request that gives up forgets its thread.
GiveUpForgets(d) ==
  /\ asker[d] = "joining"
  /\ asker' = [asker EXCEPT ![d] = "timeout"]
  /\ stuck' = (stuck \/ Alive(d))
  /\ record' = Cleared(d)
  /\ UNCHANGED <<thread, outcome, lane, raced>>

\* The join grace is over: a live thread closes the lane for good.
GiveUpDownload(d) ==
  /\ asker[d] = "joining"
  /\ asker' = [asker EXCEPT ![d] = "timeout"]
  /\ stuck' = (stuck \/ Alive(d))
  /\ record' = IF Alive(d) THEN record ELSE Cleared(d)
  /\ UNCHANGED <<thread, outcome, lane, raced>>

\* The thread has ended: its result, the second count, the locked clean-up.
FinishDownload(d) ==
  /\ asker[d] = "waiting" /\ ~Alive(d)
  /\ asker' = [asker EXCEPT ![d] = IF outcome[d] = "empty" THEN "ok" ELSE outcome[d]]
  /\ record' = Cleared(d)
  /\ UNCHANGED <<thread, outcome, lane, stuck, raced>>

-----------------------------------------------------------------------------
(* The download thread and the other users of the lane.                    *)

\* _call_observed takes the lane within the native budget.
EnterLane(d) ==
  /\ thread[d] = "queued" /\ lane = Nobody /\ ~stuck
  /\ lane' = d
  /\ thread' = [thread EXCEPT ![d] = "child"]
  /\ UNCHANGED <<asker, outcome, record, stuck, raced>>

\* The budget expired, or the lane was closed.
LaneRefused(d) ==
  /\ thread[d] = "queued"
  /\ thread' = [thread EXCEPT ![d] = "ending"]
  /\ outcome' = [outcome EXCEPT ![d] = "error"]
  /\ UNCHANGED <<asker, record, lane, stuck, raced>>

\* subprocess.run: the child fails, or is killed at its timeout.  It cannot
\* succeed: it imports a package relative to the -c script.
ChildEnds(d) ==
  /\ thread[d] = "child"
  /\ thread' = [thread EXCEPT ![d] = "ending"]
  /\ outcome' \in {[outcome EXCEPT ![d] = o] : o \in {"error", "timeout"}}
  /\ lane' = IF lane = d THEN Nobody ELSE lane
  /\ UNCHANGED <<asker, record, stuck, raced>>

\* The finally clause of the thread.
ThreadEnds(d) ==
  /\ thread[d] = "ending"
  /\ thread' = [thread EXCEPT ![d] = "dead"]
  /\ record' = IF record.thread = d THEN [record EXCEPT !.running = FALSE] ELSE record
  /\ UNCHANGED <<asker, outcome, lane, stuck, raced>>

OtherCall ==
  /\ \/ lane = Nobody /\ ~stuck /\ lane' = Other
     \/ lane = Other /\ lane' = Nobody
  /\ UNCHANGED <<asker, thread, outcome, record, stuck, raced>>

SectorNext ==
  \/ OtherCall
  \/ \E d \in Downloads :
       \/ CheckBusy(d) \/ Record(d) \/ StartThread(d)
       \/ Guard(d) \/ GiveUpDownload(d) \/ FinishDownload(d)
       \/ EnterLane(d) \/ LaneRefused(d) \/ ChildEnds(d) \/ ThreadEnds(d)

-----------------------------------------------------------------------------
\* Two requests may pass the busy check together and start two threads, but
\* the lane never lets two children run at once, nor a child beside another
\* native call.
OneChild ==
  \A d \in Downloads : thread[d] = "child" => lane = d

\* The record says running only of a download that has not ended; and unless
\* two busy checks raced, it is the record of every download under way, so no
\* second one starts.
RecordMatchesThreads ==
  /\ record.running => thread[record.thread] # "dead"
  /\ raced \/ \A d \in Downloads :
                Alive(d) => record.thread = d /\ (thread[d] # "ending" => record.running)

\* One sector download at a time, as the record the busy check reads says.
OneDownload == OneChild /\ RecordMatchesThreads

=============================================================================
