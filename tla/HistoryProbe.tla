---------------------------- MODULE HistoryProbe ----------------------------
(***************************************************************************)
(* GET /api/meta/history-readiness: a probe of a three-minute window       *)
(* (server/history_readiness.py, routers/meta.py).  What is reported over  *)
(* time (last success, consecutive failures) is about one window, and      *)
(* concurrent probes may end in any order; a fence of window, generation   *)
(* and request number tells which results may still be recorded.           *)
(*                                                                         *)
(* A result is its class: complete or gap (the RPC answered), broken (no   *)
(* answer) or config (the request or the runtime is at fault).             *)
(***************************************************************************)
EXTENDS Naturals, Sequences

CONSTANTS Windows,    \* (stock, start, end)
          Readers,    \* threads serving the endpoint
          MaxProbes   \* probes of a behaviour

VARIABLES
  state,    \* ProbeState: [key, generation, request, success, failures]
  fence,    \* each reader's fence, NoFence while it is idle
  verdict,  \* the result of its probe, or none
  blocked,  \* the native lane is closed for good
  recorded, \* results that were applied: [key, generation, request, result]
  began     \* for each generation, the request that began it

probeVars == <<state, fence, verdict, blocked, recorded, began>>

NoWindow == "no window"

ASSUME ProbeAssumption == NoWindow \notin Windows

NoFence == [key |-> NoWindow, generation |-> 0, request |-> 0]
Results == {"complete", "gap", "broken", "config"}

ProbeInit ==
  /\ state = [key |-> NoWindow, generation |-> 0, request |-> 0,
              success |-> FALSE, failures |-> 0]
  /\ fence = [r \in Readers |-> NoFence]
  /\ verdict = [r \in Readers |-> "none"]
  /\ blocked = FALSE
  /\ recorded = <<>> /\ began = <<>>

\* ProbeState.begin: another window starts from nothing.
Begin(r, k) ==
  /\ fence[r] = NoFence /\ state.request < MaxProbes
  /\ LET same == state.key = k
         next == [key |-> k,
                  generation |-> IF same THEN state.generation ELSE state.generation + 1,
                  request |-> state.request + 1,
                  success |-> same /\ state.success,
                  failures |-> IF same THEN state.failures ELSE 0]
     IN /\ state' = next
        /\ fence' = [fence EXCEPT ![r] = [key |-> k, generation |-> next.generation,
                                          request |-> next.request]]
        /\ began' = IF same THEN began ELSE Append(began, next.request)
  /\ UNCHANGED <<verdict, blocked, recorded>>

\* probe and its two looks at the lane: a closed lane is a connection error
\* whatever the RPC said.  An invalid request, too, has begun and is updated.
Ask(r) ==
  /\ fence[r] # NoFence /\ verdict[r] = "none"
  /\ verdict' \in {[verdict EXCEPT ![r] = v] :
                     v \in IF blocked THEN {"broken", "config"} ELSE Results}
  /\ UNCHANGED <<state, fence, blocked, recorded, began>>

LaneCloses ==
  /\ ~blocked /\ blocked' = TRUE
  /\ UNCHANGED <<state, fence, verdict, recorded, began>>

\* Mutant: a result counts if it is about the window that is reported now.
NewestOfWindow(f) == state.key = f.key

Newest(f) ==
  /\ state.key = f.key
  /\ state.generation = f.generation
  /\ state.request = f.request

Failures(v, n) == IF v = "broken" THEN n + 1 ELSE 0

\* ProbeState.update.
Update(r) ==
  /\ verdict[r] # "none"
  /\ LET f == fence[r] v == verdict[r]
     IN IF Newest(f)
        THEN /\ state' = [state EXCEPT !.failures = Failures(v, state.failures),
                                       !.success = state.success \/ v = "complete"]
             /\ recorded' = Append(recorded, [key |-> f.key, generation |-> f.generation,
                                              request |-> f.request, result |-> v])
        ELSE UNCHANGED <<state, recorded>>
  /\ fence' = [fence EXCEPT ![r] = NoFence]
  /\ verdict' = [verdict EXCEPT ![r] = "none"]
  /\ UNCHANGED <<blocked, began>>

ProbeNext ==
  \/ LaneCloses
  \/ \E r \in Readers : Ask(r) \/ Update(r) \/ \E k \in Windows : Begin(r, k)

-----------------------------------------------------------------------------
\* Of the results, those recorded since the window was asked for; and whether
\* the last n of a list of results are of one generation and broken.
Recent == {i \in 1..Len(recorded) : recorded[i].generation = state.generation}

BrokenRun(results, generation, n) ==
  /\ n <= Len(results)
  /\ \A i \in Len(results) - n + 1 .. Len(results) :
       results[i].generation = generation /\ results[i].result = "broken"

\* What is reported is about the window asked for last, since it was asked for:
\* a success was found by a probe begun since then, consecutive failures is the
\* run of broken probes at the end of the results recorded since then, and
\* results are recorded in the order in which their probes began.
ReportIsOfWindow ==
  /\ \A i \in Recent :
       recorded[i].key = state.key /\ recorded[i].request >= began[state.generation]
  /\ \A i, j \in 1..Len(recorded) : i < j => recorded[i].request < recorded[j].request
  /\ state.success <=> \E i \in Recent : recorded[i].result = "complete"
  /\ BrokenRun(recorded, state.generation, state.failures)
  /\ ~BrokenRun(recorded, state.generation, state.failures + 1)

=============================================================================
