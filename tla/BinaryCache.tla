---------------------------- MODULE BinaryCache ----------------------------
(***************************************************************************)
(* binary_cache.py: a directory of pickled answers with a TTL and a size   *)
(* budget, and cached_call, which lets one caller load a missing answer    *)
(* while the others wait for its Future.  Callers are threads of the HTTP  *)
(* server; only the table of flights is under a lock.                      *)
(*                                                                         *)
(* Abstracted: a file is its answer and whether a reader still accepts it; *)
(* which files the size budget drops is left open.                         *)
(***************************************************************************)
EXTENDS Naturals, FiniteSets

CONSTANTS Callers,   \* threads that serve history requests
          Windows,   \* cache keys
          MaxAsks    \* requests a behaviour may make

None == "none"

ASSUME AskAssumption == MaxAsks \in Nat /\ None \notin Callers \cup Windows

VARIABLES
  file,    \* the file of each key: [state, data]; state "none", "fresh" or "bad"
  flight,  \* _inflight: the caller whose Future is under the key, or None
  caller,  \* each caller: [at, key, waits]: where it is, and whose flight it waits on
  future,  \* the Future each caller owns: [state, data]
  asks     \* requests made

cacheVars == <<file, flight, caller, future, asks>>

NoFile == [state |-> "none", data |-> {}]
Open   == [state |-> "open", data |-> {}]
Idle   == [at |-> "idle", key |-> None, waits |-> None]

CacheInit ==
  /\ file = [k \in Windows |-> NoFile]
  /\ flight = [k \in Windows |-> None]
  /\ caller = [c \in Callers |-> Idle]
  /\ future = [c \in Callers |-> Open]
  /\ asks = 0

At(c, stage) == caller[c].at = stage
Key(c) == caller[c].key
Go(c, stage) == caller' = [caller EXCEPT ![c].at = stage]

\* A request ends with an answer: the caller's own, or that of its flight.
Answered(c) == caller' = [caller EXCEPT ![c] = Idle]

\* get: a good file is the answer; an expired or unreadable one is to be
\* deleted; a missing one is loaded.
Get(c, k) ==
  /\ At(c, "idle") /\ asks < MaxAsks
  /\ asks' = asks + 1
  /\ \/ file[k].state = "fresh" /\ UNCHANGED caller
     \/ /\ file[k].state # "fresh"
        /\ caller' = [caller EXCEPT ![c].at = IF file[k].state = "bad" THEN "unlink" ELSE "join",
                                    ![c].key = k]
  /\ UNCHANGED <<file, flight, future>>

\* _delete_best_effort: by path, so a file stored since the read goes too.
Unlink(c) ==
  /\ At(c, "unlink")
  /\ file' = [file EXCEPT ![Key(c)] = NoFile]
  /\ Go(c, "join")
  /\ UNCHANGED <<flight, future, asks>>

\* Mutant: every caller loads for itself.
JoinAlone(c) ==
  /\ At(c, "join")
  /\ flight' = [flight EXCEPT ![Key(c)] = c]
  /\ future' = [future EXCEPT ![c] = Open]
  /\ Go(c, "load")
  /\ UNCHANGED <<file, asks>>

\* Under the lock: own a new flight, or wait for the one that is there; one
\* that has its result already gives it at once.
Join(c) ==
  /\ At(c, "join")
  /\ \/ /\ flight[Key(c)] = None
        /\ flight' = [flight EXCEPT ![Key(c)] = c]
        /\ future' = [future EXCEPT ![c] = Open]
        /\ Go(c, "load")
     \/ /\ flight[Key(c)] # None
        /\ IF future[flight[Key(c)]].state = "open"
           THEN caller' = [caller EXCEPT ![c].at = "wait", ![c].waits = flight[Key(c)]]
           ELSE Answered(c)
        /\ UNCHANGED <<flight, future>>
  /\ UNCHANGED <<file, asks>>

WaitTimesOut(c) ==
  /\ At(c, "wait")
  /\ Answered(c)
  /\ UNCHANGED <<file, flight, future, asks>>

Waiters(c) == {w \in Callers : At(w, "wait") /\ caller[w].waits = c}

\* set_result and set_exception: every waiter has its answer.
Resolve(c, f) ==
  /\ future' = [future EXCEPT ![c] = f]
  /\ caller' = [w \in Callers |->
                  CASE w \in Waiters(c) -> Idle
                    [] w = c -> [caller[c] EXCEPT !.at = "land"]
                    [] OTHER -> caller[w]]

\* set: the temporary file replaces the file of the key...
Store(c, data) ==
  /\ file' = [file EXCEPT ![Key(c)] = [state |-> "fresh", data |-> data]]
  /\ Go(c, "size")
  /\ UNCHANGED <<flight, future, asks>>

\* ...and is then measured: it may be gone by now, which raises.  The size
\* budget drops files, this one too when it alone exceeds the budget.
Measure(c, data) ==
  /\ At(c, "size")
  /\ \/ /\ file[Key(c)].state = "none"
        /\ Resolve(c, [state |-> "error", data |-> {}])
        /\ UNCHANGED file
     \/ /\ file[Key(c)].state # "none"
        /\ \E dropped \in SUBSET Windows :
             file' = [k \in Windows |-> IF k \in dropped THEN NoFile ELSE file[k]]
        /\ Resolve(c, [state |-> "value", data |-> data])
  /\ UNCHANGED <<flight, asks>>

\* Mutant: the flight stays in the table.
LandKept(c) ==
  /\ At(c, "land")
  /\ future' = [future EXCEPT ![c] = Open]
  /\ Answered(c)
  /\ UNCHANGED <<file, flight, asks>>

\* The finally: the flight leaves the table if it is still this one.
Land(c) ==
  /\ At(c, "land")
  /\ flight' = [flight EXCEPT ![Key(c)] = IF @ = c THEN None ELSE @]
  /\ future' = [future EXCEPT ![c] = Open]
  /\ Answered(c)
  /\ UNCHANGED <<file, asks>>

\* The TTL of a stored answer ends, or its file is damaged.
Spoil(k) ==
  /\ file[k].state = "fresh"
  /\ file' = [file EXCEPT ![k].state = "bad"]
  /\ UNCHANGED <<flight, caller, future, asks>>

CallerStep(c) ==
  \/ \E k \in Windows : Get(c, k)
  \/ Unlink(c) \/ Join(c) \/ WaitTimesOut(c) \/ Land(c)

=============================================================================
