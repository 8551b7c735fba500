---------------------------- MODULE HistoryReads ----------------------------
(***************************************************************************)
(* A history request of the HTTP server, end to end: the binary cache, the *)
(* serialized native lane of helpers.py, the FormulaServer fast path with  *)
(* its fallback to RPC (rpc_client.py), and the per-code local cache that  *)
(* every fetched bar is written through to (data_client.py).               *)
(*                                                                         *)
(* A window is read in halves: a frame is the half of the codes it holds,  *)
(* the window it was read for and the revision of the data it shows.       *)
(***************************************************************************)
EXTENDS FormulaServer, BinaryCache, HistorySource

ASSUME WindowAssumption == Keys = Windows

VARIABLES
  turn,   \* the caller inside the native lane, or None
  read,   \* the read each caller waits on (Nobody: it did not begin one)
  fetched,\* what each caller's load has brought: [state, data]
  local,  \* LocalMarketCache: revision of the last bars of each window half
  part    \* what a behaviour explores: "load", the concurrency of loads, or
          \* "source", what one answer is made of

readVars == <<turn, read, fetched, local>>
vars == <<formulaVars, cacheVars, readVars, sourceVars, part>>

Init ==
  /\ FormulaInit /\ CacheInit /\ SourceInit
  /\ part \in {"load", "source"}
  /\ turn = None
  /\ read = [c \in Callers |-> Nobody]
  /\ fetched = [c \in Callers |-> Open]
  /\ local = [k \in Windows |-> [i \in Sides |-> 0]]

HalvesOf(k) == IF k \in SplitKeys THEN Sides ELSE {1}

\* The load ends without data, and the caller leaves the lane.
LoadFails(c) ==
  /\ Resolve(c, [state |-> "error", data |-> {}])
  /\ turn' = None
  /\ read' = [read EXCEPT ![c] = Nobody]
  /\ UNCHANGED <<file, flight, asks, fetched, local>>

\* _call_observed: one call at a time.  The terminal's data may have changed
\* since the load before, as when a dividend rescales adjusted history.
EnterLane(c) ==
  /\ At(c, "load") /\ turn = None
  /\ turn' = c /\ Go(c, "route")
  /\ rev' = rev + 1
  /\ UNCHANGED <<file, flight, future, asks, read, fetched, local>>
  /\ UNCHANGED <<reads, lane, late, holder, sock, unavailable, unimplemented, faults>>

LaneWaitEnds(c) ==
  /\ At(c, "load") /\ turn # None
  /\ Resolve(c, [state |-> "error", data |-> {}])
  /\ UNCHANGED <<file, flight, asks, readVars, formulaVars>>

\* _call_with_telemetry: a supported method goes to the FormulaServer first.
Route(c) ==
  /\ At(c, "route")
  /\ \/ /\ Supports /\ Begin(Key(c))
        /\ read' = [read EXCEPT ![c] = Len(reads) + 1]
        /\ Go(c, "lanes")
     \/ /\ ~Supports /\ Go(c, "rpc")
        /\ UNCHANGED <<read, formulaVars>>
  /\ UNCHANGED <<file, flight, future, asks, turn, fetched, local>>

Collect(c) ==
  /\ At(c, "lanes") /\ Whole(read[c])
  /\ fetched' = [fetched EXCEPT ![c] = [state |-> "value", data |-> Frames(read[c])]]
  /\ lane' = [lane EXCEPT ![read[c]] = [i \in Sides |-> NoLane]]
  /\ Go(c, "write")
  /\ UNCHANGED <<file, flight, future, asks, turn, read, local>>
  /\ UNCHANGED <<reads, late, holder, sock, unavailable, unimplemented, rev, faults>>

\* Unroutable: a half failed, the wait for the halves ended, or a whole answer
\* could not be adapted, which is nobody's fault.
FallBack(c) ==
  /\ At(c, "lanes")
  /\ \/ Decline(read[c]) \/ GiveUp(read[c])
     \/ /\ Whole(read[c]) /\ Fault(FALSE)
        /\ lane' = [lane EXCEPT ![read[c]] = [i \in Sides |-> NoLane]]
        /\ UNCHANGED <<reads, late, holder, sock, unavailable, unimplemented, rev>>
  /\ Go(c, "rpc")
  /\ UNCHANGED <<file, flight, future, asks, readVars>>

\* The RPC gets what is left of the budget, and fails at once when that is
\* nothing.
RpcAnswers(c) ==
  /\ At(c, "rpc") /\ read[c] \notin late
  /\ fetched' = [fetched EXCEPT ![c] = [state |-> "value",
        data |-> {[key |-> Key(c), side |-> i, rev |-> rev] : i \in HalvesOf(Key(c))}]]
  /\ Go(c, "write")
  /\ UNCHANGED <<file, flight, future, asks, turn, read, local, formulaVars>>

RpcFails(c) ==
  /\ At(c, "rpc") /\ LoadFails(c)
  /\ Fault(read[c] \in late)
  /\ UNCHANGED <<reads, lane, late, holder, sock, unavailable, unimplemented, rev>>

\* LocalMarketCache.write: the bars written last win.
Written(old, frames) ==
  [i \in Sides |-> IF \E g \in frames : g.side = i
                  THEN (CHOOSE g \in frames : g.side = i).rev ELSE old[i]]

\* get_market_data_ex writes what it fetched to the local cache, code by code;
\* a write that raises is passed over.  The caller then leaves the lane.
WriteThrough(c) ==
  /\ At(c, "write")
  /\ \E frames \in SUBSET fetched[c].data :
       /\ Fault(frames = fetched[c].data)
       /\ local' = [local EXCEPT ![Key(c)] = Written(@, frames)]
  /\ turn' = None /\ Go(c, "store")
  /\ read' = [read EXCEPT ![c] = Nobody]
  /\ UNCHANGED <<file, flight, future, asks, fetched>>
  /\ UNCHANGED <<reads, lane, late, holder, sock, unavailable, unimplemented, rev>>

\* should_store: only an answer that covers the whole window is kept; a file
\* that cannot be written is an error of the request, whose data is there.
KeepAnswer(c) ==
  /\ At(c, "store")
  /\ \/ Store(c, fetched[c].data) /\ UNCHANGED <<fetched, faults>>
     \/ /\ \/ Resolve(c, fetched[c]) /\ UNCHANGED faults
           \/ Resolve(c, [state |-> "error", data |-> {}]) /\ Fault(FALSE)
        /\ fetched' = [fetched EXCEPT ![c] = Open]
        /\ UNCHANGED <<file, flight, asks>>
  /\ UNCHANGED <<turn, read, local, reads, lane, late, holder, sock, unavailable, unimplemented, rev>>

LoadStep(c) ==
  \/ EnterLane(c) \/ LaneWaitEnds(c) \/ Route(c) \/ Collect(c) \/ FallBack(c)
  \/ RpcAnswers(c) \/ RpcFails(c) \/ WriteThrough(c) \/ KeepAnswer(c)

CacheStep(c) ==
  /\ \/ CallerStep(c) /\ UNCHANGED fetched
     \/ Measure(c, fetched[c].data) /\ fetched' = [fetched EXCEPT ![c] = Open]
  /\ UNCHANGED <<turn, read, local, formulaVars>>

LoadNext ==
  \/ \E c \in Callers : LoadStep(c)
  \/ \E c \in Callers : CacheStep(c)
  \/ \E k \in Windows : Spoil(k) /\ UNCHANGED <<readVars, formulaVars>>
  \/ FormulaNext /\ UNCHANGED <<cacheVars, readVars>>

Next ==
  /\ \/ part = "load" /\ LoadNext /\ UNCHANGED sourceVars
     \/ part = "source" /\ SourceNext /\ UNCHANGED <<formulaVars, cacheVars, readVars>>
  /\ UNCHANGED part

Spec == Init /\ [][Next]_vars

-----------------------------------------------------------------------------
(* Properties.                                                             *)

\* Every answer a caller is given, every stored file and every finished load is
\* a whole answer to one window: one frame for each half of its codes, read for
\* that window.  An answer left on a reused socket must be told from the
\* request's own, a failed half must not leave a partial answer, and a waiter
\* must be given the flight of its own key.
IsWhole(k, answer) ==
  answer.state \notin {"none", "open", "error"} =>
    /\ {<<g.key, g.side>> : g \in answer.data} = {k} \X HalvesOf(k)
    /\ Cardinality(answer.data) = Cardinality(HalvesOf(k))

AnswersAreWhole ==
  /\ \A k \in Windows : IsWhole(k, file[k])
  /\ \A c \in Callers : /\ IsWhole(Key(c), future[c])
                        /\ caller[c].at \in {"write", "store", "size"} => IsWhole(Key(c), fetched[c])

\* At most one caller loads a window; it is the one in the table, and every
\* caller waiting for that window waits on a load that is still to be resolved:
\* a request that joins, fails or times out leaves no waiter behind.
Loading(c) == caller[c].at \in {"load", "route", "lanes", "rpc", "write", "store", "size"}

OneLoad ==
  /\ \A c \in Callers : Loading(c) \/ At(c, "land") => flight[Key(c)] = c
  /\ \A k \in Windows : flight[k] # None =>
       Key(flight[k]) = k /\ (Loading(flight[k]) \/ At(flight[k], "land"))
  /\ \A w \in Callers : At(w, "wait") =>
       caller[w].waits = flight[Key(w)] /\ future[caller[w].waits].state = "open"

\* Data never goes back: neither a stored file nor the local cache is
\* overwritten by an answer that was read earlier than what it holds, whatever
\* half, fallback or process of the read it came from.
Later(old, new) ==
  old.state # "none" /\ new.state # "none" =>
    \A g \in old.data, h \in new.data : g.side = h.side => g.rev <= h.rev

DataNeverGoesBack ==
  [][/\ \A k \in Windows : Later(file[k], file'[k])
     /\ \A k \in Windows, i \in Sides : local[k][i] <= local'[k][i]]_vars

\* A half whose caller has left it never reaches the server afresh: what still
\* waits for a worker or for the socket belongs to a caller that waits for it,
\* or is past its deadline and will only end.
NoStrayHalf ==
  \A n \in 1..Len(reads), i \in Sides :
    lane[n][i].at = "queued" =>
      n \in late \/ \E c \in Callers : At(c, "lanes") /\ read[c] = n

\* Whatever is under way is wanted: one load for each key, its waiters behind
\* it, and no lane half queued for a read that was given up (binary cache and
\* formula_server.py).
InFlightIsWanted == OneLoad /\ NoStrayHalf

=============================================================================
