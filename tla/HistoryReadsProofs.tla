------------------------- MODULE HistoryReadsProofs -------------------------
(***************************************************************************)
(* History reads, for any number of callers, windows, reads and faults:    *)
(* every answer is whole and of its own window, one caller loads a window  *)
(* and leaves nothing behind, and data never goes back (binary_cache.py,   *)
(* formula_server.py, helpers.py, local_cache.py); a claimed window has    *)
(* both its ends, and a counted read of a DAT file is exact (market.py,    *)
(* qmt_local_dat.py).                                                      *)
(***************************************************************************)
EXTENDS HistoryReads, FiniteSetTheorems, SequenceTheorems, WellFoundedInduction, TLAPS

FrameSet == [key : Windows \cup {None}, side : 0..2, rev : Nat]

Inside == {"route", "lanes", "rpc", "write"}
LoadStages == {"load", "store", "size"} \cup Inside
Stages == {"idle", "unlink", "join", "wait", "land"} \cup LoadStages

CallerTypes ==
  /\ flight \in [Windows -> Callers \cup {None}]
  /\ caller \in [Callers -> [at : Stages, key : Windows \cup {None}, waits : Callers \cup {None}]]
  /\ future \in [Callers -> [state : {"open", "value", "error"}, data : SUBSET FrameSet]]

\* One load for a window: the load a caller has under way is the window's flight
\* and its Future is open; a Future that is resolved belongs to a caller about to
\* leave the table; a waiter waits on the open flight of its own window.
Flights ==
  /\ \A c \in Callers : caller[c].at # "idle" => Key(c) \in Windows
  /\ \A c \in Callers : Loading(c) \/ At(c, "land") => flight[Key(c)] = c
  /\ \A k \in Windows : flight[k] # None =>
       Key(flight[k]) = k /\ (Loading(flight[k]) \/ At(flight[k], "land"))
  /\ \A c \in Callers : future[c].state # "open" <=> At(c, "land")
  /\ \A w \in Callers : At(w, "wait") =>
       /\ caller[w].waits = flight[Key(w)] /\ caller[w].waits \in Callers
       /\ future[caller[w].waits].state = "open"

\* The native lane is one caller's at a time.
LaneHeld ==
  /\ turn \in Callers \cup {None}
  /\ \A c \in Callers : caller[c].at \in Inside <=> turn = c

CallerInv == CallerTypes /\ Flights /\ LaneHeld

LEMMA LoadingStage == ASSUME NEW c PROVE Loading(c) <=> caller[c].at \in LoadStages
BY DEF Loading, LoadStages, Inside

LEMMA CallerInit == Init => CallerInv
<1>. SUFFICES ASSUME Init PROVE CallerInv
  OBVIOUS
<1>1. /\ flight = [k \in Windows |-> None] /\ turn = None
      /\ caller = [c \in Callers |-> [at |-> "idle", key |-> None, waits |-> None]]
      /\ future = [c \in Callers |-> [state |-> "open", data |-> {}]]
  BY DEF Init, CacheInit, Idle, Open
<1>2. CallerTypes
  BY <1>1 DEF CallerTypes, Stages
<1>3. Flights
  BY <1>1 DEF Flights, At, Key, Loading
<1>4. LaneHeld
  BY <1>1, AskAssumption DEF LaneHeld, Inside
<1>. QED BY <1>2, <1>3, <1>4 DEF CallerInv

LEMMA WaitRecord ==
  ASSUME NEW r, NEW x, r = [at |-> r.at, key |-> r.key, waits |-> r.waits]
  PROVE  [r EXCEPT !.at = "wait", !.waits = x] = [at |-> "wait", key |-> r.key, waits |-> x]
<1>1. PICK at, key, waits : r = [at |-> at, key |-> key, waits |-> waits]
  OBVIOUS
<1>2. [r EXCEPT !.at = "wait"] = [at |-> "wait", key |-> key, waits |-> waits]
  BY <1>1
<1>3. \A s : s = [at |-> "wait", key |-> key, waits |-> waits] =>
         [s EXCEPT !.waits = x] = [at |-> "wait", key |-> key, waits |-> x]
  OBVIOUS
<1>4. [r EXCEPT !.at = "wait", !.waits = x] = [[r EXCEPT !.at = "wait"] EXCEPT !.waits = x]
  BY Zenon
<1>5. r.key = key
  BY <1>1
<1>6. [r EXCEPT !.at = "wait", !.waits = x] = [at |-> "wait", key |-> key, waits |-> x]
  BY <1>2, <1>3, <1>4, Zenon
<1>. QED BY <1>5, <1>6

LEMMA Moved ==
  ASSUME CallerTypes, NEW c \in Callers, NEW to, Go(c, to)
  PROVE  caller' = [caller EXCEPT ![c] =
                      [at |-> to, key |-> caller[c].key, waits |-> caller[c].waits]]
<1>1. /\ caller[c] = [at |-> caller[c].at, key |-> caller[c].key, waits |-> caller[c].waits]
      /\ caller' = [caller EXCEPT ![c] = [caller[c] EXCEPT !.at = to]]
  BY DEF CallerTypes, Go
<1>2. [caller[c] EXCEPT !.at = to] = [at |-> to, key |-> caller[c].key, waits |-> caller[c].waits]
  BY <1>1
<1>. QED BY <1>1, <1>2

\* A load goes on to its next stage.
LEMMA GoesOn ==
  ASSUME CallerTypes, Flights, NEW c \in Callers, NEW to \in LoadStages,
         Loading(c), Go(c, to), UNCHANGED <<flight, future>>
  PROVE  CallerTypes' /\ Flights'
<1>1. caller' = [caller EXCEPT ![c] = [at |-> to, key |-> caller[c].key, waits |-> caller[c].waits]]
  BY Moved
<1>2. CallerTypes'
  BY <1>1 DEF CallerTypes, Stages
<1>3. /\ \A w \in Callers : w # c => caller'[w] = caller[w]
      /\ caller'[c].key = caller[c].key /\ caller'[c].at = to
      /\ to # "idle" /\ to # "wait" /\ to # "land" /\ caller[c].at \in LoadStages
      /\ ~At(c, "land") /\ caller[c].at # "idle"
  BY <1>1, LoadingStage DEF CallerTypes, LoadStages, Inside, At
<1>4. \A w \in Callers : w # c => (Loading(w)' <=> Loading(w))
  BY <1>3 DEF Loading
<1>5. Loading(c)'
  BY <1>3 DEF Loading, LoadStages, Inside
<1>. HIDE DEF Loading
<1>6. Flights'
  BY <1>3, <1>4, <1>5 DEF Flights, At, Key, CallerTypes
<1>. QED BY <1>2, <1>6

\* A load ends: its Future has a result and the callers that wait for it go.
LEMMA Resolves ==
  ASSUME CallerTypes, Flights, NEW c \in Callers, Loading(c),
         NEW f \in [state : {"value", "error"}, data : SUBSET FrameSet],
         Resolve(c, f), UNCHANGED flight
  PROVE  /\ CallerTypes' /\ Flights' /\ At(c, "land")'
         /\ caller'[c].key = caller[c].key
         /\ \A w \in Callers : w # c => caller'[w] = caller[w]
                                        \/ (At(w, "wait") /\ caller'[w].at = "idle")
<1>1. /\ future' = [future EXCEPT ![c] = f]
      /\ caller' = [w \in Callers |->
                      CASE w \in Waiters(c) -> Idle
                        [] w = c -> [caller[c] EXCEPT !.at = "land"]
                        [] OTHER -> caller[w]]
  BY DEF Resolve
<1>2. caller[c].at \in LoadStages /\ c \notin Waiters(c)
  BY LoadingStage DEF Waiters, At, LoadStages, Inside
<1>3. caller'[c] = [at |-> "land", key |-> caller[c].key, waits |-> caller[c].waits]
  BY <1>1, <1>2 DEF CallerTypes
<1>4. \A w \in Callers : w # c =>
        \/ w \in Waiters(c) /\ caller'[w] = Idle
        \/ w \notin Waiters(c) /\ caller'[w] = caller[w]
  BY <1>1
<1>5. CallerTypes'
  <2>1. future' \in [Callers -> [state : {"open", "value", "error"}, data : SUBSET FrameSet]]
    BY <1>1 DEF CallerTypes
  <2>2. \A w \in Callers :
          caller'[w] \in [at : Stages, key : Windows \cup {None}, waits : Callers \cup {None}]
    BY <1>3, <1>4 DEF CallerTypes, Stages, Idle
  <2>3. caller' = [w \in Callers |-> caller'[w]]
    BY <1>1
  <2>. QED BY <2>1, <2>2, <2>3 DEF CallerTypes
<1>6. /\ \A w \in Callers : w # c /\ Loading(w)' => Loading(w) /\ caller'[w] = caller[w]
      /\ \A w \in Callers : w # c /\ (Loading(w) \/ At(w, "land")) => caller'[w] = caller[w]
      /\ \A w \in Callers : w # c /\ caller'[w].at # "idle" => caller'[w] = caller[w] /\ w \notin Waiters(c)
  BY <1>4 DEF Loading, Waiters, At, Idle
<1>7. /\ caller'[c].at = "land" /\ caller'[c].key = caller[c].key /\ ~Loading(c)'
      /\ caller[c].at # "idle" /\ caller[c].at # "land"
  BY <1>2, <1>3 DEF Loading, LoadStages, Inside
<1>8. /\ \A w \in Callers : w # c => future'[w] = future[w]
      /\ future'[c].state # "open"
  BY <1>1 DEF CallerTypes
<1>9. \A w \in Callers : (Loading(w)' <=> (w # c /\ Loading(w)))
  BY <1>6, <1>7 DEF Loading
<1>10. Flights'
  <2>1. \A w \in Callers : caller'[w].at # "idle" => Key(w)' \in Windows
    BY <1>6, <1>7 DEF Flights, Key
  <2>2. \A w \in Callers : Loading(w)' \/ At(w, "land")' => flight'[Key(w)'] = w
    BY <1>6, <1>7, <1>9 DEF Flights, Key, At
  <2>3. ASSUME NEW k \in Windows, flight[k] # None
        PROVE  (Key(flight[k]) = k /\ (Loading(flight[k]) \/ At(flight[k], "land")))'
    <3>1. flight[k] \in Callers /\ Key(flight[k]) = k /\ (Loading(flight[k]) \/ At(flight[k], "land"))
      BY <2>3 DEF Flights, CallerTypes
    <3>2. CASE flight[k] = c
      BY <3>1, <3>2, <1>7 DEF Key, At
    <3>3. CASE flight[k] # c
      <4>1. caller'[flight[k]] = caller[flight[k]]
        BY <3>1, <3>3, <1>6
      <4>. QED BY <3>1, <4>1 DEF Key, At, Loading
    <3>. QED BY <3>2, <3>3
  <2>4. \A w \in Callers : future'[w].state # "open" <=> At(w, "land")'
    BY <1>6, <1>7, <1>8 DEF Flights, At
  <2>5. ASSUME NEW w \in Callers, At(w, "wait")'
        PROVE  /\ caller'[w].waits = flight'[Key(w)'] /\ caller'[w].waits \in Callers
               /\ future'[caller'[w].waits].state = "open"
    <3>1. w # c /\ caller'[w] = caller[w] /\ w \notin Waiters(c)
      BY <2>5, <1>6, <1>7 DEF At
    <3>2. At(w, "wait") /\ caller[w].waits # c
      BY <2>5, <3>1 DEF At, Waiters
    <3>. QED BY <3>1, <3>2, <1>8 DEF Flights, Key
  <2>. QED BY <2>1, <2>2, <2>3, <2>4, <2>5 DEF Flights
<1>. QED BY <1>3, <1>4, <1>5, <1>10 DEF At, Waiters, Idle

\* A request that owns no load moves on, or ends.
LEMMA StaysOut ==
  ASSUME CallerTypes, Flights, NEW c \in Callers,
         caller[c].at \in {"idle", "unlink", "join", "wait"}, UNCHANGED <<flight, future>>,
         \A w \in Callers : w # c => caller'[w] = caller[w],
         caller'[c].at \in {"idle", "unlink", "join"},
         caller'[c].at # "idle" => caller'[c].key \in Windows
  PROVE  Flights'
<1>1. \A w \in Callers : caller'[w].at # "idle" => Key(w)' \in Windows
  BY DEF Flights, Key
<1>2. \A w \in Callers : Loading(w)' \/ At(w, "land")' => flight'[Key(w)'] = w
  BY DEF Flights, Key, At, Loading
<1>3. ASSUME NEW k \in Windows, flight[k] # None
      PROVE  (Key(flight[k]) = k /\ (Loading(flight[k]) \/ At(flight[k], "land")))'
  <2>1. flight[k] \in Callers /\ Key(flight[k]) = k /\ (Loading(flight[k]) \/ At(flight[k], "land"))
    BY <1>3 DEF Flights, CallerTypes
  <2>2. flight[k] # c
    BY <2>1 DEF Loading, At
  <2>. QED BY <2>1, <2>2 DEF Key, At, Loading
<1>4. \A w \in Callers : future'[w].state # "open" <=> At(w, "land")'
  BY DEF Flights, At
<1>5. ASSUME NEW w \in Callers, At(w, "wait")'
      PROVE  /\ caller'[w].waits = flight'[Key(w)'] /\ caller'[w].waits \in Callers
             /\ future'[caller'[w].waits].state = "open"
  BY <1>5 DEF Flights, Key, At
<1>. QED BY <1>1, <1>2, <1>3, <1>4, <1>5 DEF Flights

\* What a request does outside its load.
LEMMA CallerSteps ==
  ASSUME CallerTypes, Flights, NEW c \in Callers, CallerStep(c)
  PROVE  /\ CallerTypes' /\ Flights'
         /\ \A w \in Callers : w # c => caller'[w] = caller[w]
         /\ caller[c].at \in {"idle", "unlink", "join", "wait", "land"}
         /\ caller'[c].at \in {"idle", "unlink", "join", "wait", "load"}
         /\ caller'[c].at = "load" => flight'[caller'[c].key] = c
<1>0. /\ None \notin Callers /\ None \notin Windows
      /\ caller[c] = [at |-> caller[c].at, key |-> caller[c].key, waits |-> caller[c].waits]
  BY AskAssumption DEF CallerTypes
<1>1. CASE \E k \in Windows : Get(c, k)
  <2>1. PICK k \in Windows : Get(c, k)
    BY <1>1
  <2>2. /\ caller[c].at = "idle" /\ UNCHANGED <<flight, future>>
        /\ caller' = caller \/ \E at \in {"unlink", "join"} :
                                 caller' = [caller EXCEPT ![c] = [at |-> at, key |-> k, waits |-> caller[c].waits]]
    BY <1>0, <2>1 DEF Get, At
  <2>3. CASE caller' = caller
    BY <2>2, <2>3 DEF CallerTypes, Flights, At, Key, Loading
  <2>4. CASE \E at \in {"unlink", "join"} : caller' = [caller EXCEPT ![c] = [at |-> at, key |-> k, waits |-> caller[c].waits]]
    <3>1. PICK at \in {"unlink", "join"} : caller' = [caller EXCEPT ![c] = [at |-> at, key |-> k, waits |-> caller[c].waits]]
      BY <2>4
    <3>2. /\ caller'[c].at \in {"unlink", "join"} /\ caller'[c].key = k
          /\ \A w \in Callers : w # c => caller'[w] = caller[w]
      BY <3>1 DEF CallerTypes
    <3>3. CallerTypes'
      BY <2>2, <3>1 DEF CallerTypes, Stages
    <3>4. Flights'
      BY <2>2, <3>2, StaysOut
    <3>. QED BY <2>2, <3>2, <3>3, <3>4
  <2>. QED BY <2>2, <2>3, <2>4
<1>2. CASE Unlink(c)
  <2>1. /\ caller[c].at = "unlink" /\ UNCHANGED <<flight, future>>
        /\ caller' = [caller EXCEPT ![c] = [at |-> "join", key |-> caller[c].key, waits |-> caller[c].waits]]
    BY <1>2, Moved DEF Unlink, At
  <2>2. /\ caller'[c].at = "join" /\ caller'[c].key = caller[c].key
        /\ \A w \in Callers : w # c => caller'[w] = caller[w]
    BY <2>1 DEF CallerTypes
  <2>3. CallerTypes'
    BY <2>1 DEF CallerTypes, Stages
  <2>4. caller[c].key \in Windows
    BY <2>1 DEF Flights, Key
  <2>5. Flights'
    BY <2>1, <2>2, <2>4, StaysOut
  <2>. QED BY <2>1, <2>2, <2>3, <2>5
<1>3. CASE Join(c)
  <2>1. caller[c].at = "join" /\ caller[c].key \in Windows
    BY <1>3 DEF Join, At, Flights, Key
  <2>2. CASE /\ flight[Key(c)] = None /\ flight' = [flight EXCEPT ![Key(c)] = c]
             /\ future' = [future EXCEPT ![c] = Open] /\ Go(c, "load")
    <3>1. caller' = [caller EXCEPT ![c] = [at |-> "load", key |-> caller[c].key, waits |-> caller[c].waits]]
      BY <2>2, Moved
    <3>2. /\ caller'[c].at = "load" /\ caller'[c].key = caller[c].key
          /\ \A w \in Callers : w # c => caller'[w] = caller[w]
      BY <3>1 DEF CallerTypes
    <3>3. /\ flight'[caller[c].key] = c
          /\ \A k \in Windows : k # caller[c].key => flight'[k] = flight[k]
          /\ future'[c].state = "open" /\ future[c].state = "open"
          /\ \A w \in Callers : w # c => future'[w] = future[w]
      BY <2>1, <2>2 DEF CallerTypes, Key, Open, Flights, At
    <3>4. CallerTypes'
      BY <2>1, <2>2, <3>1 DEF CallerTypes, Stages, LoadStages, Open, Key
    <3>5. \A w \in Callers : (Loading(w) \/ At(w, "land") \/ At(w, "wait")) /\ w # c =>
            caller[w].key # caller[c].key
      BY <1>0, <2>1, <2>2 DEF Flights, Key
    <3>6. Flights'
      <4>1. \A w \in Callers : caller'[w].at # "idle" => Key(w)' \in Windows
        BY <2>1, <3>2 DEF Flights, Key
      <4>2. \A w \in Callers : Loading(w)' \/ At(w, "land")' => flight'[Key(w)'] = w
        BY <3>2, <3>3, <3>5 DEF Flights, Key, At, Loading
      <4>3. ASSUME NEW k \in Windows, (flight[k] # None)'
            PROVE  (Key(flight[k]) = k /\ (Loading(flight[k]) \/ At(flight[k], "land")))'
        <5>1. CASE k = caller[c].key
          BY <3>2, <3>3, <5>1 DEF Key, Loading
        <5>2. CASE k # caller[c].key
          <6>1. /\ flight'[k] = flight[k] /\ flight[k] \in Callers /\ Key(flight[k]) = k
                /\ Loading(flight[k]) \/ At(flight[k], "land")
            BY <3>3, <4>3, <5>2 DEF Flights, CallerTypes
          <6>2. flight[k] # c
            BY <2>1, <6>1 DEF Loading, At
          <6>. QED BY <3>2, <6>1, <6>2 DEF Key, Loading, At
        <5>. QED BY <5>1, <5>2
      <4>4. \A w \in Callers : future'[w].state # "open" <=> At(w, "land")'
        BY <3>2, <3>3 DEF Flights, At
      <4>5. ASSUME NEW w \in Callers, At(w, "wait")'
            PROVE  /\ caller'[w].waits = flight'[Key(w)'] /\ caller'[w].waits \in Callers
                   /\ future'[caller'[w].waits].state = "open"
        <5>1. w # c /\ caller'[w] = caller[w] /\ At(w, "wait")
          BY <3>2, <4>5 DEF At
        <5>. QED BY <3>3, <3>5, <5>1 DEF Flights, Key, At
      <4>. QED BY <4>1, <4>2, <4>3, <4>4, <4>5 DEF Flights
    <3>. QED BY <2>1, <3>2, <3>3, <3>4, <3>6
  <2>3. CASE /\ flight[Key(c)] # None /\ future[flight[Key(c)]].state = "open"
             /\ caller' = [caller EXCEPT ![c].at = "wait", ![c].waits = flight[Key(c)]]
             /\ UNCHANGED <<flight, future>>
    <3>1. caller' = [caller EXCEPT ![c] = [at |-> "wait", key |-> caller[c].key, waits |-> flight[Key(c)]]]
      <4>1. caller' = [caller EXCEPT ![c] = [caller[c] EXCEPT !.at = "wait", !.waits = flight[Key(c)]]]
        BY <2>3 DEF CallerTypes
      <4>2. [caller[c] EXCEPT !.at = "wait", !.waits = flight[Key(c)]] =
              [at |-> "wait", key |-> caller[c].key, waits |-> flight[Key(c)]]
        BY <1>0, WaitRecord
      <4>. QED BY <4>1, <4>2
    <3>2. /\ caller'[c].at = "wait" /\ caller'[c].key = caller[c].key
          /\ caller'[c].waits = flight[caller[c].key] /\ flight[caller[c].key] \in Callers
          /\ \A w \in Callers : w # c => caller'[w] = caller[w]
      BY <2>1, <2>3, <3>1 DEF CallerTypes, Key
    <3>3. CallerTypes'
      <4>1. [at |-> "wait", key |-> caller[c].key, waits |-> flight[Key(c)]] \in
              [at : Stages, key : Windows \cup {None}, waits : Callers \cup {None}]
        BY <2>1, <3>2 DEF Stages, Key
      <4>2. PICK to \in [at : Stages, key : Windows \cup {None}, waits : Callers \cup {None}] :
              caller' = [caller EXCEPT ![c] = to]
        BY <3>1, <4>1
      <4>. QED BY <2>3, <4>2, ZenonT(30) DEF CallerTypes
    <3>4. Flights'
      BY <2>1, <2>3, <3>2 DEF Flights, CallerTypes, At, Key, Loading
    <3>. QED BY <2>1, <3>2, <3>3, <3>4
  <2>4. CASE Answered(c) /\ UNCHANGED <<flight, future>>
    <3>1. /\ caller' = [caller EXCEPT ![c] = [at |-> "idle", key |-> None, waits |-> None]]
          /\ caller'[c].at = "idle" /\ \A w \in Callers : w # c => caller'[w] = caller[w]
      BY <2>4 DEF Answered, Idle, CallerTypes
    <3>2. CallerTypes'
      BY <2>4, <3>1 DEF CallerTypes, Stages
    <3>3. Flights'
      BY <2>1, <2>4, <3>1, StaysOut
    <3>. QED BY <2>1, <3>1, <3>2, <3>3
  <2>. QED BY <1>3, <2>2, <2>3, <2>4 DEF Join
<1>4. CASE WaitTimesOut(c)
  <2>1. /\ caller[c].at = "wait" /\ UNCHANGED <<flight, future>>
        /\ caller' = [caller EXCEPT ![c] = [at |-> "idle", key |-> None, waits |-> None]]
        /\ caller'[c].at = "idle" /\ \A w \in Callers : w # c => caller'[w] = caller[w]
    BY <1>4 DEF WaitTimesOut, Answered, Idle, CallerTypes, At
  <2>2. CallerTypes'
    BY <2>1 DEF CallerTypes, Stages
  <2>3. Flights'
    BY <2>1, StaysOut
  <2>. QED BY <2>1, <2>2, <2>3
<1>5. CASE Land(c)
  <2>1. /\ caller[c].at = "land"
        /\ flight' = [flight EXCEPT ![Key(c)] = IF @ = c THEN None ELSE @]
        /\ future' = [future EXCEPT ![c] = Open]
        /\ caller' = [caller EXCEPT ![c] = [at |-> "idle", key |-> None, waits |-> None]]
    BY <1>5 DEF Land, Answered, Idle, At
  <2>2. caller[c].key \in Windows /\ flight[caller[c].key] = c
    BY <2>1 DEF Flights, At, Key
  <2>3. /\ flight' = [flight EXCEPT ![caller[c].key] = None]
        /\ flight'[caller[c].key] = None
        /\ \A k \in Windows : k # caller[c].key => flight'[k] = flight[k]
    BY <2>1, <2>2 DEF Key, CallerTypes
  <2>4. /\ caller'[c].at = "idle" /\ \A w \in Callers : w # c => caller'[w] = caller[w]
        /\ future'[c].state = "open" /\ \A w \in Callers : w # c => future'[w] = future[w]
    BY <2>1 DEF CallerTypes, Open
  <2>5. CallerTypes'
    BY <2>1, <2>3 DEF CallerTypes, Stages, Open
  <2>6. \A w \in Callers : w # c /\ (Loading(w) \/ At(w, "land")) => caller[w].key # caller[c].key
    BY <2>2 DEF Flights, Key
  <2>7. \A w \in Callers : At(w, "wait") => caller[w].waits # c /\ caller[w].key # caller[c].key
    BY <2>1, <2>2 DEF Flights, Key, At
  <2>8. Flights'
    BY <1>0, <2>1, <2>2, <2>3, <2>4, <2>6, <2>7 DEF Flights, CallerTypes, At, Key, Loading
  <2>. QED BY <2>1, <2>4, <2>5, <2>8
<1>. QED BY <1>1, <1>2, <1>3, <1>4, <1>5 DEF CallerStep

\* What a caller's load has in hand.
FetchTypes == fetched \in [Callers -> [state : {"open", "value"}, data : SUBSET FrameSet]]

\* The steps of a load that leave it under way, and the lane they take or free.
LEMMA LoadGoesOn ==
  ASSUME CallerInv, NEW c \in Callers,
         EnterLane(c) \/ Route(c) \/ Collect(c) \/ FallBack(c) \/ RpcAnswers(c) \/ WriteThrough(c)
  PROVE  CallerInv' /\ \A w \in Callers : w # c => caller'[w] = caller[w]
<1>. CallerTypes /\ Flights /\ LaneHeld /\ None \notin Callers
  BY AskAssumption DEF CallerInv
<1>1. /\ Loading(c) /\ UNCHANGED <<flight, future>>
      /\ \/ caller[c].at = "load" /\ Go(c, "route") /\ turn = None /\ turn' = c
         \/ caller[c].at = "route" /\ (Go(c, "lanes") \/ Go(c, "rpc")) /\ turn' = turn
         \/ caller[c].at = "lanes" /\ (Go(c, "write") \/ Go(c, "rpc")) /\ turn' = turn
         \/ caller[c].at = "rpc" /\ Go(c, "write") /\ turn' = turn
         \/ caller[c].at = "write" /\ Go(c, "store") /\ turn' = None
  BY DEF EnterLane, Route, Collect, FallBack, RpcAnswers, WriteThrough, Loading, At, readVars
<1>2. PICK to \in {"route", "lanes", "rpc", "write", "store"} :
        /\ Go(c, to)
        /\ \/ caller[c].at = "load" /\ to = "route" /\ turn = None /\ turn' = c
           \/ caller[c].at \in Inside /\ to \in Inside /\ turn' = turn
           \/ caller[c].at \in Inside /\ to = "store" /\ turn' = None
  BY <1>1 DEF Inside
<1>3. to \in LoadStages
  BY DEF LoadStages, Inside
<1>4. CallerTypes' /\ Flights'
  BY <1>1, <1>2, <1>3, GoesOn
<1>5. caller'[c].at = to /\ \A w \in Callers : w # c => caller'[w] = caller[w]
  BY <1>2, Moved DEF CallerTypes
<1>6. LaneHeld'
  BY <1>2, <1>5 DEF LaneHeld, Inside
<1>. QED BY <1>4, <1>5, <1>6 DEF CallerInv

\* The steps that end a load, with data or with an error.
LEMMA LoadEnds ==
  ASSUME CallerInv, FetchTypes, NEW c \in Callers,
         At(c, "store") => fetched[c].state = "value",
         \/ LaneWaitEnds(c) \/ RpcFails(c) \/ KeepAnswer(c)
         \/ Measure(c, fetched[c].data) /\ UNCHANGED turn
  PROVE  /\ CallerInv'
         /\ \A w \in Callers : w # c => caller'[w] = caller[w]
                                         \/ (At(w, "wait") /\ caller'[w].at = "idle")
         /\ caller'[c].key = caller[c].key /\ caller'[c].at \in {"size", "land"}
<1>. CallerTypes /\ Flights /\ LaneHeld /\ None \notin Callers
  BY AskAssumption DEF CallerInv
<1>1. /\ caller[c].at \in {"load", "rpc", "store", "size"} /\ UNCHANGED flight
      /\ turn' = IF caller[c].at = "rpc" THEN None ELSE turn
  BY DEF LaneWaitEnds, RpcFails, LoadFails, KeepAnswer, Store, Measure, At, readVars
<1>2. Loading(c)
  BY <1>1 DEF Loading
<1>3. CASE Go(c, "size") /\ UNCHANGED future /\ caller[c].at = "store"
  <2>1. "size" \in LoadStages
    BY DEF LoadStages
  <2>2. CallerTypes' /\ Flights'
    BY <1>1, <1>2, <1>3, <2>1, GoesOn
  <2>3. /\ caller'[c].at = "size" /\ caller'[c].key = caller[c].key
        /\ \A w \in Callers : w # c => caller'[w] = caller[w]
    BY <1>3, Moved DEF CallerTypes
  <2>4. LaneHeld'
    BY <1>1, <1>3, <2>3 DEF LaneHeld, Inside
  <2>. QED BY <2>2, <2>3, <2>4 DEF CallerInv
<1>4. CASE \E f \in [state : {"value", "error"}, data : SUBSET FrameSet] : Resolve(c, f)
  <2>1. PICK f \in [state : {"value", "error"}, data : SUBSET FrameSet] : Resolve(c, f)
    BY <1>4
  <2>2. /\ CallerTypes' /\ Flights' /\ At(c, "land")'
        /\ caller'[c].key = caller[c].key
        /\ \A w \in Callers : w # c => caller'[w] = caller[w]
                                       \/ (At(w, "wait") /\ caller'[w].at = "idle")
    BY <1>1, <1>2, <2>1, Resolves
  <2>3. LaneHeld'
    BY <1>1, <2>2 DEF LaneHeld, Inside, At
  <2>. QED BY <2>2, <2>3 DEF CallerInv, At
<1>5. \/ Go(c, "size") /\ UNCHANGED future /\ caller[c].at = "store"
      \/ \E f \in [state : {"value", "error"}, data : SUBSET FrameSet] : Resolve(c, f)
  <2>1. /\ [state |-> "error", data |-> {}] \in [state : {"value", "error"}, data : SUBSET FrameSet]
        /\ [state |-> "value", data |-> fetched[c].data]
             \in [state : {"value", "error"}, data : SUBSET FrameSet]
    BY DEF FetchTypes
  <2>2. At(c, "store") => fetched[c] \in [state : {"value", "error"}, data : SUBSET FrameSet]
    BY DEF FetchTypes
  <2>3. CASE LaneWaitEnds(c) \/ RpcFails(c)
    BY <2>1, <2>3 DEF LaneWaitEnds, RpcFails, LoadFails
  <2>4. CASE KeepAnswer(c)
    BY <2>1, <2>2, <2>4 DEF KeepAnswer, Store, At
  <2>5. CASE Measure(c, fetched[c].data)
    BY <2>1, <2>5 DEF Measure
  <2>. QED BY <2>3, <2>4, <2>5
<1>. QED BY <1>3, <1>4, <1>5

LEMMA CallersOnly ==
  ASSUME CallerInv, NEW c \in Callers, CallerStep(c), UNCHANGED turn
  PROVE  /\ CallerInv' /\ \A w \in Callers : w # c => caller'[w] = caller[w]
         /\ caller[c].at \in {"idle", "unlink", "join", "wait", "land"}
         /\ caller'[c].at \in {"idle", "unlink", "join", "wait", "load"}
<1>. CallerTypes /\ Flights /\ LaneHeld
  BY DEF CallerInv
<1>1. /\ CallerTypes' /\ Flights'
      /\ \A w \in Callers : w # c => caller'[w] = caller[w]
      /\ caller[c].at \in {"idle", "unlink", "join", "wait", "land"}
      /\ caller'[c].at \in {"idle", "unlink", "join", "wait", "load"}
  BY CallerSteps
<1>2. LaneHeld'
  BY <1>1 DEF LaneHeld, Inside
<1>. QED BY <1>1, <1>2 DEF CallerInv

-----------------------------------------------------------------------------
(* The lanes of the fast path.                                             *)

LaneStates == [at : {"none", "queued", "lock", "recv", "ok", "refused", "missing", "lost",
                     "canceled"}, try : 0..2, got : FrameSet]
AnswerSet == [read : Nat, try : 1..2, frame : FrameSet]
SocketSet == [torn : BOOLEAN, wire : Seq(AnswerSet)]

LaneTypes ==
  /\ reads \in Seq(Windows) /\ Len(reads) <= MaxReads /\ rev \in Nat
  /\ lane \in [Reads -> [Sides -> LaneStates]]
  /\ sock \in [Sides -> SocketSet]

\* Whatever is under way on a socket is the answer to a read that was made, for
\* the half of its window that the socket serves.
AnswerTrue(i, w) == w.read \in 1..Len(reads) /\ w.frame.key = reads[w.read] /\ w.frame.side = i

FramesTrue ==
  /\ \A i \in Sides : \A j \in 1..Len(sock[i].wire) : AnswerTrue(i, sock[i].wire[j])
  /\ \A n \in Reads, i \in Sides : lane[n][i].at = "ok" =>
       n \in 1..Len(reads) /\ lane[n][i].got.key = reads[n] /\ lane[n][i].got.side = i
  /\ \A n \in Reads, i \in Sides : n > Len(reads) => lane[n][i].at = "none"

\* The answers to a read show the data as it is now.
Fresh(n) ==
  \A i \in Sides :
    /\ \A j \in 1..Len(sock[i].wire) : sock[i].wire[j].read = n => sock[i].wire[j].frame.rev = rev
    /\ lane[n][i].at = "ok" => lane[n][i].got.rev = rev

LanesKept ==
  /\ LaneTypes' /\ FramesTrue' /\ UNCHANGED <<reads, rev>> /\ late \subseteq late'
  /\ \A m \in Reads : Fresh(m) => Fresh(m)'
  /\ \A m \in Reads, j \in Sides : lane'[m][j].at = "queued" => lane[m][j].at = "queued"

\* An answer on the socket was there, or is the one to this half's request.
FromSocket(n, i, so) ==
  \A j \in 1..Len(so.wire) :
    \/ \E x \in 1..Len(sock[i].wire) : so.wire[j] = sock[i].wire[x]
    \/ so.wire[j].read = n /\ so.wire[j].frame = [key |-> reads[n], side |-> i, rev |-> rev]

LEMMA LaneMoves ==
  ASSUME LaneTypes, FramesTrue, NEW n \in 1..Len(reads), NEW i \in Sides,
         NEW st \in LaneStates, NEW so \in SocketSet,
         lane' = [lane EXCEPT ![n][i] = st], st.at # "queued",
         sock' = [sock EXCEPT ![i] = so], FromSocket(n, i, so),
         st.at = "ok" => \E x \in 1..Len(sock[i].wire) :
                           sock[i].wire[x].read = n /\ st.got = sock[i].wire[x].frame,
         UNCHANGED <<reads, rev>>, late \subseteq late'
  PROVE  LanesKept
<1>1. n \in Reads /\ Len(reads) \in Nat
  BY ReadAssumption DEF LaneTypes, Reads
<1>2. /\ lane'[n][i] = st /\ sock'[i] = so
      /\ \A m \in Reads, j \in Sides : (m # n \/ j # i) => lane'[m][j] = lane[m][j]
      /\ \A j \in Sides : j # i => sock'[j] = sock[j]
  BY <1>1 DEF LaneTypes
<1>3. LaneTypes'
  <2>1. lane' \in [Reads -> [Sides -> LaneStates]]
    BY <1>1 DEF LaneTypes
  <2>2. sock' \in [Sides -> SocketSet]
    BY DEF LaneTypes
  <2>. QED BY <2>1, <2>2 DEF LaneTypes
<1>4. \A j \in Sides : \A x \in 1..Len(sock'[j].wire) :
        \/ \E y \in 1..Len(sock[j].wire) : sock'[j].wire[x] = sock[j].wire[y]
        \/ j = i /\ sock'[j].wire[x].read = n
           /\ sock'[j].wire[x].frame = [key |-> reads[n], side |-> i, rev |-> rev]
  BY <1>2 DEF FromSocket
<1>5. \A j \in Sides : \A x \in 1..Len(sock'[j].wire) : AnswerTrue(j, sock'[j].wire[x])
  <2>. TAKE j \in Sides
  <2>. TAKE x \in 1..Len(sock'[j].wire)
  <2>1. CASE \E y \in 1..Len(sock[j].wire) : sock'[j].wire[x] = sock[j].wire[y]
    BY <2>1 DEF FramesTrue
  <2>2. CASE /\ j = i /\ sock'[j].wire[x].read = n
             /\ sock'[j].wire[x].frame = [key |-> reads[n], side |-> i, rev |-> rev]
    BY <2>2 DEF AnswerTrue
  <2>. QED BY <1>4, <2>1, <2>2
<1>6. st.at = "ok" => st.got.key = reads[n] /\ st.got.side = i
  BY DEF FramesTrue, AnswerTrue
<1>7. FramesTrue'
  BY <1>1, <1>2, <1>5, <1>6 DEF FramesTrue, AnswerTrue
<1>8. ASSUME NEW m \in Reads, Fresh(m) PROVE Fresh(m)'
  <2>1. \A j \in Sides : \A x \in 1..Len(sock'[j].wire) :
          sock'[j].wire[x].read = m => sock'[j].wire[x].frame.rev = rev
    BY <1>4, <1>8 DEF Fresh
  <2>2. \A j \in Sides : lane'[m][j].at = "ok" => lane'[m][j].got.rev = rev
    BY <1>2, <1>8 DEF Fresh
  <2>. QED BY <2>1, <2>2 DEF Fresh
<1>9. \A m \in Reads, j \in Sides : lane'[m][j].at = "queued" => lane[m][j].at = "queued"
  BY <1>2
<1>. QED BY <1>3, <1>7, <1>8, <1>9 DEF LanesKept

\* What a send leaves on a socket.
LEMMA SendsOwn ==
  ASSUME LaneTypes, NEW n \in 1..Len(reads), NEW i \in Sides, NEW try \in 1..2, NEW sent \in BOOLEAN,
         NEW s \in SocketSet, FromSocket(n, i, s)
  PROVE  Sending(n, i, try, sent, s) \in SocketSet /\ FromSocket(n, i, Sending(n, i, try, sent, s))
<1>. DEFINE a == [read |-> n, try |-> try, frame |-> [key |-> reads[n], side |-> i, rev |-> rev]]
<1>1. a \in AnswerSet /\ a.read = n /\ a.frame = [key |-> reads[n], side |-> i, rev |-> rev]
  BY DEF LaneTypes, AnswerSet, FrameSet, Sides
<1>2. s.wire \in Seq(AnswerSet)
  BY DEF SocketSet
<1>3. CASE sent
  <2>1. Sending(n, i, try, sent, s) = [torn |-> s.torn, wire |-> Append(s.wire, a)]
    <3>1. s = [torn |-> s.torn, wire |-> s.wire]
      BY DEF SocketSet
    <3>2. Sending(n, i, try, sent, s) = [s EXCEPT !.wire = Append(@, a)]
      BY <1>3 DEF Sending
    <3>. HIDE DEF a
    <3>. QED BY <3>1, <3>2
  <2>2. Append(s.wire, a) \in Seq(AnswerSet) /\ Len(Append(s.wire, a)) = Len(s.wire) + 1
        /\ \A j \in 1..Len(s.wire) + 1 :
             Append(s.wire, a)[j] = IF j = Len(s.wire) + 1 THEN a ELSE s.wire[j]
    <3>. HIDE DEF a
    <3>. QED BY <1>1, <1>2
  <2>3. FromSocket(n, i, Sending(n, i, try, sent, s))
    <3>1. \A j \in 1..Len(s.wire) + 1 : j = Len(s.wire) + 1 \/ j \in 1..Len(s.wire)
      BY <1>2
    <3>. HIDE DEF a
    <3>. QED BY <1>1, <2>1, <2>2, <3>1 DEF FromSocket
  <2>4. Sending(n, i, try, sent, s) \in SocketSet
    <3>. HIDE DEF a
    <3>. QED BY <2>1, <2>2 DEF SocketSet
  <2>. QED BY <2>3, <2>4
<1>4. CASE ~sent
  <2>1. Sending(n, i, try, sent, s) = s
    BY <1>4 DEF Sending, SocketSet
  <2>. QED BY <2>1
<1>. QED BY <1>3, <1>4

LEMMA SentRecord ==
  ASSUME NEW r, r = [at |-> r.at, try |-> r.try, got |-> r.got]
  PROVE  [r EXCEPT !.at = "recv", !.try = 1] = [at |-> "recv", try |-> 1, got |-> r.got]
<1>1. PICK at, try, got : r = [at |-> at, try |-> try, got |-> got]
  OBVIOUS
<1>2. [r EXCEPT !.at = "recv"] = [at |-> "recv", try |-> try, got |-> got]
  BY <1>1
<1>3. \A s : s = [at |-> "recv", try |-> try, got |-> got] =>
         [s EXCEPT !.try = 1] = [at |-> "recv", try |-> 1, got |-> got]
  OBVIOUS
<1>4. [r EXCEPT !.at = "recv", !.try = 1] = [[r EXCEPT !.at = "recv"] EXCEPT !.try = 1]
  BY Zenon
<1>5. [r EXCEPT !.at = "recv", !.try = 1] = [at |-> "recv", try |-> 1, got |-> got]
  BY <1>2, <1>3, <1>4, Zenon
<1>6. r.got = got
  BY <1>1
<1>. QED BY <1>5, <1>6

LEMMA LostRecord ==
  ASSUME NEW r, r = [at |-> r.at, try |-> r.try, got |-> r.got]
  PROVE  [r EXCEPT !.at = "lost", !.try = 0] = [at |-> "lost", try |-> 0, got |-> r.got]
<1>1. PICK at, try, got : r = [at |-> at, try |-> try, got |-> got]
  OBVIOUS
<1>2. [r EXCEPT !.at = "lost"] = [at |-> "lost", try |-> try, got |-> got]
  BY <1>1
<1>3. \A s : s = [at |-> "lost", try |-> try, got |-> got] =>
         [s EXCEPT !.try = 0] = [at |-> "lost", try |-> 0, got |-> got]
  OBVIOUS
<1>4. [r EXCEPT !.at = "lost", !.try = 0] = [[r EXCEPT !.at = "lost"] EXCEPT !.try = 0]
  BY Zenon
<1>5. [r EXCEPT !.at = "lost", !.try = 0] = [at |-> "lost", try |-> 0, got |-> got]
  BY <1>2, <1>3, <1>4, Zenon
<1>6. r.got = got
  BY <1>1
<1>. QED BY <1>5, <1>6

LEMMA FormulaSteps ==
  ASSUME LaneTypes, FramesTrue, FormulaNext
  PROVE  LanesKept
<1>0. ASSUME UNCHANGED <<reads, lane, sock, rev>>, late \subseteq late' PROVE LanesKept
  BY <1>0 DEF LanesKept, LaneTypes, FramesTrue, AnswerTrue, Fresh
<1>1. CASE CooldownEnds
  BY <1>0, <1>1 DEF CooldownEnds
<1>2. CASE \E n \in Reads : Expire(n)
  BY <1>0, <1>2 DEF Expire
<1>3. ASSUME NEW n \in 1..Len(reads), NEW i \in Sides, LaneStep(n, i) PROVE LanesKept
  <2>1. /\ n \in Reads /\ n \in Nat /\ lane[n][i] \in LaneStates
        /\ sock[i] \in SocketSet /\ sock[i].wire \in Seq(AnswerSet)
        /\ lane[n][i] = [at |-> lane[n][i].at, try |-> lane[n][i].try, got |-> lane[n][i].got]
        /\ FromSocket(n, i, sock[i])
    BY ReadAssumption DEF LaneTypes, Reads, SocketSet, FromSocket, LaneStates
  <2>2. sock = [sock EXCEPT ![i] = sock[i]]
    BY DEF LaneTypes
  <2>3. \A to \in {"lost", "lock", "recv"}, try \in 0..2 :
          /\ [at |-> to, try |-> try, got |-> lane[n][i].got] \in LaneStates
          /\ to # "queued" /\ to # "ok"
    BY <2>1 DEF LaneStates
  <2>4. CASE WorkerTakes(n, i) \/ LockWaitEnds(n, i)
    <3>1. PICK to \in {"lost", "lock"} :
            lane' = [lane EXCEPT ![n][i] = [lane[n][i] EXCEPT !.at = to]]
      BY <2>4 DEF WorkerTakes, LockWaitEnds
    <3>2. [lane[n][i] EXCEPT !.at = to] = [at |-> to, try |-> lane[n][i].try, got |-> lane[n][i].got]
      BY <2>1
    <3>3. lane[n][i].try \in 0..2
      BY <2>1 DEF LaneStates
    <3>4. UNCHANGED <<reads, sock, rev, late>>
      BY <2>4 DEF WorkerTakes, LockWaitEnds
    <3>. QED BY <2>1, <2>2, <2>3, <3>1, <3>2, <3>3, <3>4, LaneMoves
  <2>5. ASSUME NEW sent \in BOOLEAN, TakeClient(n, i, sent) PROVE LanesKept
    <3>1. /\ lane' = [lane EXCEPT ![n][i] = [lane[n][i] EXCEPT !.at = "recv", !.try = 1]]
          /\ sock' = [sock EXCEPT ![i] = Sending(n, i, 1, sent, sock[i])]
          /\ UNCHANGED <<reads, rev, late>>
      BY <2>5 DEF TakeClient
    <3>2. [lane[n][i] EXCEPT !.at = "recv", !.try = 1] =
            [at |-> "recv", try |-> 1, got |-> lane[n][i].got]
      <4>1. PICK r : r = lane[n][i]
        OBVIOUS
      <4>2. r = [at |-> r.at, try |-> r.try, got |-> r.got]
        BY <2>1, <4>1, Zenon
      <4>3. [r EXCEPT !.at = "recv", !.try = 1] = [at |-> "recv", try |-> 1, got |-> r.got]
        BY <4>2, SentRecord
      <4>. QED BY <4>1, <4>3, Zenon
    <3>3. /\ Sending(n, i, 1, sent, sock[i]) \in SocketSet
          /\ FromSocket(n, i, Sending(n, i, 1, sent, sock[i]))
      BY <2>1, SendsOwn
    <3>4. PICK st : st = [at |-> "recv", try |-> 1, got |-> lane[n][i].got]
      OBVIOUS
    <3>5. st \in LaneStates /\ st.at = "recv"
      BY <2>3, <3>4
    <3>6. PICK so : so = Sending(n, i, 1, sent, sock[i])
      OBVIOUS
    <3>7. so \in SocketSet /\ FromSocket(n, i, so)
      BY <3>3, <3>6
    <3>8. lane' = [lane EXCEPT ![n][i] = st] /\ sock' = [sock EXCEPT ![i] = so]
      BY <3>1, <3>2, <3>4, <3>6
    <3>9. UNCHANGED <<reads, rev, late>>
      BY <3>1
    <3>. QED BY <3>5, <3>7, <3>8, <3>9, LaneMoves
  <2>6. ASSUME NEW at \in {"ok", "refused", "missing"}, Receive(n, i, at) PROVE LanesKept
    <3>1. PICK j \in DOMAIN sock[i].wire :
            /\ Matching(n, i, sock[i].wire[j])
            /\ sock' = [sock EXCEPT ![i].wire = SubSeq(@, j + 1, Len(@))]
            /\ lane' = [lane EXCEPT ![n][i] = [at |-> at, try |-> 0,
                          got |-> IF at = "ok" THEN sock[i].wire[j].frame ELSE NoFrame]]
      BY <2>6 DEF Receive
    <3>2. j \in 1..Len(sock[i].wire) /\ sock[i].wire[j] \in AnswerSet /\ sock[i].wire[j].read = n
      BY <2>1, <3>1 DEF Matching
    <3>3. PICK st : st = [at |-> at, try |-> 0,
                          got |-> IF at = "ok" THEN sock[i].wire[j].frame ELSE NoFrame]
      OBVIOUS
    <3>4. st \in LaneStates /\ st.at = at /\ (at = "ok" => st.got = sock[i].wire[j].frame)
      BY <3>2, <3>3 DEF LaneStates, AnswerSet, NoFrame, FrameSet, None
    <3>5. PICK so : so = [torn |-> sock[i].torn,
                          wire |-> SubSeq(sock[i].wire, j + 1, Len(sock[i].wire))]
      OBVIOUS
    <3>6. sock' = [sock EXCEPT ![i] = so]
      <4>1. sock' = [sock EXCEPT ![i] = [sock[i] EXCEPT !.wire = SubSeq(sock[i].wire, j + 1, Len(sock[i].wire))]]
        BY <3>1
      <4>2. sock[i] = [torn |-> sock[i].torn, wire |-> sock[i].wire]
        BY <2>1 DEF SocketSet
      <4>3. \A v : [sock[i] EXCEPT !.wire = v] = [torn |-> sock[i].torn, wire |-> v]
        BY <4>2
      <4>. QED BY <3>5, <4>1, <4>3
    <3>7. /\ SubSeq(sock[i].wire, j + 1, Len(sock[i].wire)) \in Seq(AnswerSet)
          /\ Len(SubSeq(sock[i].wire, j + 1, Len(sock[i].wire))) = Len(sock[i].wire) - j
          /\ \A x \in 1..Len(sock[i].wire) - j :
               /\ SubSeq(sock[i].wire, j + 1, Len(sock[i].wire))[x] = sock[i].wire[x + j]
               /\ x + j \in 1..Len(sock[i].wire)
      <4>1. PICK s \in Seq(AnswerSet) : s = sock[i].wire
        BY <2>1
      <4>2. Len(s) \in Nat /\ j \in 1..Len(s) /\ \A x \in j + 1..Len(s) : s[x] \in AnswerSet
        BY <3>2, <4>1
      <4>3. PICK l \in Nat : l = Len(s)
        BY <4>2
      <4>4. j \in Int /\ j + 1 \in Int /\ j <= l /\ j >= 1
        BY <4>2, <4>3
      <4>5. /\ SubSeq(s, j + 1, l) \in Seq(AnswerSet)
            /\ Len(SubSeq(s, j + 1, l)) = IF j + 1 <= l THEN l - (j + 1) + 1 ELSE 0
            /\ \A x \in 1..l - (j + 1) + 1 : SubSeq(s, j + 1, l)[x] = s[j + 1 + x - 1]
        BY <4>2, <4>3, <4>4, SubSeqProperties
      <4>6. /\ (IF j + 1 <= l THEN l - (j + 1) + 1 ELSE 0) = l - j
            /\ l - (j + 1) + 1 = l - j
            /\ \A x \in 1..l - j : j + 1 + x - 1 = x + j /\ x + j \in 1..l
        BY <4>4
      <4>7. /\ Len(SubSeq(s, j + 1, l)) = l - j
            /\ \A x \in 1..l - j : SubSeq(s, j + 1, l)[x] = s[x + j] /\ x + j \in 1..l
        BY <4>5, <4>6
      <4>. QED BY <4>1, <4>3, <4>5, <4>7
    <3>8. so \in SocketSet /\ FromSocket(n, i, so)
      BY <2>1, <3>5, <3>7 DEF SocketSet, FromSocket
    <3>9. UNCHANGED <<reads, rev, late>>
      BY <2>6 DEF Receive
    <3>. QED BY <3>1, <3>2, <3>3, <3>4, <3>6, <3>8, <3>9, LaneMoves
  <2>7. ASSUME NEW sent \in BOOLEAN, NEW torn \in BOOLEAN, Fail(n, i, torn, sent) PROVE LanesKept
    <3>1. UNCHANGED <<reads, rev, late>>
      BY <2>7 DEF Fail
    <3>2. CASE /\ sock' = [sock EXCEPT ![i] = Sending(n, i, 2, sent, Closed)]
               /\ lane' = [lane EXCEPT ![n][i].try = 2] /\ lane[n][i].at = "recv"
      <4>1. Closed \in SocketSet /\ FromSocket(n, i, Closed)
        <5>1. <<>> \in Seq(AnswerSet) /\ Len(<<>>) = 0 /\ 1..0 = {}
          OBVIOUS
        <5>. QED BY <5>1 DEF Closed, SocketSet, FromSocket
      <4>2. /\ Sending(n, i, 2, sent, Closed) \in SocketSet
            /\ FromSocket(n, i, Sending(n, i, 2, sent, Closed))
        BY <4>1, SendsOwn
      <4>3. /\ lane' = [lane EXCEPT ![n][i] = [lane[n][i] EXCEPT !.try = 2]]
            /\ [lane[n][i] EXCEPT !.try = 2] = [at |-> "recv", try |-> 2, got |-> lane[n][i].got]
        BY <2>1, <3>2
      <4>4. PICK st : st = [at |-> "recv", try |-> 2, got |-> lane[n][i].got]
        OBVIOUS
      <4>5. st \in LaneStates /\ st.at = "recv"
        BY <2>3, <4>4
      <4>6. PICK so : so = Sending(n, i, 2, sent, Closed)
        OBVIOUS
      <4>7. so \in SocketSet /\ FromSocket(n, i, so)
        BY <4>2, <4>6
      <4>8. lane' = [lane EXCEPT ![n][i] = st] /\ sock' = [sock EXCEPT ![i] = so]
        BY <3>2, <4>3, <4>4, <4>6
      <4>. QED BY <3>1, <4>5, <4>7, <4>8, LaneMoves
    <3>3. CASE /\ sock' = [sock EXCEPT ![i] = IF lane[n][i].try = 2 THEN [sock[i] EXCEPT !.torn = @ \/ torn]
                                              ELSE Closed]
               /\ lane' = [lane EXCEPT ![n][i].at = "lost", ![n][i].try = 0]
      <4>1. PICK so : so = IF lane[n][i].try = 2 THEN [sock[i] EXCEPT !.torn = @ \/ torn]
                           ELSE Closed
        OBVIOUS
      <4>2. sock' = [sock EXCEPT ![i] = so]
        BY <3>3, <4>1, Zenon
      <4>3. so \in SocketSet /\ FromSocket(n, i, so)
        <5>1. <<>> \in Seq(AnswerSet) /\ Len(<<>>) = 0 /\ 1..0 = {}
          OBVIOUS
        <5>2. CASE so = Closed
          BY <5>1, <5>2 DEF Closed, SocketSet, FromSocket
        <5>3. CASE so = [sock[i] EXCEPT !.torn = @ \/ torn]
          <6>1. PICK b \in BOOLEAN : so = [sock[i] EXCEPT !.torn = b]
            BY <5>3, <2>7, Zenon
          <6>2. so.wire = sock[i].wire /\ so \in SocketSet
            BY <2>1, <6>1 DEF SocketSet
          <6>. QED BY <2>1, <6>2 DEF FromSocket
        <5>. QED BY <4>1, <5>2, <5>3
      <4>4. lane' = [lane EXCEPT ![n][i] = [lane[n][i] EXCEPT !.at = "lost", !.try = 0]]
        BY <3>3
      <4>5. PICK st : st = [at |-> "lost", try |-> 0, got |-> lane[n][i].got]
        OBVIOUS
      <4>6. st \in LaneStates /\ st.at = "lost"
        BY <2>3, <4>5
      <4>7. lane' = [lane EXCEPT ![n][i] = st]
        <5>1. PICK r : r = lane[n][i]
          OBVIOUS
        <5>2. r = [at |-> r.at, try |-> r.try, got |-> r.got]
          BY <2>1, <5>1, Zenon
        <5>3. [r EXCEPT !.at = "lost", !.try = 0] = [at |-> "lost", try |-> 0, got |-> r.got]
          BY <5>2, LostRecord
        <5>. QED BY <4>4, <4>5, <5>1, <5>3, Zenon
      <4>. QED BY <3>1, <4>2, <4>3, <4>6, <4>7, LaneMoves
    <3>. QED BY <2>7, <3>2, <3>3 DEF Fail
  <2>. QED BY <1>3, <2>4, <2>5, <2>6, <2>7 DEF LaneStep
<1>. QED BY <1>1, <1>2, <1>3 DEF FormulaNext

-----------------------------------------------------------------------------
(* A read and the caller that waits for it.                                *)

\* A caller at its lanes waits for a read of its own window, whose answers show
\* the data as it is now.
OwnRead ==
  \A c \in Callers : At(c, "lanes") =>
    read[c] \in 1..Len(reads) /\ reads[read[c]] = Key(c) /\ Fresh(read[c])

LaneInv ==
  /\ LaneTypes /\ FramesTrue /\ read \in [Callers -> Nat]
  /\ OwnRead /\ NoStrayHalf

LEMMA LaneInit == Init => LaneInv
<1>. SUFFICES ASSUME Init PROVE LaneInv
  OBVIOUS
<1>1. /\ reads = <<>> /\ rev = 0 /\ read = [c \in Callers |-> 0]
      /\ lane = [n \in Reads |-> [i \in Sides |-> NoLane]]
      /\ sock = [i \in Sides |-> Closed]
      /\ caller = [c \in Callers |-> Idle]
  BY DEF Init, CacheInit, FormulaInit, Nobody
<1>2. <<>> \in Seq(Windows) /\ <<>> \in Seq(AnswerSet) /\ Len(<<>>) = 0 /\ 1..0 = {}
  OBVIOUS
<1>3. NoLane \in LaneStates /\ NoLane.at = "none" /\ Closed \in SocketSet /\ Closed.wire = <<>>
  BY <1>2 DEF NoLane, LaneStates, NoFrame, FrameSet, None, Closed, SocketSet
<1>4. LaneTypes
  BY <1>1, <1>2, <1>3, ReadAssumption DEF LaneTypes
<1>5. FramesTrue
  BY <1>1, <1>2, <1>3 DEF FramesTrue
<1>6. OwnRead
  BY <1>1 DEF OwnRead, At, Idle
<1>7. NoStrayHalf
  BY <1>1, <1>2 DEF NoStrayHalf
<1>. QED BY <1>1, <1>4, <1>5, <1>6, <1>7 DEF LaneInv

LEMMA AtMostOne ==
  ASSUME LaneHeld, NEW c \in Callers, caller[c].at \in Inside
  PROVE  turn = c /\ \A w \in Callers : w # c => caller[w].at \notin Inside
BY DEF LaneHeld

\* Steps that touch neither the lanes nor who waits at them.
LEMMA LanesStay ==
  ASSUME LaneInv, UNCHANGED <<reads, lane, sock, rev, late>>, read' \in [Callers -> Nat],
         \A w \in Callers : At(w, "lanes")' <=> At(w, "lanes"),
         \A w \in Callers : At(w, "lanes") => read'[w] = read[w] /\ caller'[w].key = caller[w].key
  PROVE  LaneInv'
<1>1. LaneTypes' /\ FramesTrue'
  BY DEF LaneInv, LaneTypes, FramesTrue, AnswerTrue
<1>2. \A n : Fresh(n) => Fresh(n)'
  BY DEF Fresh
<1>3. OwnRead'
  BY <1>2 DEF LaneInv, OwnRead, Key
<1>4. NoStrayHalf'
  BY DEF LaneInv, NoStrayHalf
<1>. QED BY <1>1, <1>3, <1>4 DEF LaneInv

LEMMA LanesMove ==
  ASSUME LaneInv, LanesKept, UNCHANGED <<caller, read>>
  PROVE  LaneInv'
<1>1. \A n \in 1..Len(reads) : n \in Reads
  BY ReadAssumption DEF LaneInv, LaneTypes, Reads
<1>2. OwnRead'
  BY <1>1 DEF LaneInv, OwnRead, LanesKept, At, Key
<1>3. NoStrayHalf'
  BY <1>1 DEF LaneInv, NoStrayHalf, LanesKept, At
<1>. QED BY <1>2, <1>3 DEF LaneInv, LanesKept

LEMMA LaneEntered ==
  ASSUME LaneInv, CallerInv, NEW c \in Callers, EnterLane(c),
         \A w \in Callers : w # c => caller'[w] = caller[w], caller'[c].at = "route"
  PROVE  LaneInv'
<1>1. /\ turn = None /\ rev' = rev + 1
      /\ UNCHANGED <<reads, lane, late, sock, read>>
  BY DEF EnterLane
<1>2. \A w \in Callers : caller[w].at \notin Inside
  BY <1>1, AskAssumption DEF CallerInv, LaneHeld
<1>3. \A w \in Callers : ~At(w, "lanes") /\ ~At(w, "lanes")'
  BY <1>2 DEF At, Inside
<1>4. LaneTypes' /\ FramesTrue'
  BY <1>1 DEF LaneInv, LaneTypes, FramesTrue, AnswerTrue
<1>5. OwnRead'
  BY <1>3 DEF OwnRead
<1>6. NoStrayHalf'
  BY <1>1, <1>3 DEF LaneInv, NoStrayHalf
<1>. QED BY <1>1, <1>4, <1>5, <1>6 DEF LaneInv

\* Once a caller leaves its lanes nothing of its read is queued, unless the read
\* is past its deadline.
LEMMA LaneLeft ==
  ASSUME LaneInv, CallerInv, NEW c \in Callers, At(c, "lanes"), ~At(c, "lanes")',
         \A w \in Callers : w # c => caller'[w] = caller[w],
         UNCHANGED <<reads, sock, rev, late, read>>,
         NEW row \in [Sides -> LaneStates], lane' = [lane EXCEPT ![read[c]] = row],
         \A i \in Sides : /\ row[i].at = "queued" => read[c] \in late
                          /\ row[i].at = "ok" => row[i] = lane[read[c]][i]
  PROVE  LaneInv'
<1>1. read[c] \in 1..Len(reads) /\ read[c] \in Reads /\ Len(reads) \in Nat
  BY ReadAssumption DEF LaneInv, LaneTypes, OwnRead, Reads
<1>2. /\ lane'[read[c]] = row /\ \A m \in Reads : m # read[c] => lane'[m] = lane[m]
      /\ LaneTypes'
  BY <1>1 DEF LaneInv, LaneTypes
<1>3. FramesTrue'
  BY <1>1, <1>2 DEF LaneInv, FramesTrue, AnswerTrue
<1>4. caller[c].at \in Inside
  BY DEF At, Inside
<1>5. \A w \in Callers : w # c => caller[w].at \notin Inside
  BY <1>4, AtMostOne DEF CallerInv
<1>6. \A w \in Callers : ~At(w, "lanes")'
  BY <1>5 DEF At, Inside
<1>7. \A w \in Callers : At(w, "lanes") => w = c
  BY <1>5 DEF At, Inside
<1>8. OwnRead'
  BY <1>6 DEF OwnRead
<1>9. \A m \in 1..Len(reads) : m \in Reads
  BY ReadAssumption DEF LaneInv, LaneTypes, Reads
<1>10. NoStrayHalf'
  BY <1>1, <1>2, <1>7, <1>9 DEF LaneInv, NoStrayHalf
<1>. QED BY <1>2, <1>3, <1>8, <1>10 DEF LaneInv

\* A read that begins has nothing on a socket and no answer yet.
LEMMA ReadBegun ==
  ASSUME LaneInv, CallerInv, NEW c \in Callers, At(c, "route"), Begin(Key(c)),
         read' = [read EXCEPT ![c] = Len(reads) + 1],
         caller'[c].at = "lanes", caller'[c].key = caller[c].key,
         \A w \in Callers : w # c => caller'[w] = caller[w]
  PROVE  LaneInv'
<1>1. /\ reads \in Seq(Windows) /\ Len(reads) \in Nat /\ Len(reads) + 1 \in Reads
      /\ Key(c) \in Windows /\ Sides = {1, 2}
  <2>1. Key(c) \in Windows
    BY DEF CallerInv, Flights, At
  <2>2. Len(reads) < MaxReads
    BY DEF Begin
  <2>. QED BY <2>1, <2>2, ReadAssumption DEF LaneInv, LaneTypes, Reads, Sides
<1>2. PICK n \in Reads : n = Len(reads) + 1
  BY <1>1
<1>3. /\ reads' = Append(reads, Key(c)) /\ reads' \in Seq(Windows) /\ Len(reads') = n
      /\ \A m \in 1..Len(reads) : reads'[m] = reads[m] /\ m \in 1..n /\ m \in Reads
      /\ reads'[n] = Key(c) /\ Len(reads') <= MaxReads
  <2>1. reads' = Append(reads, Key(c))
    BY DEF Begin
  <2>2. /\ Append(reads, Key(c)) \in Seq(Windows) /\ Len(Append(reads, Key(c))) = Len(reads) + 1
        /\ \A m \in 1..Len(reads) : Append(reads, Key(c))[m] = reads[m]
        /\ Append(reads, Key(c))[Len(reads) + 1] = Key(c)
    BY <1>1
  <2>3. \A m \in 1..Len(reads) : m \in 1..n /\ m \in Reads
    BY <1>1, <1>2, ReadAssumption DEF Reads
  <2>4. n <= MaxReads
    BY ReadAssumption DEF Reads
  <2>. QED BY <1>2, <2>1, <2>2, <2>3, <2>4
<1>4. \A i \in Sides : lane[n][i] \in LaneStates /\ lane[n][i].at = "none"
  BY <1>1, <1>2 DEF LaneInv, LaneTypes, FramesTrue
<1>5. PICK row \in [Sides -> LaneStates] :
        /\ lane' = [lane EXCEPT ![n] = row]
        /\ \A i \in Sides : row[i].at # "ok"
  <2>1. \A i \in Sides, x \in {"queued", "lock"} :
          [lane[n][i] EXCEPT !.at = x] \in LaneStates /\ [lane[n][i] EXCEPT !.at = x].at = x
    BY <1>4 DEF LaneStates
  <2>2. CASE Key(c) \in SplitKeys
    <3>1. lane' = [lane EXCEPT ![n] = [i \in Sides |-> [lane[n][i] EXCEPT !.at = "queued"]]]
      BY <1>2, <2>2 DEF Begin
    <3>2. [i \in Sides |-> [lane[n][i] EXCEPT !.at = "queued"]] \in [Sides -> LaneStates]
      BY <2>1
    <3>3. \A i \in Sides : [j \in Sides |-> [lane[n][j] EXCEPT !.at = "queued"]][i].at # "ok"
      BY <2>1
    <3>. QED BY <3>1, <3>2, <3>3
  <2>3. CASE Key(c) \notin SplitKeys
    <3>1. lane' = [lane EXCEPT ![n] = [lane[n] EXCEPT ![1] = [lane[n][1] EXCEPT !.at = "lock"]]]
      BY <1>2, <2>3 DEF Begin
    <3>2. PICK x : x = [lane[n][1] EXCEPT !.at = "lock"]
      OBVIOUS
    <3>3. x \in LaneStates /\ x.at = "lock" /\ 1 \in Sides
      BY <1>1, <2>1, <3>2
    <3>4. lane[n] \in [Sides -> LaneStates]
      BY DEF LaneInv, LaneTypes
    <3>5. [lane[n] EXCEPT ![1] = x] \in [Sides -> LaneStates]
      BY <3>3, <3>4
    <3>6. \A i \in Sides : [lane[n] EXCEPT ![1] = x][i].at # "ok"
      BY <1>4, <3>3, <3>4
    <3>. QED BY <3>1, <3>2, <3>5, <3>6
  <2>. QED BY <2>2, <2>3
<1>6. /\ lane'[n] = row /\ \A m \in Reads : m # n => lane'[m] = lane[m]
      /\ LaneTypes'
  <2>1. lane'[n] = row /\ \A m \in Reads : m # n => lane'[m] = lane[m]
    BY <1>5 DEF LaneInv, LaneTypes
  <2>2. lane' \in [Reads -> [Sides -> LaneStates]]
    BY <1>5 DEF LaneInv, LaneTypes
  <2>3. UNCHANGED <<sock, rev, late>>
    BY DEF Begin
  <2>. QED BY <1>3, <2>1, <2>2, <2>3 DEF LaneInv, LaneTypes
<1>7. UNCHANGED <<sock, rev, late>>
  BY DEF Begin
<1>8. FramesTrue'
  <2>1. \A i \in Sides : \A j \in 1..Len(sock[i].wire) :
          /\ sock[i].wire[j].read \in 1..Len(reads')
          /\ sock[i].wire[j].frame.key = reads'[sock[i].wire[j].read]
          /\ sock[i].wire[j].frame.side = i
    <3>1. \A i \in Sides : \A j \in 1..Len(sock[i].wire) :
            /\ sock[i].wire[j].read \in 1..Len(reads)
            /\ sock[i].wire[j].frame.key = reads[sock[i].wire[j].read]
            /\ sock[i].wire[j].frame.side = i
      BY DEF LaneInv, FramesTrue, AnswerTrue
    <3>. QED BY ONLY <1>3, <3>1
  <2>2. \A m \in Reads, i \in Sides : lane'[m][i].at = "ok" =>
          m \in 1..Len(reads') /\ lane'[m][i].got.key = reads'[m] /\ lane'[m][i].got.side = i
    <3>1. \A m \in Reads, i \in Sides : lane'[m][i].at = "ok" => m # n /\ lane'[m][i] = lane[m][i]
      BY <1>5, <1>6
    <3>2. \A m \in Reads, i \in Sides : lane[m][i].at = "ok" =>
            m \in 1..Len(reads) /\ lane[m][i].got.key = reads[m] /\ lane[m][i].got.side = i
      BY DEF LaneInv, FramesTrue
    <3>. QED BY <1>3, <3>1, <3>2
  <2>3. \A m \in Reads, i \in Sides : m > Len(reads') => lane'[m][i].at = "none"
    <3>1. \A m \in Reads : m > Len(reads') => m # n /\ m > Len(reads)
      BY <1>1, <1>2, <1>3 DEF Reads
    <3>2. \A m \in Reads, i \in Sides : m > Len(reads) => lane[m][i].at = "none"
      BY DEF LaneInv, FramesTrue
    <3>. QED BY ONLY <1>6, <3>1, <3>2
  <2>. QED BY <1>7, <2>1, <2>2, <2>3 DEF FramesTrue, AnswerTrue
<1>9. Fresh(n)'
  <2>1. \A i \in Sides : \A j \in 1..Len(sock[i].wire) : sock[i].wire[j].read # n
    <3>1. \A m \in 1..Len(reads) : m # n
      BY <1>1, <1>2
    <3>. QED BY <3>1 DEF LaneInv, FramesTrue, AnswerTrue
  <2>. QED BY <1>5, <1>6, <1>7, <2>1 DEF Fresh
<1>10. \A w \in Callers : w # c => ~At(w, "lanes") /\ ~At(w, "lanes")'
  BY AtMostOne DEF CallerInv, At, Inside
<1>11. read' \in [Callers -> Nat] /\ read'[c] = n
  BY <1>1, <1>2 DEF LaneInv
<1>12. OwnRead'
  <2>1. At(c, "lanes")' /\ read'[c] \in 1..Len(reads') /\ reads'[read'[c]] = caller'[c].key
    BY <1>1, <1>2, <1>3, <1>11 DEF At, Key
  <2>. QED BY <1>9, <1>10, <1>11, <2>1 DEF OwnRead, Key
<1>13. NoStrayHalf'
  <2>1. At(c, "lanes")'
    BY DEF At
  <2>2. \A m \in 1..Len(reads') : m \in Reads /\ (m # n => m \in 1..Len(reads))
    BY <1>1, <1>2, <1>3 DEF Reads
  <2>3. ~At(c, "lanes")
    BY DEF At
  <2>. QED BY <1>6, <1>7, <1>10, <1>11, <2>1, <2>2, <2>3 DEF LaneInv, NoStrayHalf
<1>. QED BY <1>6, <1>8, <1>11, <1>12, <1>13 DEF LaneInv

\* Every way of leaving the lanes empties them, or leaves only what is running.
LEMMA LanesLeft ==
  ASSUME LaneInv, CallerInv, NEW c \in Callers, Collect(c) \/ FallBack(c),
         ~At(c, "lanes")', \A w \in Callers : w # c => caller'[w] = caller[w]
  PROVE  LaneInv'
<1>1. /\ At(c, "lanes") /\ UNCHANGED <<reads, sock, rev, late, read>>
      /\ \/ lane' = [lane EXCEPT ![read[c]] = [i \in Sides |-> NoLane]]
         \/ lane' = [lane EXCEPT ![read[c]] =
              [i \in Sides |-> IF lane[read[c]][i].at = "queued"
                               THEN [lane[read[c]][i] EXCEPT !.at = "canceled"]
                               ELSE lane[read[c]][i]]]
         \/ read[c] \in late /\ UNCHANGED lane
  BY DEF Collect, FallBack, Decline, GiveUp, readVars
<1>2. read[c] \in Reads /\ lane[read[c]] \in [Sides -> LaneStates]
  BY <1>1, ReadAssumption DEF LaneInv, LaneTypes, OwnRead, Reads
<1>3. \A i \in Sides : /\ lane[read[c]][i] \in LaneStates
                       /\ [lane[read[c]][i] EXCEPT !.at = "canceled"] \in LaneStates
                       /\ [lane[read[c]][i] EXCEPT !.at = "canceled"].at = "canceled"
  BY <1>2 DEF LaneStates
<1>4. NoLane \in LaneStates /\ NoLane.at = "none"
  BY DEF NoLane, LaneStates, NoFrame, FrameSet, None
<1>5. PICK row \in [Sides -> LaneStates] :
        /\ lane' = [lane EXCEPT ![read[c]] = row]
        /\ \A i \in Sides : /\ row[i].at = "queued" => read[c] \in late
                            /\ row[i].at = "ok" => row[i] = lane[read[c]][i]
  <2>1. CASE lane' = [lane EXCEPT ![read[c]] = [i \in Sides |-> NoLane]]
    <3>1. [i \in Sides |-> NoLane] \in [Sides -> LaneStates]
      BY <1>4
    <3>2. \A i \in Sides : [j \in Sides |-> NoLane][i] = NoLane
      OBVIOUS
    <3>. QED BY <1>4, <2>1, <3>1, <3>2
  <2>2. CASE lane' = [lane EXCEPT ![read[c]] =
              [i \in Sides |-> IF lane[read[c]][i].at = "queued"
                               THEN [lane[read[c]][i] EXCEPT !.at = "canceled"]
                               ELSE lane[read[c]][i]]]
    <3>1. PICK row : row = [i \in Sides |-> IF lane[read[c]][i].at = "queued"
                               THEN [lane[read[c]][i] EXCEPT !.at = "canceled"]
                               ELSE lane[read[c]][i]]
      OBVIOUS
    <3>2. row \in [Sides -> LaneStates]
      BY <1>3, <3>1
    <3>3. \A i \in Sides : (row[i] = lane[read[c]][i] /\ row[i].at # "queued") \/ row[i].at = "canceled"
      BY <1>3, <3>1
    <3>. QED BY <2>2, <3>1, <3>2, <3>3
  <2>3. CASE read[c] \in late /\ UNCHANGED lane
    <3>1. lane' = [lane EXCEPT ![read[c]] = lane[read[c]]]
      BY <1>2, <2>3 DEF LaneInv, LaneTypes
    <3>. QED BY <1>2, <2>3, <3>1
  <2>. QED BY <1>1, <2>1, <2>2, <2>3
<1>. QED BY <1>1, <1>5, LaneLeft

-----------------------------------------------------------------------------
(* Whole answers.                                                          *)

\* One frame for each half is a whole answer, whose halves are told apart.
Single(data) == \A g, h \in data : g.side = h.side => g = h

LEMMA WholeHalves ==
  ASSUME NEW k, NEW f, NEW data, data = {f[i] : i \in HalvesOf(k)},
         \A i \in HalvesOf(k) : f[i].key = k /\ f[i].side = i
  PROVE  /\ {<<g.key, g.side>> : g \in data} = {k} \X HalvesOf(k)
         /\ Cardinality(data) = Cardinality(HalvesOf(k))
         /\ Single(data)
<1>1. {<<g.key, g.side>> : g \in data} = {k} \X HalvesOf(k)
  <2>1. {<<g.key, g.side>> : g \in data} = {<<k, i>> : i \in HalvesOf(k)}
    OBVIOUS
  <2>. QED BY <2>1
<1>2. Single(data)
  BY DEF Single
<1>3. Cardinality(data) = Cardinality(HalvesOf(k))
  <2>1. CASE k \in SplitKeys
    <3>1. HalvesOf(k) = {1, 2} /\ data = {f[1], f[2]} /\ f[1] # f[2]
      <4>1. HalvesOf(k) = {1, 2}
        BY <2>1 DEF HalvesOf, Sides
      <4>2. data = {f[1], f[2]} /\ f[1].side = 1 /\ f[2].side = 2
        BY <4>1
      <4>. QED BY <4>1, <4>2
    <3>2. ASSUME NEW x, NEW y, x # y PROVE Cardinality({x, y}) = 2
      <4>1. IsFiniteSet({x}) /\ Cardinality({x}) = 1 /\ y \notin {x}
        BY <3>2, FS_Singleton
      <4>2. {x, y} = {x} \cup {y}
        OBVIOUS
      <4>3. Cardinality({x} \cup {y}) = Cardinality({x}) + 1
        BY <4>1, FS_AddElement
      <4>4. Cardinality({x} \cup {y}) = 2
        BY <4>1, <4>3, SMTT(30)
      <4>. QED BY <4>2, <4>4, Zenon
    <3>3. Cardinality({f[1], f[2]}) = 2
      BY <3>1, <3>2, Zenon
    <3>4. 1 # 2
      OBVIOUS
    <3>5. Cardinality({1, 2}) = 2
      BY <3>2, <3>4, Zenon
    <3>. QED BY <3>1, <3>3, <3>5, Zenon
  <2>2. CASE k \notin SplitKeys
    <3>1. HalvesOf(k) = {1} /\ data = {f[1]}
      BY <2>2 DEF HalvesOf
    <3>. QED BY <3>1, FS_Singleton
  <2>. QED BY <2>1, <2>2
<1>. QED BY <1>1, <1>2, <1>3

-----------------------------------------------------------------------------
(* The data a file, the local cache and a load hold.                       *)

DataTypes ==
  /\ file \in [Windows -> [state : {"none", "fresh", "bad"}, data : SUBSET FrameSet]]
  /\ local \in [Windows -> [Sides -> Nat]]
  /\ FetchTypes

FileOk(k) ==
  /\ file[k].state = "none" => file[k].data = {}
  /\ IsWhole(k, file[k]) /\ Single(file[k].data)
  /\ \A g \in file[k].data : g.rev <= rev

\* What a load has in hand is whole; it is the data as it is now while the
\* caller is in the lane, and later than the file it is about to replace.
HandOk(c) ==
  caller[c].at \in {"write", "store", "size"} =>
    /\ fetched[c].state = "value" /\ IsWhole(Key(c), fetched[c]) /\ Single(fetched[c].data)
    /\ \A g \in fetched[c].data : g.rev <= rev
    /\ At(c, "write") => \A g \in fetched[c].data : g.rev = rev
    /\ At(c, "store") => \A g \in file[Key(c)].data, h \in fetched[c].data : g.rev <= h.rev

FutureOk(c) == IsWhole(Key(c), future[c])

DataInv ==
  /\ DataTypes
  /\ \A k \in Windows : FileOk(k)
  /\ \A k \in Windows, i \in Sides : local[k][i] <= rev
  /\ \A c \in Callers : HandOk(c) /\ FutureOk(c)

\* What DataNeverGoesBack says of a step.
DataKept ==
  /\ \A k \in Windows : Later(file[k], file'[k])
  /\ \A k \in Windows, i \in Sides : local[k][i] <= local'[k][i]

LEMMA DataInit == Init => DataInv
<1>. SUFFICES ASSUME Init PROVE DataInv
  OBVIOUS
<1>1. /\ file = [k \in Windows |-> [state |-> "none", data |-> {}]] /\ rev = 0
      /\ local = [k \in Windows |-> [i \in Sides |-> 0]]
      /\ caller = [c \in Callers |-> [at |-> "idle", key |-> None, waits |-> None]]
      /\ future = [c \in Callers |-> [state |-> "open", data |-> {}]]
      /\ fetched = [c \in Callers |-> [state |-> "open", data |-> {}]]
  BY DEF Init, CacheInit, FormulaInit, Idle, Open, NoFile
<1>2. DataTypes
  BY <1>1 DEF DataTypes, FetchTypes
<1>3. \A k \in Windows : FileOk(k)
  BY <1>1 DEF FileOk, IsWhole, Single
<1>4. \A c \in Callers : HandOk(c) /\ FutureOk(c)
  BY <1>1 DEF HandOk, FutureOk, IsWhole
<1>5. \A k \in Windows, i \in Sides : local[k][i] <= rev
  BY <1>1
<1>. QED BY <1>2, <1>3, <1>4, <1>5 DEF DataInv

\* Files that are dropped, spoilt or left alone.
LEMMA FilesStay ==
  ASSUME DataInv, rev \in Nat, rev' \in Nat, rev <= rev',
         \A k \in Windows :
           \/ file'[k] = NoFile
           \/ file'[k].data = file[k].data /\ file'[k].state = file[k].state
           \/ file'[k].data = file[k].data /\ file'[k].state = "bad" /\ file[k].state = "fresh"
  PROVE  \A k \in Windows : /\ FileOk(k)' /\ Later(file[k], file'[k])
                            /\ file'[k].data \subseteq file[k].data
<1>. TAKE k \in Windows
<1>1. FileOk(k) /\ file[k].data \subseteq FrameSet
  BY DEF DataInv, DataTypes
<1>2. CASE file'[k] = NoFile
  BY <1>2 DEF NoFile, FileOk, IsWhole, Single, Later
<1>3. CASE /\ file'[k].data = file[k].data
           /\ file'[k].state = file[k].state \/ (file'[k].state = "bad" /\ file[k].state = "fresh")
  <2>1. IsWhole(k, file'[k])
    <3>1. IsWhole(k, file[k])
      BY <1>1 DEF FileOk
    <3>. QED BY <1>3, <3>1 DEF IsWhole
  <2>2. \A g \in file[k].data : g.rev <= rev' /\ g.rev \in Nat
    BY <1>1 DEF FileOk, FrameSet
  <2>3. Single(file[k].data) /\ (file'[k].state = "none" => file[k].data = {})
    BY <1>1, <1>3 DEF FileOk
  <2>4. FileOk(k)'
    BY <1>3, <2>1, <2>2, <2>3 DEF FileOk
  <2>5. Later(file[k], file'[k])
    BY <1>3, <2>2, <2>3 DEF Later, Single
  <2>. QED BY <1>3, <2>4, <2>5
<1>. QED BY <1>2, <1>3

\* A step of one caller, or of none.
LEMMA DataMoves ==
  ASSUME DataInv, CallerInv, CallerInv', NEW c, rev \in Nat, rev' \in Nat, rev <= rev',
         DataTypes', \A k \in Windows : FileOk(k)',
         \A k \in Windows, i \in Sides : local'[k][i] <= rev',
         \A w \in Callers : At(w, "write") => rev' = rev,
         \A w \in Callers : w # c =>
           /\ caller'[w] = caller[w] \/ caller'[w].at = "idle"
           /\ fetched'[w] = fetched[w] /\ future'[w] = future[w]
           /\ Loading(w) => file'[Key(w)].data \subseteq file[Key(w)].data,
         c \in Callers => HandOk(c)' /\ FutureOk(c)'
  PROVE  DataInv'
<1>1. ASSUME NEW w \in Callers, w # c PROVE HandOk(w)' /\ FutureOk(w)'
  <2>1. HandOk(w) /\ FutureOk(w) /\ fetched[w].data \subseteq FrameSet
    BY DEF DataInv, DataTypes, FetchTypes
  <2>2. CASE caller'[w].at = "idle"
    <3>1. future'[w].state = "open"
      BY <2>2 DEF CallerInv, Flights, At
    <3>. QED BY <2>2, <3>1 DEF HandOk, FutureOk, IsWhole
  <2>3. CASE caller'[w] = caller[w]
    <3>1. FutureOk(w)'
      BY <1>1, <2>1, <2>3 DEF FutureOk, Key, IsWhole
    <3>2. ASSUME caller[w].at \in {"write", "store", "size"} PROVE HandOk(w)'
      <4>1. /\ fetched[w].state = "value" /\ IsWhole(Key(w), fetched[w]) /\ Single(fetched[w].data)
            /\ \A g \in fetched[w].data : g.rev <= rev
            /\ At(w, "write") => \A g \in fetched[w].data : g.rev = rev
            /\ At(w, "store") => \A g \in file[Key(w)].data, h \in fetched[w].data : g.rev <= h.rev
        BY <2>1, <3>2 DEF HandOk
      <4>2. /\ fetched'[w] = fetched[w] /\ file'[Key(w)].data \subseteq file[Key(w)].data
            /\ Key(w)' = Key(w)
        BY <1>1, <2>3, <3>2 DEF Loading, Key
      <4>3. \A g \in fetched[w].data : g.rev <= rev'
        BY <2>1, <4>1 DEF FrameSet
      <4>4. /\ At(w, "write")' => \A g \in fetched[w].data : g.rev = rev'
            /\ At(w, "store")' => \A g \in file'[Key(w)'].data, h \in fetched[w].data : g.rev <= h.rev
        BY <2>3, <4>1, <4>2 DEF At
      <4>5. IsWhole(Key(w), fetched[w])' /\ Single(fetched'[w].data)
        BY <4>1, <4>2 DEF IsWhole
      <4>. QED BY <4>1, <4>2, <4>3, <4>4, <4>5 DEF HandOk
    <3>. QED BY <2>3, <3>1, <3>2 DEF HandOk
  <2>. QED BY <1>1, <2>2, <2>3
<1>2. \A w \in Callers : HandOk(w)' /\ FutureOk(w)'
  BY <1>1
<1>. QED BY <1>2 DEF DataInv

LEMMA FilesAlone ==
  ASSUME DataInv, CallerInv, CallerInv', NEW c, rev \in Nat, rev' \in Nat, rev <= rev',
         UNCHANGED <<file, local>>, FetchTypes',
         \A w \in Callers : At(w, "write") => rev' = rev,
         \A w \in Callers : w # c =>
           /\ caller'[w] = caller[w] \/ caller'[w].at = "idle"
           /\ fetched'[w] = fetched[w] /\ future'[w] = future[w],
         c \in Callers => HandOk(c)' /\ FutureOk(c)'
  PROVE  DataInv' /\ DataKept
<1>1. \A k \in Windows : FileOk(k)' /\ Later(file[k], file'[k])
  BY FilesStay
<1>2. DataTypes' /\ \A k \in Windows, i \in Sides : local[k][i] \in Nat /\ local[k][i] <= rev
  BY DEF DataInv, DataTypes
<1>3. \A k \in Windows, i \in Sides : local'[k][i] <= rev' /\ local[k][i] <= local'[k][i]
  BY <1>2
<1>4. DataInv'
  BY <1>1, <1>2, <1>3, DataMoves
<1>. QED BY <1>1, <1>3, <1>4 DEF DataKept

\* The steps of a load that bring it nothing to store.
LEMMA RunsOn ==
  ASSUME DataInv, LaneInv, CallerInv, NEW c \in Callers,
         EnterLane(c) \/ Route(c) \/ FallBack(c)
  PROVE  DataInv' /\ DataKept
<1>1. CallerInv' /\ \A w \in Callers : w # c => caller'[w] = caller[w]
  BY LoadGoesOn
<1>2. /\ UNCHANGED <<file, local, future, fetched>>
      /\ caller[c].at \in {"load", "route", "lanes"}
      /\ \E to \in {"route", "lanes", "rpc"} : Go(c, to)
      /\ \/ rev' = rev
         \/ rev' = rev + 1 /\ turn = None
  BY DEF EnterLane, Route, FallBack, Begin, Decline, GiveUp, readVars, formulaVars, At
<1>3. rev \in Nat /\ rev' \in Nat /\ rev <= rev'
  BY <1>2 DEF LaneInv, LaneTypes
<1>4. caller'[c].at \in {"route", "lanes", "rpc"} /\ caller'[c].key = caller[c].key
  BY <1>2, Moved DEF CallerInv, CallerTypes
<1>5. \A w \in Callers : At(w, "write") => rev' = rev
  BY <1>2, AskAssumption DEF CallerInv, LaneHeld, At, Inside
<1>6. HandOk(c)' /\ FutureOk(c)' /\ FetchTypes'
  BY <1>2, <1>4 DEF HandOk, FutureOk, DataInv, DataTypes, FetchTypes, IsWhole, Key
<1>. QED BY <1>1, <1>2, <1>3, <1>5, <1>6, FilesAlone

\* A load that ends with an error.
LEMMA EndsEmpty ==
  ASSUME DataInv, LaneInv, CallerInv, NEW c \in Callers, LaneWaitEnds(c) \/ RpcFails(c)
  PROVE  DataInv' /\ DataKept
<1>1. /\ CallerInv' /\ caller'[c].key = caller[c].key /\ caller'[c].at \in {"size", "land"}
      /\ \A w \in Callers : w # c => caller'[w] = caller[w] \/ caller'[w].at = "idle"
  <2>1. FetchTypes /\ (At(c, "store") => fetched[c].state = "value")
    BY DEF DataInv, DataTypes, HandOk, At
  <2>. QED BY <2>1, LoadEnds
<1>2. /\ UNCHANGED <<file, local, fetched, rev>>
      /\ Resolve(c, [state |-> "error", data |-> {}])
  BY DEF LaneWaitEnds, RpcFails, LoadFails, readVars, formulaVars
<1>3. /\ future' = [future EXCEPT ![c] = [state |-> "error", data |-> {}]]
      /\ caller'[c] = [caller[c] EXCEPT !.at = "land"] \/ caller'[c].at = "idle"
  BY <1>2 DEF Resolve, Idle
<1>4. future'[c].state = "error" /\ \A w \in Callers : w # c => future'[w] = future[w]
  BY <1>3 DEF CallerInv, CallerTypes
<1>5. caller'[c].at # "size"
  BY <1>3 DEF CallerInv, CallerTypes
<1>6. HandOk(c)' /\ FutureOk(c)' /\ FetchTypes'
  BY <1>1, <1>2, <1>4, <1>5 DEF HandOk, FutureOk, DataInv, DataTypes, FetchTypes, IsWhole
<1>7. rev \in Nat /\ rev' \in Nat /\ rev <= rev'
  BY <1>2 DEF LaneInv, LaneTypes
<1>. QED BY <1>1, <1>2, <1>4, <1>6, <1>7, FilesAlone

\* What a load brings is whole, and the data as it is now.
LEMMA BringsWhole ==
  ASSUME DataInv, LaneInv, CallerInv, NEW c \in Callers, Collect(c) \/ RpcAnswers(c)
  PROVE  DataInv' /\ DataKept
<1>1. CallerInv' /\ \A w \in Callers : w # c => caller'[w] = caller[w]
  BY LoadGoesOn
<1>2. /\ UNCHANGED <<file, local, future, rev>> /\ Go(c, "write")
      /\ caller[c].at \in {"lanes", "rpc"} /\ Key(c) \in Windows /\ rev \in Nat
  <2>1. caller[c].at \in {"lanes", "rpc"} => Key(c) \in Windows
    BY DEF CallerInv, Flights
  <2>. QED BY <2>1 DEF Collect, RpcAnswers, formulaVars, At, LaneInv, LaneTypes
<1>3. PICK f, data :
        /\ fetched' = [fetched EXCEPT ![c] = [state |-> "value", data |-> data]]
        /\ data = {f[i] : i \in HalvesOf(Key(c))}
        /\ \A i \in HalvesOf(Key(c)) : /\ f[i] \in FrameSet /\ f[i].rev = rev
                                       /\ f[i].key = Key(c) /\ f[i].side = i
  <2>1. HalvesOf(Key(c)) \subseteq Sides
    BY DEF HalvesOf, Sides
  <2>2. CASE Collect(c)
    <3>1. /\ At(c, "lanes") /\ Whole(read[c])
          /\ fetched' = [fetched EXCEPT ![c] = [state |-> "value", data |-> Frames(read[c])]]
      BY <2>2 DEF Collect
    <3>2. /\ read[c] \in 1..Len(reads) /\ reads[read[c]] = Key(c) /\ Fresh(read[c])
          /\ read[c] \in Reads
      BY <3>1, ReadAssumption DEF LaneInv, OwnRead, LaneTypes, Reads
    <3>3. Lanes(read[c]) = HalvesOf(Key(c))
      BY <3>2 DEF Lanes, Split, HalvesOf
    <3>4. \A i \in HalvesOf(Key(c)) :
            /\ lane[read[c]][i] \in LaneStates /\ lane[read[c]][i].got.rev = rev
            /\ lane[read[c]][i].got.key = Key(c) /\ lane[read[c]][i].got.side = i
      BY <2>1, <3>1, <3>2, <3>3 DEF Whole, Fresh, LaneInv, LaneTypes, FramesTrue
    <3>5. PICK f : f = [i \in HalvesOf(Key(c)) |-> lane[read[c]][i].got]
      OBVIOUS
    <3>6. Frames(read[c]) = {f[i] : i \in HalvesOf(Key(c))}
      BY <3>3, <3>5 DEF Frames
    <3>7. \A i \in HalvesOf(Key(c)) : /\ f[i] \in FrameSet /\ f[i].rev = rev
                                       /\ f[i].key = Key(c) /\ f[i].side = i
      BY <3>4, <3>5 DEF LaneStates
    <3>. QED BY <3>1, <3>6, <3>7
  <2>3. CASE RpcAnswers(c)
    <3>1. PICK f : f = [i \in HalvesOf(Key(c)) |-> [key |-> Key(c), side |-> i, rev |-> rev]]
      OBVIOUS
    <3>2. {[key |-> Key(c), side |-> i, rev |-> rev] : i \in HalvesOf(Key(c))} =
            {f[i] : i \in HalvesOf(Key(c))}
      BY <3>1
    <3>3. \A i \in HalvesOf(Key(c)) : /\ f[i] \in FrameSet /\ f[i].rev = rev
                                       /\ f[i].key = Key(c) /\ f[i].side = i
      BY <1>2, <2>1, <3>1 DEF FrameSet, Sides
    <3>. QED BY <2>3, <3>2, <3>3 DEF RpcAnswers
  <2>. QED BY <2>2, <2>3
<1>4. /\ {<<g.key, g.side>> : g \in data} = {Key(c)} \X HalvesOf(Key(c))
      /\ Cardinality(data) = Cardinality(HalvesOf(Key(c))) /\ Single(data)
  BY <1>3, WholeHalves
<1>5. data \subseteq FrameSet /\ \A g \in data : g.rev = rev
  BY <1>3
<1>6. /\ fetched'[c] = [state |-> "value", data |-> data] /\ FetchTypes'
      /\ \A w \in Callers : w # c => fetched'[w] = fetched[w]
  BY <1>3, <1>5 DEF DataInv, DataTypes, FetchTypes
<1>7. caller'[c].at = "write" /\ caller'[c].key = caller[c].key
  BY <1>2, Moved DEF CallerInv, CallerTypes
<1>8. IsWhole(Key(c), fetched'[c])
  BY <1>4, <1>6 DEF IsWhole
<1>9. \A g \in data : g.rev <= rev
  BY <1>2, <1>5
<1>10. HandOk(c)'
  BY <1>2, <1>4, <1>5, <1>6, <1>7, <1>8, <1>9 DEF HandOk, At, Key, IsWhole
<1>11. FutureOk(c)'
  BY <1>2, <1>7 DEF DataInv, FutureOk, Key, IsWhole
<1>12. rev' \in Nat /\ rev <= rev' /\ \A w \in Callers : At(w, "write") => rev' = rev
  BY <1>2
<1>. QED BY <1>1, <1>2, <1>6, <1>10, <1>11, <1>12, FilesAlone

\* The write-through: the local cache takes the data as it is now.
LEMMA WritesThrough ==
  ASSUME DataInv, LaneInv, CallerInv, NEW c \in Callers, WriteThrough(c)
  PROVE  DataInv' /\ DataKept
<1>1. CallerInv' /\ \A w \in Callers : w # c => caller'[w] = caller[w]
  BY LoadGoesOn
<1>2. /\ UNCHANGED <<file, future, fetched, rev>> /\ Go(c, "store") /\ At(c, "write")
      /\ Key(c) \in Windows /\ rev \in Nat
  <2>1. At(c, "write") => Key(c) \in Windows
    BY DEF CallerInv, Flights, At
  <2>. QED BY <2>1 DEF WriteThrough, LaneInv, LaneTypes
<1>3. /\ fetched[c].state = "value" /\ IsWhole(Key(c), fetched[c]) /\ Single(fetched[c].data)
      /\ \A g \in fetched[c].data : g.rev = rev
  BY <1>2 DEF DataInv, HandOk, At
<1>4. PICK frames \in SUBSET fetched[c].data :
        local' = [local EXCEPT ![Key(c)] = Written(local[Key(c)], frames)]
  BY DEF WriteThrough
<1>5. ASSUME NEW k \in Windows, NEW i \in Sides
      PROVE  local[k][i] \in Nat /\ local[k][i] <= local'[k][i] /\ local'[k][i] <= rev
  <2>1. local[k][i] \in Nat /\ local[k][i] <= rev
    BY DEF DataInv, DataTypes
  <2>2. CASE k # Key(c)
    BY <1>2, <1>4, <2>1, <2>2 DEF DataInv, DataTypes
  <2>3. CASE k = Key(c)
    <3>1. local'[k][i] = IF \E g \in frames : g.side = i
                         THEN (CHOOSE g \in frames : g.side = i).rev ELSE local[k][i]
      BY <1>2, <1>4, <2>3 DEF Written, DataInv, DataTypes
    <3>2. CASE \E g \in frames : g.side = i
      <4>1. PICK h : h = CHOOSE g \in frames : g.side = i
        OBVIOUS
      <4>2. h \in frames
        BY <3>2, <4>1
      <4>3. h.rev = rev /\ local'[k][i] = h.rev
        BY <1>3, <3>1, <3>2, <4>1, <4>2
      <4>. QED BY <1>2, <2>1, <4>3
    <3>3. CASE ~\E g \in frames : g.side = i
      BY <1>2, <2>1, <3>1, <3>3
    <3>. QED BY <3>2, <3>3
  <2>. QED BY <2>1, <2>2, <2>3
<1>6. local' \in [Windows -> [Sides -> Nat]]
  <2>1. Written(local[Key(c)], frames) = [i \in Sides |-> Written(local[Key(c)], frames)[i]]
    BY DEF Written
  <2>2. local' = [k \in Windows |-> local'[k]]
    BY <1>4 DEF DataInv, DataTypes
  <2>3. \A k \in Windows : local'[k] = [i \in Sides |-> local'[k][i]]
    BY <1>2, <1>4, <2>1 DEF DataInv, DataTypes
  <2>4. \A k \in Windows, i \in Sides : local'[k][i] \in Nat
    <3>1. ASSUME NEW k \in Windows, NEW i \in Sides PROVE local'[k][i] \in Nat
      <4>1. CASE k # Key(c)
        BY <1>2, <1>4, <4>1 DEF DataInv, DataTypes
      <4>2. CASE k = Key(c)
        <5>1. local'[k][i] = IF \E g \in frames : g.side = i
                             THEN (CHOOSE g \in frames : g.side = i).rev ELSE local[k][i]
          BY <1>2, <1>4, <4>2 DEF Written, DataInv, DataTypes
        <5>2. \A h \in frames : h.rev = rev
          BY <1>3
        <5>3. local[k][i] \in Nat
          BY DEF DataInv, DataTypes
        <5>4. (\E g \in frames : g.side = i) => (CHOOSE g \in frames : g.side = i) \in frames
          OBVIOUS
        <5>. QED BY <1>2, <5>1, <5>2, <5>3, <5>4
      <4>. QED BY <4>1, <4>2
    <3>. QED BY <3>1
  <2>. QED BY <2>2, <2>3, <2>4
<1>7. \A k \in Windows : FileOk(k)' /\ Later(file[k], file'[k])
  BY <1>2, FilesStay
<1>8. caller'[c].at = "store" /\ caller'[c].key = caller[c].key
  BY <1>2, Moved DEF CallerInv, CallerTypes
<1>9. HandOk(c)'
  <2>1. \A g \in file[Key(c)].data : g.rev <= rev
    BY <1>2 DEF DataInv, FileOk
  <2>2. \A g \in file[Key(c)].data, h \in fetched[c].data : g.rev <= h.rev
    BY <1>3, <2>1
  <2>3. \A g \in fetched[c].data : g.rev <= rev
    BY <1>2, <1>3
  <2>. QED BY <1>2, <1>3, <1>8, <2>2, <2>3 DEF HandOk, At, Key, IsWhole
<1>10. FutureOk(c)'
  BY <1>2, <1>8 DEF DataInv, FutureOk, Key, IsWhole
<1>11. DataTypes' /\ rev' \in Nat /\ rev <= rev'
  BY <1>2, <1>6 DEF DataInv, DataTypes, FetchTypes
<1>12. DataInv'
  <2>1. \A k \in Windows, i \in Sides : local'[k][i] <= rev'
    BY <1>2, <1>5
  <2>2. \A w \in Callers : w # c =>
           /\ caller'[w] = caller[w] \/ caller'[w].at = "idle"
           /\ fetched'[w] = fetched[w] /\ future'[w] = future[w]
           /\ Loading(w) => file'[Key(w)].data \subseteq file[Key(w)].data
    BY <1>1, <1>2
  <2>. QED BY <1>1, <1>2, <1>7, <1>9, <1>10, <1>11, <2>1, <2>2, DataMoves
<1>. QED BY <1>5, <1>7, <1>12 DEF DataKept

\* The end of a load: the answer becomes the file, or goes to the waiters alone.
LEMMA Keeps ==
  ASSUME DataInv, LaneInv, CallerInv, NEW c \in Callers, KeepAnswer(c)
  PROVE  DataInv' /\ DataKept
<1>1. /\ CallerInv' /\ caller'[c].key = caller[c].key
      /\ \A w \in Callers : w # c => caller'[w] = caller[w] \/ caller'[w].at = "idle"
  <2>1. FetchTypes /\ (At(c, "store") => fetched[c].state = "value")
    BY DEF DataInv, DataTypes, HandOk, At
  <2>. QED BY <2>1, LoadEnds
<1>2. /\ UNCHANGED <<local, rev>> /\ At(c, "store") /\ Key(c) \in Windows /\ rev \in Nat
      /\ Loading(c)
  <2>1. At(c, "store") => Key(c) \in Windows
    BY DEF CallerInv, Flights, At
  <2>. QED BY <2>1 DEF KeepAnswer, LaneInv, LaneTypes, Loading, At
<1>3. /\ fetched[c].state = "value" /\ IsWhole(Key(c), fetched[c]) /\ Single(fetched[c].data)
      /\ \A g \in fetched[c].data : g.rev <= rev
      /\ \A g \in file[Key(c)].data, h \in fetched[c].data : g.rev <= h.rev
      /\ fetched[c].data \subseteq FrameSet
  BY <1>2 DEF DataInv, HandOk, At, DataTypes, FetchTypes
<1>4. CASE Store(c, fetched[c].data) /\ UNCHANGED fetched
  <2>1. /\ file' = [file EXCEPT ![Key(c)] = [state |-> "fresh", data |-> fetched[c].data]]
        /\ Go(c, "size") /\ UNCHANGED <<future, fetched>>
    BY <1>4 DEF Store
  <2>2. /\ file'[Key(c)] = [state |-> "fresh", data |-> fetched[c].data]
        /\ \A k \in Windows : k # Key(c) => file'[k] = file[k]
        /\ DataTypes'
    BY <1>2, <1>3, <2>1 DEF DataInv, DataTypes, FetchTypes
  <2>3. ASSUME NEW k \in Windows PROVE FileOk(k)' /\ Later(file[k], file'[k])
    <3>1. FileOk(k) /\ file[k].data \subseteq FrameSet
      BY DEF DataInv, DataTypes
    <3>2. CASE k = Key(c)
      <4>1. file'[k].state = "fresh" /\ file'[k].data = fetched[c].data
        BY <2>2, <3>2
      <4>2. IsWhole(k, file'[k])
        BY <1>3, <3>2, <4>1 DEF IsWhole
      <4>3. FileOk(k)'
        BY <1>2, <1>3, <4>1, <4>2 DEF FileOk
      <4>4. Later(file[k], file'[k])
        BY <1>3, <3>2, <4>1 DEF Later
      <4>. QED BY <4>3, <4>4
    <3>3. CASE k # Key(c)
      <4>1. file'[k] = file[k]
        BY <2>2, <3>3
      <4>2. FileOk(k)'
        BY <1>2, <3>1, <4>1 DEF FileOk
      <4>3. \A g \in file[k].data : g.rev \in Nat
        BY <3>1 DEF FrameSet
      <4>4. Later(file[k], file'[k])
        BY <3>1, <4>1, <4>3 DEF Later, FileOk, Single
      <4>. QED BY <4>2, <4>4
    <3>. QED BY <3>2, <3>3
  <2>4. caller'[c].at = "size"
    BY <2>1, Moved DEF CallerInv, CallerTypes
  <2>5. HandOk(c)' /\ FutureOk(c)'
    BY <1>1, <1>2, <1>3, <2>1, <2>4 DEF HandOk, FutureOk, DataInv, At, Key, IsWhole
  <2>6. \A w \in Callers : w # c =>
           /\ caller'[w] = caller[w] \/ caller'[w].at = "idle"
           /\ fetched'[w] = fetched[w] /\ future'[w] = future[w]
           /\ Loading(w) => file'[Key(w)].data \subseteq file[Key(w)].data
    <3>1. \A w \in Callers : w # c /\ Loading(w) => Key(w) # Key(c) /\ Key(w) \in Windows
      BY <1>2 DEF CallerInv, Flights, Loading
    <3>. QED BY <1>1, <2>1, <2>2, <3>1
  <2>7. \A k \in Windows, i \in Sides :
          local'[k][i] <= rev' /\ local[k][i] <= local'[k][i]
    BY <1>2 DEF DataInv, DataTypes
  <2>8. DataInv'
    BY <1>1, <1>2, <2>2, <2>3, <2>5, <2>6, <2>7, DataMoves
  <2>. QED BY <2>3, <2>7, <2>8 DEF DataKept
<1>5. CASE /\ Resolve(c, fetched[c]) \/ Resolve(c, [state |-> "error", data |-> {}])
           /\ fetched' = [fetched EXCEPT ![c] = Open] /\ UNCHANGED file
  <2>1. PICK f : /\ Resolve(c, f) /\ IsWhole(Key(c), f)
                 /\ f = fetched[c] \/ f = [state |-> "error", data |-> {}]
    <3>1. IsWhole(Key(c), [state |-> "error", data |-> {}])
      BY DEF IsWhole
    <3>. QED BY <1>3, <1>5, <3>1
  <2>2. future' = [future EXCEPT ![c] = f] /\ caller'[c] = [caller[c] EXCEPT !.at = "land"]
    <3>1. c \notin Waiters(c)
      BY <1>2 DEF Waiters, At
    <3>. QED BY <2>1, <3>1 DEF Resolve
  <2>3. /\ future'[c] = f /\ \A w \in Callers : w # c => future'[w] = future[w]
        /\ caller'[c].at = "land"
    BY <2>2 DEF CallerInv, CallerTypes
  <2>4. /\ FetchTypes' /\ \A w \in Callers : w # c => fetched'[w] = fetched[w]
    BY <1>5 DEF DataInv, DataTypes, FetchTypes, Open
  <2>5. HandOk(c)' /\ FutureOk(c)'
    BY <1>1, <2>1, <2>3 DEF HandOk, FutureOk, Key, IsWhole
  <2>6. rev' \in Nat /\ rev <= rev'
    BY <1>2
  <2>. QED BY <1>1, <1>2, <1>5, <2>3, <2>4, <2>5, <2>6, FilesAlone
<1>. QED BY <1>4, <1>5 DEF KeepAnswer

\* The stored file is measured; it, or any other, may be gone.
LEMMA Measures ==
  ASSUME DataInv, LaneInv, CallerInv, NEW c \in Callers, Measure(c, fetched[c].data),
         fetched' = [fetched EXCEPT ![c] = Open], UNCHANGED <<turn, local, rev>>
  PROVE  DataInv' /\ DataKept
<1>1. /\ CallerInv' /\ caller'[c].key = caller[c].key
      /\ \A w \in Callers : w # c => caller'[w] = caller[w] \/ caller'[w].at = "idle"
  <2>1. FetchTypes /\ (At(c, "store") => fetched[c].state = "value")
    BY DEF DataInv, DataTypes, HandOk, At
  <2>. QED BY <2>1, LoadEnds
<1>2. /\ At(c, "size") /\ Key(c) \in Windows /\ rev \in Nat
      /\ IsWhole(Key(c), fetched[c]) /\ fetched[c].state = "value"
  <2>1. At(c, "size") => Key(c) \in Windows
    BY DEF CallerInv, Flights, At
  <2>. QED BY <2>1 DEF Measure, DataInv, HandOk, At, LaneInv, LaneTypes
<1>3. PICK f : /\ Resolve(c, f) /\ IsWhole(Key(c), f)
               /\ f = [state |-> "error", data |-> {}] \/ f = [state |-> "value", data |-> fetched[c].data]
  <2>1. /\ IsWhole(Key(c), [state |-> "error", data |-> {}])
        /\ IsWhole(Key(c), [state |-> "value", data |-> fetched[c].data])
    BY <1>2 DEF IsWhole
  <2>. QED BY <2>1 DEF Measure
<1>4. future' = [future EXCEPT ![c] = f] /\ caller'[c] = [caller[c] EXCEPT !.at = "land"]
  <2>1. c \notin Waiters(c)
    BY <1>2 DEF Waiters, At
  <2>. QED BY <1>3, <2>1 DEF Resolve
<1>5. /\ future'[c] = f /\ \A w \in Callers : w # c => future'[w] = future[w]
      /\ caller'[c].at = "land"
  BY <1>4 DEF CallerInv, CallerTypes
<1>6. FetchTypes' /\ \A w \in Callers : w # c => fetched'[w] = fetched[w]
  BY DEF DataInv, DataTypes, FetchTypes, Open
<1>7. HandOk(c)' /\ FutureOk(c)'
  BY <1>1, <1>3, <1>5 DEF HandOk, FutureOk, Key, IsWhole
<1>8. /\ \A k \in Windows : file'[k] = NoFile \/ file'[k] = file[k]
      /\ file' \in [Windows -> [state : {"none", "fresh", "bad"}, data : SUBSET FrameSet]]
  <2>1. CASE UNCHANGED file
    BY <2>1 DEF DataInv, DataTypes
  <2>2. CASE \E dropped \in SUBSET Windows :
               file' = [k \in Windows |-> IF k \in dropped THEN NoFile ELSE file[k]]
    BY <2>2 DEF DataInv, DataTypes, NoFile
  <2>. QED BY <2>1, <2>2 DEF Measure
<1>9. \A k \in Windows : /\ FileOk(k)' /\ Later(file[k], file'[k])
                         /\ file'[k].data \subseteq file[k].data
  BY <1>2, <1>8, FilesStay
<1>10. DataTypes' /\ rev' \in Nat /\ rev <= rev'
  BY <1>2, <1>6, <1>8 DEF DataInv, DataTypes
<1>11. \A k \in Windows, i \in Sides : local'[k][i] <= rev' /\ local[k][i] <= local'[k][i]
  BY DEF DataInv, DataTypes
<1>12. \A w \in Callers : Loading(w) => Key(w) \in Windows
  BY DEF CallerInv, Flights, Loading
<1>13. DataInv'
  BY <1>1, <1>2, <1>5, <1>6, <1>7, <1>9, <1>10, <1>11, <1>12, DataMoves
<1>. QED BY <1>9, <1>11, <1>13 DEF DataKept

\* A request that has no load, or whose load is over.
LEMMA RequestsMove ==
  ASSUME DataInv, LaneInv, CallerInv, NEW c \in Callers, CallerStep(c),
         UNCHANGED <<fetched, turn, local, rev>>
  PROVE  DataInv' /\ DataKept
<1>1. /\ CallerInv' /\ \A w \in Callers : w # c => caller'[w] = caller[w]
      /\ caller[c].at \in {"idle", "unlink", "join", "wait", "land"}
      /\ caller'[c].at \in {"idle", "unlink", "join", "wait", "load"}
  BY CallersOnly
<1>2. /\ \A w \in Callers : w # c => future'[w] = future[w]
      /\ \A k \in Windows : file'[k] = NoFile \/ file'[k] = file[k]
      /\ file' \in [Windows -> [state : {"none", "fresh", "bad"}, data : SUBSET FrameSet]]
  <2>1. future' = future \/ future' = [future EXCEPT ![c] = Open]
    BY DEF CallerStep, Get, Unlink, Join, WaitTimesOut, Land
  <2>2. file' = file \/ (At(c, "unlink") /\ file' = [file EXCEPT ![Key(c)] = NoFile])
    BY DEF CallerStep, Get, Unlink, Join, WaitTimesOut, Land
  <2>3. \A w \in Callers : w # c => future'[w] = future[w]
    BY <2>1 DEF CallerInv, CallerTypes
  <2>4. At(c, "unlink") => Key(c) \in Windows
    BY DEF CallerInv, Flights, At
  <2>5. /\ file \in [Windows -> [state : {"none", "fresh", "bad"}, data : SUBSET FrameSet]]
        /\ NoFile \in [state : {"none", "fresh", "bad"}, data : SUBSET FrameSet]
    BY DEF DataInv, DataTypes, NoFile
  <2>6. CASE file' = file
    BY <2>3, <2>5, <2>6
  <2>7. CASE At(c, "unlink") /\ file' = [file EXCEPT ![Key(c)] = NoFile]
    BY <2>3, <2>4, <2>5, <2>7
  <2>. QED BY <2>2, <2>6, <2>7
<1>3. rev \in Nat /\ rev' \in Nat /\ rev <= rev'
  BY DEF LaneInv, LaneTypes
<1>4. \A k \in Windows : /\ FileOk(k)' /\ Later(file[k], file'[k])
                         /\ file'[k].data \subseteq file[k].data
  BY <1>2, <1>3, FilesStay
<1>5. HandOk(c)' /\ FutureOk(c)'
  <2>1. future'[c].state = "open"
    BY <1>1 DEF CallerInv, Flights, At
  <2>. QED BY <1>1, <2>1 DEF HandOk, FutureOk, IsWhole
<1>6. DataTypes'
  BY <1>2 DEF DataInv, DataTypes, FetchTypes
<1>7. \A k \in Windows, i \in Sides : local'[k][i] <= rev' /\ local[k][i] <= local'[k][i]
  BY DEF DataInv, DataTypes
<1>8. \A w \in Callers : Loading(w) => Key(w) \in Windows
  BY DEF CallerInv, Flights, Loading
<1>9. DataInv'
  BY <1>1, <1>2, <1>3, <1>4, <1>5, <1>6, <1>7, <1>8, DataMoves
<1>. QED BY <1>4, <1>7, <1>9 DEF DataKept

LEMMA FilesSpoil ==
  ASSUME DataInv, LaneInv, CallerInv, CallerInv', NEW k \in Windows, Spoil(k),
         UNCHANGED <<fetched, local, rev>>
  PROVE  DataInv' /\ DataKept
<1>1. /\ file[k].state = "fresh" /\ file' = [file EXCEPT ![k] = [file[k] EXCEPT !.state = "bad"]]
      /\ UNCHANGED <<caller, future>>
  BY DEF Spoil
<1>2. file[k] = [state |-> file[k].state, data |-> file[k].data] /\ file[k].data \subseteq FrameSet
  BY DEF DataInv, DataTypes
<1>3. file' = [file EXCEPT ![k] = [state |-> "bad", data |-> file[k].data]]
  <2>1. [file[k] EXCEPT !.state = "bad"] = [state |-> "bad", data |-> file[k].data]
    BY <1>2
  <2>. QED BY <1>1, <2>1
<1>4. /\ file'[k] = [state |-> "bad", data |-> file[k].data]
      /\ \A m \in Windows : m # k => file'[m] = file[m]
      /\ DataTypes'
  BY <1>2, <1>3 DEF DataInv, DataTypes, FetchTypes
<1>5. rev \in Nat /\ rev' \in Nat /\ rev <= rev'
  BY DEF LaneInv, LaneTypes
<1>6. \A m \in Windows : /\ FileOk(m)' /\ Later(file[m], file'[m])
                         /\ file'[m].data \subseteq file[m].data
  BY <1>1, <1>4, <1>5, FilesStay
<1>7. \A m \in Windows, i \in Sides : local'[m][i] <= rev' /\ local[m][i] <= local'[m][i]
  BY DEF DataInv, DataTypes
<1>8. \A w \in Callers : Loading(w) => Key(w) \in Windows
  BY DEF CallerInv, Flights, Loading
<1>9. DataInv'
  BY <1>1, <1>4, <1>5, <1>6, <1>7, <1>8, AskAssumption, DataMoves
<1>. QED BY <1>6, <1>7, <1>9 DEF DataKept

LEMMA DataUntouched ==
  ASSUME DataInv, CallerInv, LaneInv, UNCHANGED <<cacheVars, readVars, rev>>
  PROVE  CallerInv' /\ DataInv' /\ DataKept
<1>1. UNCHANGED <<file, flight, caller, future, turn, fetched, local, rev>>
  BY DEF cacheVars, readVars
<1>2. CallerInv'
  BY <1>1 DEF CallerInv, CallerTypes, Flights, LaneHeld, At, Key, Loading
<1>3. FetchTypes' /\ rev \in Nat
  BY <1>1 DEF DataInv, DataTypes, FetchTypes, LaneInv, LaneTypes
<1>. QED BY <1>1, <1>2, <1>3, AskAssumption, FilesAlone

-----------------------------------------------------------------------------
(* The whole of a history read.                                            *)

ReadsInv == CallerInv /\ LaneInv /\ DataInv

\* The lanes under each step of a load.
LEMMA LoadLanes ==
  ASSUME ReadsInv, NEW c \in Callers, LoadStep(c)
  PROVE  LaneInv'
<1>. CallerInv /\ LaneInv /\ DataInv /\ read \in [Callers -> Nat]
  BY DEF ReadsInv, LaneInv
<1>1. ASSUME NEW to, Go(c, to)
      PROVE  /\ caller'[c].at = to /\ caller'[c].key = caller[c].key
             /\ \A w \in Callers : w # c => caller'[w] = caller[w]
  BY <1>1, Moved DEF CallerInv, CallerTypes
<1>2. CASE EnterLane(c)
  BY <1>1, <1>2, LaneEntered DEF EnterLane
<1>3. CASE Route(c)
  <2>1. CASE /\ Begin(Key(c)) /\ read' = [read EXCEPT ![c] = Len(reads) + 1]
             /\ Go(c, "lanes")
    BY <1>1, <1>3, <2>1, ReadBegun DEF Route
  <2>2. CASE Go(c, "rpc") /\ UNCHANGED <<read, formulaVars>>
    <3>1. /\ caller'[c].at = "rpc" /\ \A w \in Callers : w # c => caller'[w] = caller[w]
          /\ caller[c].at = "route"
      BY <1>1, <1>3, <2>2 DEF Route, At
    <3>2. \A w \in Callers : /\ At(w, "lanes")' <=> At(w, "lanes")
                             /\ At(w, "lanes") => caller'[w].key = caller[w].key
      BY <3>1 DEF At
    <3>. QED BY <2>2, <3>2, LanesStay DEF formulaVars
  <2>. QED BY <1>3, <2>1, <2>2 DEF Route
<1>4. CASE Collect(c) \/ FallBack(c)
  <2>1. /\ caller'[c].at \in {"write", "rpc"}
        /\ \A w \in Callers : w # c => caller'[w] = caller[w]
    BY <1>1, <1>4 DEF Collect, FallBack
  <2>2. ~At(c, "lanes")'
    BY <2>1 DEF At
  <2>. QED BY <1>4, <2>1, <2>2, LanesLeft
<1>5. CASE RpcAnswers(c) \/ WriteThrough(c)
  <2>1. /\ caller'[c].at \in {"write", "store"} /\ caller[c].at \in {"rpc", "write"}
        /\ \A w \in Callers : w # c => caller'[w] = caller[w]
        /\ UNCHANGED <<reads, lane, sock, rev, late>>
        /\ read' = read \/ read' = [read EXCEPT ![c] = 0]
    BY <1>1, <1>5 DEF RpcAnswers, WriteThrough, At, formulaVars, Nobody
  <2>2. \A w \in Callers : /\ At(w, "lanes")' <=> At(w, "lanes")
                           /\ At(w, "lanes") => w # c /\ caller'[w].key = caller[w].key
    BY <2>1 DEF At
  <2>3. /\ read' \in [Callers -> Nat] /\ \A w \in Callers : w # c => read'[w] = read[w]
    BY <2>1
  <2>. QED BY <2>1, <2>2, <2>3, LanesStay
<1>6. CASE LaneWaitEnds(c) \/ RpcFails(c) \/ KeepAnswer(c)
  <2>1. /\ \A w \in Callers : w # c => caller'[w] = caller[w]
                                      \/ (At(w, "wait") /\ caller'[w].at = "idle")
        /\ caller'[c].at \in {"size", "land"}
    <3>1. FetchTypes /\ (At(c, "store") => fetched[c].state = "value")
      BY DEF DataInv, DataTypes, HandOk, At
    <3>. QED BY <1>6, <3>1, LoadEnds
  <2>2. /\ caller[c].at \in {"load", "rpc", "store"}
        /\ UNCHANGED <<reads, lane, sock, rev, late>>
        /\ read' = read \/ read' = [read EXCEPT ![c] = 0]
    BY <1>6 DEF LaneWaitEnds, RpcFails, KeepAnswer, LoadFails, At, formulaVars, readVars, Nobody
  <2>3. \A w \in Callers : /\ At(w, "lanes")' <=> At(w, "lanes")
                           /\ At(w, "lanes") => w # c /\ caller'[w].key = caller[w].key
    BY <2>1, <2>2 DEF At
  <2>4. /\ read' \in [Callers -> Nat] /\ \A w \in Callers : w # c => read'[w] = read[w]
    BY <2>2
  <2>. QED BY <2>2, <2>3, <2>4, LanesStay
<1>. QED BY <1>2, <1>3, <1>4, <1>5, <1>6 DEF LoadStep

LEMMA LoadHolds ==
  ASSUME ReadsInv, NEW c \in Callers, LoadStep(c)
  PROVE  ReadsInv' /\ DataKept
<1>. CallerInv /\ LaneInv /\ DataInv
  BY DEF ReadsInv
<1>1. LaneInv'
  BY LoadLanes
<1>2. CallerInv'
  <2>1. FetchTypes /\ (At(c, "store") => fetched[c].state = "value")
    BY DEF DataInv, DataTypes, HandOk, At
  <2>. QED BY <2>1, LoadGoesOn, LoadEnds DEF LoadStep
<1>3. DataInv' /\ DataKept
  BY RunsOn, EndsEmpty, BringsWhole, WritesThrough, Keeps DEF LoadStep
<1>. QED BY <1>1, <1>2, <1>3 DEF ReadsInv

LEMMA CacheHolds ==
  ASSUME ReadsInv, NEW c \in Callers, CacheStep(c)
  PROVE  ReadsInv' /\ DataKept
<1>. CallerInv /\ LaneInv /\ DataInv /\ read \in [Callers -> Nat]
  BY DEF ReadsInv, LaneInv
<1>1. UNCHANGED <<turn, read, local, reads, lane, sock, rev, late>>
  BY DEF CacheStep, formulaVars
<1>2. CASE CallerStep(c) /\ UNCHANGED fetched
  <2>1. /\ CallerInv' /\ \A w \in Callers : w # c => caller'[w] = caller[w]
        /\ caller[c].at \in {"idle", "unlink", "join", "wait", "land"}
        /\ caller'[c].at \in {"idle", "unlink", "join", "wait", "load"}
    BY <1>1, <1>2, CallersOnly
  <2>2. DataInv' /\ DataKept
    BY <1>1, <1>2, RequestsMove
  <2>3. \A w \in Callers : /\ At(w, "lanes")' <=> At(w, "lanes")
                           /\ At(w, "lanes") => w # c /\ caller'[w].key = caller[w].key
    BY <2>1 DEF At
  <2>4. LaneInv'
    BY <1>1, <2>3, LanesStay
  <2>. QED BY <2>1, <2>2, <2>4 DEF ReadsInv
<1>3. CASE Measure(c, fetched[c].data) /\ fetched' = [fetched EXCEPT ![c] = Open]
  <2>1. /\ CallerInv' /\ caller'[c].at \in {"size", "land"}
        /\ \A w \in Callers : w # c => caller'[w] = caller[w]
                                      \/ (At(w, "wait") /\ caller'[w].at = "idle")
    <3>1. FetchTypes /\ (At(c, "store") => fetched[c].state = "value")
      BY DEF DataInv, DataTypes, HandOk, At
    <3>. QED BY <1>1, <1>3, <3>1, LoadEnds
  <2>2. DataInv' /\ DataKept
    BY <1>1, <1>3, Measures
  <2>3. caller[c].at = "size"
    BY <1>3 DEF Measure, At
  <2>4. \A w \in Callers : /\ At(w, "lanes")' <=> At(w, "lanes")
                           /\ At(w, "lanes") => w # c /\ caller'[w].key = caller[w].key
    BY <2>1, <2>3 DEF At
  <2>5. LaneInv'
    BY <1>1, <2>4, LanesStay
  <2>. QED BY <2>1, <2>2, <2>5 DEF ReadsInv
<1>. QED BY <1>2, <1>3 DEF CacheStep

LEMMA ReadsHold == ReadsInv /\ [Next]_vars => ReadsInv' /\ DataKept
<1>. SUFFICES ASSUME ReadsInv, [Next]_vars PROVE ReadsInv' /\ DataKept
  OBVIOUS
<1>. CallerInv /\ LaneInv /\ DataInv /\ read \in [Callers -> Nat]
  BY DEF ReadsInv, LaneInv
<1>1. CASE UNCHANGED <<formulaVars, cacheVars, readVars>>
  <2>1. UNCHANGED <<cacheVars, readVars, rev, reads, lane, sock, late, read, caller>>
    BY <1>1 DEF formulaVars, cacheVars, readVars
  <2>2. LaneInv'
    BY <2>1, LanesStay DEF At
  <2>. QED BY <2>1, <2>2, DataUntouched DEF ReadsInv
<1>2. CASE \E c \in Callers : LoadStep(c)
  BY <1>2, LoadHolds
<1>3. CASE \E c \in Callers : CacheStep(c)
  BY <1>3, CacheHolds
<1>4. CASE \E k \in Windows : Spoil(k) /\ UNCHANGED <<readVars, formulaVars>>
  <2>1. PICK k \in Windows : Spoil(k) /\ UNCHANGED <<readVars, formulaVars>>
    BY <1>4
  <2>2. UNCHANGED <<flight, caller, future, turn, read, fetched, local, rev, reads, lane, sock, late>>
    BY <2>1 DEF Spoil, readVars, formulaVars
  <2>3. CallerInv'
    BY <2>2 DEF CallerInv, CallerTypes, Flights, LaneHeld, At, Key, Loading
  <2>4. LaneInv'
    BY <2>2, LanesStay DEF At
  <2>. QED BY <2>1, <2>2, <2>3, <2>4, FilesSpoil DEF ReadsInv
<1>5. CASE FormulaNext /\ UNCHANGED <<cacheVars, readVars>>
  <2>1. LanesKept
    BY <1>5, FormulaSteps DEF LaneInv
  <2>2. UNCHANGED <<caller, read, rev>>
    BY <1>5, <2>1 DEF cacheVars, readVars, LanesKept
  <2>3. LaneInv'
    BY <2>1, <2>2, LanesMove
  <2>. QED BY <1>5, <2>2, <2>3, DataUntouched DEF ReadsInv
<1>6. CASE UNCHANGED vars
  BY <1>1, <1>6 DEF vars
<1>. QED BY <1>1, <1>2, <1>3, <1>4, <1>5, <1>6 DEF Next, LoadNext

LEMMA ReadsAlways == Spec => []ReadsInv
<1>1. Init => ReadsInv
  BY CallerInit, LaneInit, DataInit DEF ReadsInv
<1>2. ReadsInv /\ [Next]_vars => ReadsInv'
  BY ReadsHold
<1>. QED BY <1>1, <1>2, PTL DEF Spec

\* Every answer a caller is given, every stored file and every finished load is
\* a whole answer to its own window, whatever halves failed, were canceled or
\* answered late, for any number of callers and windows (binary_cache.py,
\* formula_server.py, rpc_client.py).
THEOREM EveryAnswerIsWhole == Spec => []AnswersAreWhole
<1>1. ReadsInv => AnswersAreWhole
  BY DEF ReadsInv, DataInv, FileOk, FutureOk, HandOk, AnswersAreWhole
<1>. QED BY <1>1, ReadsAlways, PTL

\* One caller loads a window, its waiters wait on that load, and no half is
\* queued for a read that was given up (binary_cache.py, formula_server.py).
THEOREM NothingIsLeftBehind == Spec => []InFlightIsWanted
<1>1. ReadsInv => InFlightIsWanted
  BY DEF ReadsInv, CallerInv, Flights, LaneInv, InFlightIsWanted, OneLoad
<1>. QED BY <1>1, ReadsAlways, PTL

\* No stored file and no bar of the local cache is overwritten by data read
\* earlier (binary_cache.py, local_cache.py, data_client.py).
THEOREM DataOnlyAdvances == Spec => DataNeverGoesBack
<1>1. ReadsInv /\ [Next]_vars => DataKept
  BY ReadsHold
<1>2. DataKept => [/\ \A k \in Windows : Later(file[k], file'[k])
                   /\ \A k \in Windows, i \in Sides : local[k][i] <= local'[k][i]]_vars
  BY DEF DataKept
<1>. QED BY <1>1, <1>2, ReadsAlways, PTL DEF Spec, DataNeverGoesBack

-----------------------------------------------------------------------------
(* Least and greatest elements, and a search that doubles its window.      *)

LEMMA FiniteMax ==
  ASSUME NEW S \in SUBSET Int, IsFiniteSet(S), S # {}
  PROVE  \E m \in S : \A x \in S : x <= m
<1>. DEFINE Bad == {T \in SUBSET S : T # {} /\ ~ \E m \in T : \A x \in T : x <= m}
<1>1. SUFFICES ASSUME Bad # {} PROVE FALSE
  OBVIOUS
<1>2. SUBSET S = FiniteSubsetsOf(S)
  BY FS_FiniteSubsetsOfFinite
<1>3. IsWellFoundedOn(StrictSubsetOrdering(S), SUBSET S)
  BY <1>2, FS_StrictSubsetOrderingWellFounded
<1>4. Bad \subseteq SUBSET S
  OBVIOUS
<1>5. PICK T \in Bad : \A U \in Bad : ~(<<U, T>> \in StrictSubsetOrdering(S))
  <2>. HIDE DEF Bad
  <2>. QED BY <1>1, <1>3, <1>4, WFMin
<1>6. PICK a \in T : TRUE
  OBVIOUS
<1>7. T \ {a} \in SUBSET S /\ T \ {a} # T
  BY <1>6
<1>8. T \ {a} \notin Bad
  BY <1>5, <1>7 DEF StrictSubsetOrdering
<1>9. CASE T \ {a} = {}
  BY <1>6, <1>9
<1>10. CASE T \ {a} # {}
  <2>1. PICK m \in T \ {a} : \A x \in T \ {a} : x <= m
    BY <1>7, <1>8, <1>10
  <2>2. CASE a <= m
    BY <2>1, <2>2
  <2>3. CASE ~(a <= m)
    BY <2>1, <2>3, <1>6
  <2>. QED BY <2>2, <2>3
<1>. QED BY <1>9, <1>10

LEMMA Least ==
  ASSUME NEW T \in SUBSET Nat, T # {}
  PROVE  \E m \in T : \A x \in T : m <= x
<1>1. IsWellFoundedOn(OpToRel(<,Nat), Nat)
  BY NatLessThanWellFounded
<1>2. PICK m \in T : \A y \in T : ~(<<y, m>> \in OpToRel(<,Nat))
  <2>. QED BY <1>1, WFMin
<1>3. \A y \in T : ~(y < m)
  BY <1>2 DEF OpToRel
<1>. QED BY <1>3

\* The windows reached from w by doubling.
Chain(w) == {v \in Nat : \A X \in SUBSET Nat : w \in X /\ (\A x \in X : 2 * x \in X) => v \in X}

LEMMA ChainStep ==
  ASSUME NEW w \in Nat
  PROVE  /\ w \in Chain(w) /\ \A x \in Chain(w) : x >= w /\ 2 * x \in Chain(w)
         /\ Chain(w) = {w} \cup Chain(2 * w)
<1>1. w \in Chain(w)
  BY DEF Chain
<1>2. ASSUME NEW x \in Chain(w) PROVE 2 * x \in Chain(w)
  BY <1>2 DEF Chain
<1>3. ASSUME NEW x \in Chain(w) PROVE x >= w
  <2>. DEFINE X == {y \in Nat : y >= w}
  <2>1. w \in X /\ \A y \in X : 2 * y \in X
    OBVIOUS
  <2>2. X \in SUBSET Nat
    OBVIOUS
  <2>3. x \in X
    <3>. HIDE DEF X
    <3>. QED BY <2>1, <2>2 DEF Chain
  <2>. QED BY <2>3
<1>4. ASSUME NEW x \in Chain(2 * w) PROVE x \in Chain(w)
  <2>1. x \in Nat
    BY DEF Chain
  <2>2. ASSUME NEW X \in SUBSET Nat, w \in X, \A y \in X : 2 * y \in X PROVE x \in X
    BY <2>2 DEF Chain
  <2>. QED BY <2>1, <2>2 DEF Chain
<1>5. ASSUME NEW x \in Chain(w) PROVE x \in {w} \cup Chain(2 * w)
  <2>. DEFINE X == {w} \cup Chain(2 * w)
  <2>1. X \in SUBSET Nat /\ w \in X
    BY DEF Chain
  <2>2. 2 * w \in Chain(2 * w) /\ \A y \in Chain(2 * w) : 2 * y \in Chain(2 * w)
    BY DEF Chain
  <2>3. \A y \in X : 2 * y \in X
    <3>. HIDE DEF Chain
    <3>. QED BY <2>2
  <2>4. x \in X
    <3>. HIDE DEF X
    <3>. QED BY <2>1, <2>3 DEF Chain
  <2>. QED BY <2>4
<1>6. Chain(w) = {w} \cup Chain(2 * w)
  <2>. HIDE DEF Chain
  <2>. QED BY <1>1, <1>4, <1>5
<1>. QED BY <1>1, <1>2, <1>3, <1>6

\* A search that doubles its window while the window is in a finite set ends.
LEMMA DoublingFunction ==
  ASSUME NEW more \in SUBSET (Nat \ {0}), IsFiniteSet(more), NEW out
  PROVE  \E f : f = [w \in Nat |-> IF w \in more THEN f[2 * w] ELSE out[w]]
<1>. DEFINE Ends(w) == Chain(w) \ more
            first(w) == CHOOSE m \in Ends(w) : \A x \in Ends(w) : m <= x
            g == [w \in Nat |-> out[first(w)]]
<1>1. ASSUME NEW w \in Nat PROVE Ends(w) # {} /\ Ends(w) \in SUBSET Nat
  <2>1. Chain(w) \in SUBSET Nat /\ w \in Chain(w)
    BY ChainStep DEF Chain
  <2>2. SUFFICES ASSUME Chain(w) \subseteq more PROVE FALSE
    BY <2>1
  <2>3. IsFiniteSet(Chain(w)) /\ Chain(w) \in SUBSET Int /\ Chain(w) # {}
    BY <2>1, <2>2, FS_Subset
  <2>4. PICK m \in Chain(w) : \A x \in Chain(w) : x <= m
    BY <2>3, FiniteMax
  <2>5. 2 * m \in Chain(w) /\ m \in Nat \ {0}
    BY <2>2, <2>4, ChainStep
  <2>6. 2 * m <= m
    BY <2>4, <2>5
  <2>. QED BY <2>5, <2>6
<1>2. ASSUME NEW w \in Nat PROVE first(w) \in Ends(w) /\ \A x \in Ends(w) : first(w) <= x
  <2>1. \E m \in Ends(w) : \A x \in Ends(w) : m <= x
    BY <1>1, Least
  <2>. HIDE DEF Ends
  <2>. QED BY <2>1
<1>3. ASSUME NEW w \in Nat, w \in more PROVE first(w) = first(2 * w)
  <2>1. Ends(w) = Ends(2 * w)
    <3>1. Chain(w) = {w} \cup Chain(2 * w)
      BY ChainStep
    <3>. QED BY <1>3, <3>1
  <2>. HIDE DEF Ends
  <2>. QED BY <2>1
<1>4. ASSUME NEW w \in Nat, w \notin more PROVE first(w) = w
  <2>1. w \in Ends(w) /\ \A x \in Ends(w) : x >= w
    BY <1>4, ChainStep
  <2>2. first(w) <= w /\ first(w) >= w /\ first(w) \in Nat
    <3>. HIDE DEF Ends, first
    <3>. QED BY <1>1, <1>2, <2>1
  <2>. HIDE DEF first
  <2>. QED BY <2>2
<1>5. \A w \in Nat : g[w] = IF w \in more THEN g[2 * w] ELSE out[w]
  <2>1. ASSUME NEW w \in Nat PROVE g[w] = IF w \in more THEN g[2 * w] ELSE out[w]
    <3>1. 2 * w \in Nat
      OBVIOUS
    <3>. HIDE DEF first
    <3>. QED BY <1>3, <1>4, <3>1
  <2>. HIDE DEF g
  <2>. QED BY <2>1
<1>6. g = [w \in Nat |-> IF w \in more THEN g[2 * w] ELSE out[w]]
  <2>1. g = [w \in Nat |-> g[w]]
    <3>. HIDE DEF first
    <3>. QED OBVIOUS
  <2>. HIDE DEF g
  <2>. QED BY <1>5, <2>1
<1>. HIDE DEF g
<1>. QED BY <1>6

LEMMA DoublingEnds ==
  ASSUME NEW more \in SUBSET (Nat \ {0}), IsFiniteSet(more), NEW out, NEW f,
         f = [w \in Nat |-> IF w \in more THEN f[2 * w] ELSE out[w]]
  PROVE  \A w \in Nat : \E v \in Nat \ more : f[w] = out[v]
<1>. DEFINE Bad == {w \in Nat : \A v \in Nat \ more : f[w] # out[v]}
<1>1. SUFFICES ASSUME Bad # {} PROVE FALSE
  OBVIOUS
<1>2. ASSUME NEW w \in Nat PROVE f[w] = IF w \in more THEN f[2 * w] ELSE out[w]
  OBVIOUS
<1>3. ASSUME NEW w \in Bad PROVE w \in more /\ 2 * w \in Bad
  <2>1. w \in more
    BY <1>2, <1>3
  <2>2. f[w] = f[2 * w] /\ 2 * w \in Nat
    BY <1>2, <2>1
  <2>. QED BY <1>3, <2>1, <2>2
<1>4. IsFiniteSet(Bad) /\ Bad \in SUBSET Int
  BY <1>3, FS_Subset
<1>5. PICK m \in Bad : \A x \in Bad : x <= m
  <2>. HIDE DEF Bad
  <2>. QED BY <1>1, <1>4, FiniteMax
<1>6. m \in Nat \ {0} /\ 2 * m <= m
  <2>1. m \in more /\ 2 * m \in Bad
    BY <1>3
  <2>. HIDE DEF Bad
  <2>. QED BY <1>5, <2>1
<1>. QED BY <1>6

-----------------------------------------------------------------------------
(* Reading the tail of a DAT file.                                         *)

\* A block holds, of every record it has, all the later ones of the window.
LEMMA LastOfUpper ==
  ASSUME NEW range \in SUBSET Nat, IsFiniteSet(range), NEW n \in Nat
  PROVE  /\ LastOf(range, n) \subseteq range
         /\ \A b \in LastOf(range, n), x \in range : x >= b => x \in LastOf(range, n)
         /\ n = 0 \/ n > Cardinality(range) => LastOf(range, n) = range
<1>1. LastOf(range, n) \subseteq range
  BY DEF LastOf
<1>2. ASSUME NEW b \in LastOf(range, n), NEW x \in range, x >= b PROVE x \in LastOf(range, n)
  <2>1. CASE n <= 0
    BY <1>2, <2>1 DEF LastOf
  <2>2. CASE ~(n <= 0)
    <3>0. \A y \in range : y > x => y > b
      <4>1. b \in Nat /\ x \in Nat
        BY <1>1
      <4>. QED BY <1>2, <4>1
    <3>1. /\ {y \in range : y > x} \subseteq {y \in range : y > b}
          /\ {y \in range : y > b} \subseteq range
      BY <3>0
    <3>2. /\ Cardinality({y \in range : y > x}) <= Cardinality({y \in range : y > b})
          /\ Cardinality({y \in range : y > x}) \in Nat
          /\ Cardinality({y \in range : y > b}) \in Nat
      BY <3>1, FS_Subset, FS_CardinalityType
    <3>3. Cardinality({y \in range : y > b}) < n
      BY <1>2, <2>2 DEF LastOf
    <3>. QED BY <1>2, <2>2, <3>2, <3>3 DEF LastOf
  <2>. QED BY <2>1, <2>2
<1>3. ASSUME n = 0 \/ n > Cardinality(range) PROVE LastOf(range, n) = range
  <2>1. CASE n = 0
    BY <2>1 DEF LastOf
  <2>2. CASE n > Cardinality(range)
    <3>1. Cardinality(range) \in Nat
      BY FS_CardinalityType
    <3>2. ASSUME NEW b \in range PROVE Cardinality({y \in range : y > b}) < n
      <4>1. /\ Cardinality({y \in range : y > b}) <= Cardinality(range)
            /\ Cardinality({y \in range : y > b}) \in Nat
        BY FS_Subset, FS_CardinalityType
      <4>. QED BY <2>2, <3>1, <4>1
    <3>3. ~(n <= 0)
      BY <2>2, <3>1
    <3>. QED BY <3>2, <3>3 DEF LastOf
  <2>. QED BY <1>3, <2>1, <2>2
<1>. QED BY <1>1, <1>2, <1>3

\* The search for a block with enough usable records ends.
LEMMA TailEnds ==
  ASSUME NEW range \in SUBSET Nat, IsFiniteSet(range), NEW bad,
         NEW count \in Nat \ {0}, NEW completeDays \in BOOLEAN
  PROVE  \E w \in Nat :
           /\ \/ ~(Cardinality(Usable(LastOf(range, w), bad, completeDays)) < count)
              \/ LastOf(range, w) = range
           /\ ReadTail(range, bad, count, completeDays) =
                LastOf(Usable(LastOf(range, w), bad, completeDays), count)
<1>. DEFINE rows(w) == Usable(LastOf(range, w), bad, completeDays)
            more == {w \in Nat : Cardinality(rows(w)) < count /\ LastOf(range, w) # range}
            out == [w \in Nat |-> LastOf(rows(w), count)]
            body(f) == [w \in Nat |-> IF Cardinality(rows(w)) < count /\ LastOf(range, w) # range
                                      THEN f[2 * w] ELSE LastOf(rows(w), count)]
<1>1. Cardinality(range) \in Nat
  BY FS_CardinalityType
<1>2. more \in SUBSET (Nat \ {0}) /\ more \in SUBSET (0..Cardinality(range))
  <2>1. \A w \in Nat : LastOf(range, w) # range => w # 0 /\ ~(w > Cardinality(range))
    BY LastOfUpper
  <2>. HIDE DEF rows
  <2>. QED BY <1>1, <2>1
<1>3. IsFiniteSet(more)
  <2>1. IsFiniteSet(0..Cardinality(range))
    BY <1>1, FS_Interval
  <2>. HIDE DEF more
  <2>. QED BY <1>2, <2>1, FS_Subset
<1>4. \A f : body(f) = [w \in Nat |-> IF w \in more THEN f[2 * w] ELSE out[w]]
  <2>. HIDE DEF rows
  <2>. QED OBVIOUS
<1>5. \E f : f = body(f)
  <2>1. \E f : f = [w \in Nat |-> IF w \in more THEN f[2 * w] ELSE out[w]]
    <3>. HIDE DEF more, out
    <3>. QED BY <1>2, <1>3, DoublingFunction
  <2>. HIDE DEF more, out, body
  <2>. QED BY <1>4, <2>1
<1>6. PICK f : f = body(f) /\ ReadTail(range, bad, count, completeDays) = f[FirstWindow(count, completeDays)]
  <2>1. ReadTail(range, bad, count, completeDays) =
          (CHOOSE f : f = body(f))[FirstWindow(count, completeDays)]
    BY DEF ReadTail
  <2>2. (CHOOSE f : f = body(f)) = body(CHOOSE f : f = body(f))
    <3>. HIDE DEF body
    <3>. QED BY <1>5
  <2>. HIDE DEF body
  <2>. QED BY <2>1, <2>2
<1>7. FirstWindow(count, completeDays) \in Nat
  <2>1. Cardinality(Session) \in Nat
    <3>1. IsFiniteSet(Session)
      <4>1. Session \subseteq 1..5
        BY DEF Session
      <4>2. IsFiniteSet(1..5)
        <5>1. PICK a, b \in Int : a = 1 /\ b = 5
          OBVIOUS
        <5>2. IsFiniteSet(a..b)
          BY FS_Interval
        <5>. QED BY <5>1, <5>2, Zenon
      <4>. QED BY <4>1, <4>2, FS_Subset
    <3>. QED BY <3>1, FS_CardinalityType
  <2>. QED BY <2>1 DEF FirstWindow
<1>8. PICK v \in Nat \ more : f[FirstWindow(count, completeDays)] = out[v]
  <2>1. f = [w \in Nat |-> IF w \in more THEN f[2 * w] ELSE out[w]]
    <3>. HIDE DEF more, out, body
    <3>. QED BY <1>4, <1>6
  <2>. HIDE DEF more, out, body
  <2>. QED BY <1>2, <1>3, <1>7, <2>1, DoublingEnds
<1>9. /\ ~(Cardinality(rows(v)) < count) \/ LastOf(range, v) = range
      /\ out[v] = LastOf(rows(v), count)
  <2>. HIDE DEF rows
  <2>. QED BY <1>8
<1>. HIDE DEF body
<1>. QED BY <1>6, <1>8, <1>9

\* The last of an upper part are the last of the whole.
LEMMA LastOfPart ==
  ASSUME NEW U \in SUBSET Nat, IsFiniteSet(U), NEW R \in SUBSET U,
         \A r \in R, u \in U : u >= r => u \in R,
         NEW n \in Nat \ {0}, ~(Cardinality(R) < n)
  PROVE  LastOf(R, n) = LastOf(U, n)
<1>1. LastOf(R, n) = {b \in R : Cardinality({x \in R : x > b}) < n}
  BY DEF LastOf
<1>2. LastOf(U, n) = {b \in U : Cardinality({x \in U : x > b}) < n}
  BY DEF LastOf
<1>3. \A b \in R : {x \in R : x > b} = {x \in U : x > b}
  <2>1. \A b \in R, x \in U : x > b => x \in R
    OBVIOUS
  <2>. QED BY <2>1
<1>4. ASSUME NEW b \in U \ R PROVE ~(Cardinality({x \in U : x > b}) < n)
  <2>1. R \subseteq {x \in U : x > b} /\ {x \in U : x > b} \subseteq U
    BY <1>4
  <2>2. IsFiniteSet({x \in U : x > b})
    BY <2>1, FS_Subset
  <2>3. /\ Cardinality(R) <= Cardinality({x \in U : x > b})
        /\ Cardinality(R) \in Nat /\ Cardinality({x \in U : x > b}) \in Nat
    BY <2>1, <2>2, FS_Subset, FS_CardinalityType
  <2>. QED BY <2>3
<1>. QED BY <1>1, <1>2, <1>3, <1>4

LEMMA BarParts ==
  ASSUME NEW b \in Nat
  PROVE  DayOf(b) \in Nat /\ ClockOf(b) \in 0..9 /\ b = 10 * DayOf(b) + ClockOf(b)
BY DEF DayOf, ClockOf

\* A block that cuts a day in two takes it for usable only if the day is sound
\* from its open on; of the other days it decides as a read of the window does.
LEMMA BlockRows ==
  ASSUME NEW range \in SUBSET Nat, NEW block \in SUBSET range, NEW bad,
         NEW completeDays \in BOOLEAN,
         \A b \in block, x \in range : x >= b => x \in block
  PROVE  /\ Usable(block, bad, completeDays) \subseteq Sound(range, bad, completeDays)
         /\ Usable(range, bad, completeDays) \subseteq Sound(range, bad, completeDays)
         /\ \A r \in Usable(block, bad, completeDays), u \in Usable(range, bad, completeDays) :
              u >= r => u \in Usable(block, bad, completeDays)
<1>. DEFINE day(X, b) == {ClockOf(x) : x \in {g \in X \ bad : DayOf(g) = DayOf(b)}}
            open(b) == {ClockOf(g) : g \in {h \in range \ bad : DayOf(h) = DayOf(b) /\ ClockOf(h) > 0}}
<1>1. \A x \in range : DayOf(x) \in Nat /\ ClockOf(x) \in 0..9 /\ x = 10 * DayOf(x) + ClockOf(x)
  BY BarParts
<1>2. CASE ~completeDays
  <2>1. \A X : Usable(X, bad, completeDays) = {b \in X \ bad : ClockOf(b) \in Session}
    BY <1>2 DEF Usable
  <2>2. Sound(range, bad, completeDays) = {b \in range \ bad : ClockOf(b) \in Session}
    BY <1>2 DEF Sound
  <2>. QED BY <2>1, <2>2
<1>3. CASE completeDays
  <2>1. \A X : Usable(X, bad, completeDays) = {b \in X \ bad : day(X, b) = Session}
    BY <1>3 DEF Usable
  <2>2. Sound(range, bad, completeDays) = {b \in range \ bad : ClockOf(b) \in Session /\ open(b) = Session}
    BY <1>3 DEF Sound
  <2>3. \A s \in Session : s \in 1..5
    BY DEF Session
  <2>4. ASSUME NEW X \in SUBSET range, NEW b \in X \ bad, day(X, b) = Session
        PROVE  /\ ClockOf(b) \in Session
               /\ \A s \in Session : \E g \in X \ bad : DayOf(g) = DayOf(b) /\ ClockOf(g) = s
               /\ \A g \in X \ bad : DayOf(g) = DayOf(b) => ClockOf(g) \in Session
    <3>1. ClockOf(b) \in day(X, b)
      OBVIOUS
    <3>2. \A s \in day(X, b) : \E g \in X \ bad : DayOf(g) = DayOf(b) /\ ClockOf(g) = s
      OBVIOUS
    <3>3. \A g \in X \ bad : DayOf(g) = DayOf(b) => ClockOf(g) \in day(X, b)
      OBVIOUS
    <3>. HIDE DEF day
    <3>. QED BY <2>4, <3>1, <3>2, <3>3
  <2>5. ASSUME NEW X \in SUBSET range, NEW b \in X \ bad, day(X, b) = Session,
               \A x \in X, y \in range : y >= x => y \in X
        PROVE  ClockOf(b) \in Session /\ open(b) = Session
    <3>1. /\ ClockOf(b) \in Session
          /\ \A s \in Session : \E g \in X \ bad : DayOf(g) = DayOf(b) /\ ClockOf(g) = s
          /\ \A g \in X \ bad : DayOf(g) = DayOf(b) => ClockOf(g) \in Session
      BY <2>4, <2>5
    <3>2. ASSUME NEW s \in Session PROVE s \in open(b)
      <4>1. PICK g \in X \ bad : DayOf(g) = DayOf(b) /\ ClockOf(g) = s
        BY <3>1
      <4>2. g \in range \ bad /\ ClockOf(g) > 0
        BY <2>3, <4>1
      <4>. QED BY <4>1, <4>2
    <3>3. ASSUME NEW g \in range \ bad, DayOf(g) = DayOf(b), ClockOf(g) > 0
          PROVE  ClockOf(g) \in Session
      <4>1. PICK h \in X \ bad : DayOf(h) = DayOf(b) /\ ClockOf(h) = 1
        BY <3>1 DEF Session
      <4>2. g >= h
        BY <1>1, <3>3, <4>1
      <4>3. g \in X
        BY <2>5, <4>1, <4>2
      <4>. QED BY <3>1, <3>3, <4>3
    <3>4. \A s \in open(b) : s \in Session
      BY <3>3
    <3>5. open(b) = Session
      <4>. HIDE DEF open
      <4>. QED BY <3>2, <3>4
    <3>. QED BY <3>1, <3>5
  <2>6. Usable(block, bad, completeDays) \subseteq Sound(range, bad, completeDays)
    <3>1. \A b \in block \ bad : day(block, b) = Session => ClockOf(b) \in Session /\ open(b) = Session
      BY <2>5
    <3>. HIDE DEF day, open
    <3>. QED BY <2>1, <2>2, <3>1
  <2>7. Usable(range, bad, completeDays) \subseteq Sound(range, bad, completeDays)
    <3>1. \A b \in range \ bad : day(range, b) = Session => ClockOf(b) \in Session /\ open(b) = Session
      BY <2>5
    <3>. HIDE DEF day, open
    <3>. QED BY <2>1, <2>2, <3>1
  <2>8. ASSUME NEW r \in block \ bad, day(block, r) = Session,
               NEW u \in range \ bad, day(range, u) = Session, u >= r
        PROVE  u \in block /\ day(block, u) = Session
    <3>1. u \in block
      BY <2>8
    <3>2. CASE DayOf(u) = DayOf(r)
      <4>1. day(block, u) = day(block, r)
        BY <3>2
      <4>. QED BY <2>8, <3>1, <4>1
    <3>3. CASE DayOf(u) # DayOf(r)
      <4>1. DayOf(u) > DayOf(r)
        BY <1>1, <2>8, <3>3
      <4>2. \A g \in range : DayOf(g) = DayOf(u) => g >= r
        BY <1>1, <4>1
      <4>3. \A g \in range : DayOf(g) = DayOf(u) => g \in block
        BY <4>2
      <4>4. {g \in block \ bad : DayOf(g) = DayOf(u)} = {g \in range \ bad : DayOf(g) = DayOf(u)}
        BY <4>3
      <4>5. day(block, u) = day(range, u)
        BY <4>4
      <4>. QED BY <2>8, <3>1, <4>5
    <3>. QED BY <3>2, <3>3
  <2>9. \A r \in Usable(block, bad, completeDays), u \in Usable(range, bad, completeDays) :
          u >= r => u \in Usable(block, bad, completeDays)
    <3>1. /\ Usable(block, bad, completeDays) = {b \in block \ bad : day(block, b) = Session}
          /\ Usable(range, bad, completeDays) = {b \in range \ bad : day(range, b) = Session}
      BY <2>1
    <3>. HIDE DEF day
    <3>. QED BY <2>8, <3>1
  <2>. QED BY <2>6, <2>7, <2>9
<1>. QED BY <1>2, <1>3

\* A counted read has bars of sound days only; it is the last usable bars of the
\* whole window when no day has a sound record before its open.
LEMMA TailExact ==
  ASSUME NEW range \in SUBSET Nat, IsFiniteSet(range), NEW bad,
         NEW count \in Nat \ {0}, NEW completeDays \in BOOLEAN
  PROVE  LET bars == ReadTail(range, bad, count, completeDays)
         IN  /\ bars \subseteq Sound(range, bad, completeDays)
             /\ Usable(range, bad, completeDays) = Sound(range, bad, completeDays) =>
                  bars = LastOf(Usable(range, bad, completeDays), count)
<1>. DEFINE usable == Usable(range, bad, completeDays)
            sound == Sound(range, bad, completeDays)
            bars == ReadTail(range, bad, count, completeDays)
<1>1. PICK w \in Nat :
        /\ \/ ~(Cardinality(Usable(LastOf(range, w), bad, completeDays)) < count)
           \/ LastOf(range, w) = range
        /\ bars = LastOf(Usable(LastOf(range, w), bad, completeDays), count)
  BY TailEnds
<1>2. PICK block : block = LastOf(range, w)
  OBVIOUS
<1>3. block \in SUBSET range /\ \A b \in block, x \in range : x >= b => x \in block
  BY <1>2, LastOfUpper
<1>4. PICK rows : rows = Usable(block, bad, completeDays)
  OBVIOUS
<1>5. /\ rows \subseteq sound /\ usable \subseteq range
      /\ \A r \in rows, u \in usable : u >= r => u \in rows
  <2>1. usable \subseteq range
    BY DEF Usable
  <2>. QED BY <1>3, <1>4, <2>1, BlockRows
<1>6. LastOf(rows, count) \subseteq rows
  BY DEF LastOf
<1>7. ASSUME usable = sound PROVE LastOf(rows, count) = LastOf(usable, count)
  <2>1. CASE block = range
    BY <1>4, <2>1
  <2>2. CASE block # range
    <3>1. ~(Cardinality(rows) < count)
      BY <1>1, <1>2, <1>4, <2>2
    <3>2. usable \in SUBSET Nat /\ IsFiniteSet(usable) /\ rows \in SUBSET usable
      BY <1>5, <1>7, FS_Subset
    <3>. HIDE DEF usable
    <3>. QED BY <1>5, <3>1, <3>2, LastOfPart
  <2>. QED BY <2>1, <2>2
<1>8. bars = LastOf(rows, count)
  BY <1>1, <1>2, <1>4
<1>9. bars \subseteq sound /\ (usable = sound => bars = LastOf(usable, count))
  <2>. HIDE DEF bars, usable, sound
  <2>. QED BY <1>5, <1>6, <1>7, <1>8
<1>. QED BY <1>9

-----------------------------------------------------------------------------
(* What the answers of get_history_ex and get_minute_tail are made of.     *)

\* The bars a frame of a request can have: none after its window, and those of
\* a daily request are days.
BarsOf(a) == {b \in Nat : /\ b <= 10 * a.end.day + 9
                          /\ a.period = "1d" => \E d \in Nat : b = 10 * d}

\* Before the request there are no frames; afterwards every frame, the kept
\* ones included, has bars of the request, and those of DAT are not kept.
SourceInv ==
  /\ stage = "idle" => frame = NoFrames /\ kept.frame = NoFrames
  /\ stage # "idle" =>
       /\ ask.start \in Times /\ ask.end \in Times /\ ask.count \in Int
       /\ \A c \in Codes : frame[c].bars \subseteq BarsOf(ask) /\ kept.frame[c].bars \subseteq BarsOf(ask)
  /\ stage = "dat" => ask.period \in {"1m", "1d"}
  /\ \A c \in Codes : kept.frame[c].from # "dat"
  /\ TailIsExact

LEMMA TimeParts ==
  ASSUME NEW t \in Times
  PROVE  t.day \in Nat \ {0} /\ t.clock \in 0..6 \cup {9}
BY CalendarAssumption DEF Times, WholeDay

LEMMA BarsAreFinite ==
  ASSUME NEW a, a.end.day \in Nat, NEW S \in SUBSET BarsOf(a)
  PROVE  S \in SUBSET Nat /\ IsFiniteSet(S)
<1>1. PICK last \in Int : last = 10 * a.end.day + 9
  OBVIOUS
<1>2. IsFiniteSet(0..last)
  <2>1. PICK first \in Int : first = 0
    OBVIOUS
  <2>2. IsFiniteSet(first..last)
    BY FS_Interval
  <2>. QED BY <2>1, <2>2, Zenon
<1>3. S \subseteq 0..last /\ S \subseteq Nat
  BY <1>1 DEF BarsOf
<1>. QED BY <1>2, <1>3, FS_Subset

LEMMA LastOfWithin ==
  ASSUME NEW S, NEW n PROVE LastOf(S, n) \subseteq S
BY DEF LastOf

\* The records of the window, of a minute file and of a daily one.
LEMMA WindowBars ==
  ASSUME NEW a, a.end \in Times, NEW shape
  PROVE  /\ a.period # "1d" => InWindow(FileOf(shape).records, a.start, a.end) \subseteq BarsOf(a)
         /\ InWindow(DailyOf(shape).records, a.start, a.end) \subseteq BarsOf(a)
         /\ InWindow(DailyOf(shape).records, a.start, [a.end EXCEPT !.clock = WholeDay]) \subseteq BarsOf(a)
<1>1. a.end.day \in Nat /\ a.end.clock \in 0..9
  BY TimeParts
<1>2. Days \subseteq Nat
  BY CalendarAssumption
<1>3. FileOf(shape).records \subseteq Nat
  <2>1. \A b \in FileOf(shape).records : \E d \in Days \ Holidays, k \in 0..6 : b = 10 * d + k
    BY DEF FileOf
  <2>2. \A d \in Days \ Holidays, k \in 0..6 : 10 * d + k \in Nat
    BY <1>2
  <2>. QED BY <2>1, <2>2, ZenonT(30)
<1>4. \A b \in DailyOf(shape).records : \E d \in Nat : b = 10 * d
  <2>1. DailyOf(shape).records \subseteq {10 * d : d \in Days}
    BY DEF DailyOf
  <2>. QED BY <1>2, <2>1
<1>5. ASSUME a.period # "1d" PROVE InWindow(FileOf(shape).records, a.start, a.end) \subseteq BarsOf(a)
  <2>1. \A b \in InWindow(FileOf(shape).records, a.start, a.end) :
          b \in Nat /\ b <= 10 * a.end.day + a.end.clock
    BY <1>3 DEF InWindow
  <2>2. \A b \in Nat : b <= 10 * a.end.day + a.end.clock => b <= 10 * a.end.day + 9
    BY <1>1
  <2>. QED BY <1>5, <2>1, <2>2 DEF BarsOf
<1>6. InWindow(DailyOf(shape).records, a.start, a.end) \subseteq BarsOf(a)
  <2>1. \A b \in InWindow(DailyOf(shape).records, a.start, a.end) :
          b \in DailyOf(shape).records /\ b <= 10 * a.end.day + a.end.clock
    BY DEF InWindow
  <2>2. \A b \in Nat : b <= 10 * a.end.day + a.end.clock => b <= 10 * a.end.day + 9
    BY <1>1
  <2>3. \A b \in DailyOf(shape).records : b \in Nat
    BY <1>4
  <2>. QED BY <1>4, <2>1, <2>2, <2>3 DEF BarsOf
<1>7. InWindow(DailyOf(shape).records, a.start, [a.end EXCEPT !.clock = WholeDay]) \subseteq BarsOf(a)
  <2>1. /\ [a.end EXCEPT !.clock = WholeDay].day = a.end.day
        /\ [a.end EXCEPT !.clock = WholeDay].clock = 9
    BY DEF Times, WholeDay
  <2>2. \A b \in InWindow(DailyOf(shape).records, a.start, [a.end EXCEPT !.clock = WholeDay]) :
          b \in DailyOf(shape).records /\ b <= 10 * a.end.day + 9
    BY <2>1 DEF InWindow
  <2>3. \A b \in DailyOf(shape).records : b \in Nat
    BY <1>4
  <2>. QED BY <1>4, <2>2, <2>3 DEF BarsOf
<1>. QED BY <1>5, <1>6, <1>7

\* A read of a DAT file brings bars of sound days, all of the usable ones that
\* the count lets through.
LEMMA FileRead ==
  ASSUME NEW a, a.end \in Times, a.count \in Int, a.period \in {"1m", "1d"}, NEW shape
  PROVE  LET bars == ReadFile(a, shape)
             all  == InOneGo(a, shape)
         IN  /\ bars \subseteq BarsOf(a) /\ bars \subseteq all.sound
             /\ all.usable = all.sound => bars = LastOf(all.usable, a.count)
<1>0. a.end.day \in Nat
  BY TimeParts
<1>1. CASE a.period = "1d"
  <2>1. PICK rows : rows = InWindow(DailyOf(shape).records, a.start, a.end)
    OBVIOUS
  <2>2. ReadFile(a, shape) = LastOf(rows, a.count)
    <3>1. DailyOf(shape).records \ DailyOf(shape).bad = DailyOf(shape).records
      BY DEF DailyOf
    <3>. QED BY <1>1, <2>1, <3>1 DEF ReadFile, ReadDaily
  <2>3. InOneGo(a, shape).usable = rows /\ InOneGo(a, shape).sound = rows
    BY <1>1, <2>1 DEF InOneGo
  <2>4. rows \subseteq BarsOf(a)
    BY <2>1, WindowBars
  <2>. QED BY <2>2, <2>3, <2>4, LastOfWithin
<1>2. CASE a.period = "1m"
  <2>1. PICK range, bad, whole :
          /\ range = InWindow(FileOf(shape).records, a.start, a.end)
          /\ bad = FileOf(shape).bad /\ whole = (a.route = "history")
    OBVIOUS
  <2>. whole \in BOOLEAN
    BY <2>1
  <2>2. range \subseteq BarsOf(a)
    BY <1>2, <2>1, WindowBars
  <2>3. range \in SUBSET Nat /\ IsFiniteSet(range)
    BY <1>0, <2>2, BarsAreFinite
  <2>4. /\ InOneGo(a, shape).usable = Usable(range, bad, whole)
        /\ InOneGo(a, shape).sound = Sound(range, bad, whole)
    BY <1>2, <2>1 DEF InOneGo
  <2>5. ReadFile(a, shape) = IF a.count > 0 THEN ReadTail(range, bad, a.count, whole)
                             ELSE Usable(range, bad, whole)
    BY <1>2, <2>1 DEF ReadFile, ReadMinutes
  <2>6. Usable(range, bad, whole) \subseteq Sound(range, bad, whole)
    BY <2>3, BlockRows
  <2>7. Sound(range, bad, whole) \subseteq range
    BY DEF Sound
  <2>8. CASE a.count > 0
    <3>1. a.count \in Nat \ {0}
      BY <2>8
    <3>2. /\ ReadTail(range, bad, a.count, whole) \subseteq Sound(range, bad, whole)
          /\ Usable(range, bad, whole) = Sound(range, bad, whole) =>
               ReadTail(range, bad, a.count, whole) = LastOf(Usable(range, bad, whole), a.count)
      BY <2>3, <3>1, TailExact
    <3>. QED BY <2>2, <2>4, <2>5, <2>7, <2>8, <3>2
  <2>9. CASE ~(a.count > 0)
    <3>1. LastOf(Usable(range, bad, whole), a.count) = Usable(range, bad, whole)
      BY <2>9 DEF LastOf
    <3>. QED BY <2>2, <2>4, <2>5, <2>6, <2>7, <2>9, <3>1
  <2>. QED BY <2>8, <2>9
<1>. QED BY <1>1, <1>2

LEMMA TerminalBars ==
  ASSUME NEW a, a.end \in Times, NEW shape
  PROVE  Terminal(a, shape) \subseteq BarsOf(a)
<1>1. CASE a.period = "1d"
  <2>1. Terminal(a, shape) = LastOf(InWindow(DailyOf(shape).records, a.start, [a.end EXCEPT !.clock = WholeDay]), a.count)
    BY <1>1 DEF Terminal
  <2>. QED BY <2>1, WindowBars, LastOfWithin
<1>2. CASE a.period # "1d"
  <2>1. Terminal(a, shape) = LastOf({b \in InWindow(FileOf(shape).records, a.start, a.end) : ClockOf(b) \in Session}, a.count)
    BY <1>2 DEF Terminal
  <2>. QED BY <1>2, <2>1, WindowBars, LastOfWithin
<1>. QED BY <1>1, <1>2

LEMMA SourceBegins == SourceInit => SourceInv
<1>1. \A c \in Codes : NoFrames[c].from = "none"
  BY DEF NoFrames
<1>. QED BY <1>1 DEF SourceInit, SourceInv, TailIsExact

\* Ask, the first step of a request, types it.
LEMMA AskKeeps ==
  ASSUME SourceInv, NEW a, a.start \in Times, a.end \in Times, a.count \in Int, Ask(a)
  PROVE  SourceInv'
<1>1. /\ stage = "idle" /\ frame = NoFrames /\ kept.frame = NoFrames
      /\ ask' = a /\ stage' = IF DatEligible(a) THEN "dat" ELSE IF a.cached THEN "cache" ELSE "rpc"
      /\ frame' = frame /\ kept' = kept
  BY DEF Ask, SourceInv
<1>2. stage' # "idle" /\ (stage' = "dat" => a.period \in {"1m", "1d"})
  BY <1>1 DEF DatEligible
<1>3. \A c \in Codes : NoFrames[c].bars = {} /\ NoFrames[c].from = "none"
  BY DEF NoFrames
<1>. QED BY <1>1, <1>2, <1>3 DEF SourceInv, TailIsExact

LEMMA DatKeeps ==
  ASSUME SourceInv, NEW shape, ReadDat(shape)
  PROVE  SourceInv'
<1>1. /\ stage = "dat" /\ ask' = ask /\ kept' = kept /\ stage' \in {"answered", "rpc"}
      /\ frame' = [c \in Codes |-> [from |-> "dat", bars |-> ReadFile(ask, shape[c])]]
      /\ expected' = [c \in Codes |-> InOneGo(ask, shape[c])]
  BY DEF ReadDat
<1>2. ask.end \in Times /\ ask.count \in Int /\ ask.period \in {"1m", "1d"}
  BY <1>1 DEF SourceInv
<1>3. ASSUME NEW c \in Codes
      PROVE  /\ frame'[c].bars \subseteq BarsOf(ask)
             /\ frame'[c].bars \subseteq expected'[c].sound
             /\ expected'[c].usable = expected'[c].sound =>
                  frame'[c].bars = LastOf(expected'[c].usable, ask.count)
  <2>1. frame'[c].bars = ReadFile(ask, shape[c]) /\ expected'[c] = InOneGo(ask, shape[c])
    BY <1>1
  <2>. QED BY <1>2, <2>1, FileRead
<1>4. TailIsExact'
  BY <1>1, <1>3 DEF TailIsExact
<1>. QED BY <1>1, <1>3, <1>4 DEF SourceInv

LEMMA RpcKeeps ==
  ASSUME SourceInv, NEW shape, RpcBrings([c \in Codes |-> Terminal(ask, shape[c])])
  PROVE  SourceInv'
<1>. DEFINE brought == [c \in Codes |-> [from |-> "rpc", bars |-> [d \in Codes |-> Terminal(ask, shape[d])][c]]]
<1>1. /\ stage = "rpc" /\ ask' = ask /\ stage' = "answered" /\ expected' = expected
      /\ frame' = [c \in Codes |-> Merged(c, brought)]
      /\ kept' = [there |-> TRUE, frame |-> brought] \/ kept' = kept
  BY DEF RpcBrings
<1>2. ask.end \in Times
  BY <1>1 DEF SourceInv
<1>3. ASSUME NEW c \in Codes PROVE brought[c].from = "rpc" /\ brought[c].bars \subseteq BarsOf(ask)
  BY <1>2, TerminalBars
<1>4. ASSUME NEW c \in Codes PROVE frame'[c] \in {frame[c], brought[c]}
  BY <1>1 DEF Merged
<1>5. kept'.frame \in {kept.frame, brought}
  BY <1>1
<1>. HIDE DEF brought
<1>6. \A c \in Codes : frame'[c].bars \subseteq BarsOf(ask) /\ kept'.frame[c].bars \subseteq BarsOf(ask)
  BY <1>1, <1>3, <1>4, <1>5 DEF SourceInv
<1>7. \A c \in Codes : kept'.frame[c].from # "dat"
  BY <1>3, <1>5 DEF SourceInv
<1>8. TailIsExact'
  <2>1. \A c \in Codes : frame'[c].from = "dat" => frame'[c] = frame[c]
    BY <1>3, <1>4
  <2>. QED BY <1>1, <2>1 DEF SourceInv, TailIsExact
<1>. QED BY <1>1, <1>6, <1>7, <1>8 DEF SourceInv

LEMMA SourceKeeps == SourceInv /\ SourceNext => SourceInv'
<1>. SUFFICES ASSUME SourceInv, SourceNext PROVE SourceInv'
  OBVIOUS
<1>1. \A c \in Codes : NoFrames[c].from = "none" /\ NoFrames[c].bars = {}
  BY DEF NoFrames
<1>2. ASSUME NEW route \in {"history", "tail"}, NEW period \in Periods, NEW s \in Times, NEW e \in Times,
             NEW n \in Counts, NEW cached \in BOOLEAN, NEW dat \in BOOLEAN,
             Ask([route |-> route, period |-> period, start |-> s, end |-> e, count |-> n,
                  cached |-> cached, dat |-> dat])
      PROVE  SourceInv'
  <2>1. PICK a : a = [route |-> route, period |-> period, start |-> s, end |-> e, count |-> n,
                      cached |-> cached, dat |-> dat]
    OBVIOUS
  <2>2. a.start \in Times /\ a.end \in Times /\ a.count \in Int /\ Ask(a)
    BY <1>2, <2>1, CalendarAssumption
  <2>. QED BY <2>2, AskKeeps
<1>3. ASSUME NEW shape, ReadDat(shape) PROVE SourceInv'
  BY <1>3, DatKeeps
<1>4. CASE ReadKept
  <2>1. /\ stage = "cache" /\ ask' = ask /\ kept' = kept /\ expected' = expected
        /\ stage' \in {"answered", "rpc"} /\ (frame' = kept.frame \/ frame' = frame)
    BY <1>4 DEF ReadKept
  <2>2. TailIsExact'
    BY <2>1 DEF SourceInv, TailIsExact
  <2>. QED BY <2>1, <2>2 DEF SourceInv
<1>5. ASSUME NEW shape, RpcBrings([c \in Codes |-> Terminal(ask, shape[c])]) PROVE SourceInv'
  BY <1>5, RpcKeeps
<1>6. CASE RpcErrs
  <2>1. /\ stage = "rpc" /\ ask' = ask /\ kept' = kept /\ expected' = expected
        /\ stage' = "answered" /\ (frame' = NoFrames \/ frame' = frame)
    BY <1>6 DEF RpcErrs
  <2>2. TailIsExact'
    BY <1>1, <2>1 DEF SourceInv, TailIsExact
  <2>. QED BY <1>1, <2>1, <2>2 DEF SourceInv
<1>7. CASE AskAgain
  <2>1. /\ stage = "answered" /\ ask' = ask /\ kept' = kept /\ stage' = "cache" /\ frame' = NoFrames
    BY <1>7 DEF AskAgain
  <2>2. TailIsExact'
    BY <1>1, <2>1 DEF TailIsExact
  <2>. QED BY <1>1, <2>1, <2>2 DEF SourceInv
<1>. QED BY <1>2, <1>3, <1>4, <1>5, <1>6, <1>7 DEF SourceNext

\* A claim reaches from a boundary at or before every bar of the window to one
\* at or after it.
LEMMA ClaimHasEnds ==
  ASSUME SourceInv, NEW c \in Codes, Claimed(c), ask.period \in {"1m", "1d"},
         NEW b \in Needed(ask) \ frame[c].bars
  PROVE  \E low, high \in frame[c].bars : low < b /\ b < high
<1>. DEFINE bars == frame[c].bars
<1>1. /\ ask.start \in Times /\ ask.end \in Times /\ bars \subseteq BarsOf(ask)
      /\ CoversStart(bars, ask.start, ask.period) /\ CoversEnd(bars, ask.end, ask.period)
  BY DEF SourceInv, Claimed, Confident
<1>2. /\ ask.start.day \in Nat /\ ask.start.clock \in 0..6 \cup {9}
      /\ ask.end.day \in Nat /\ ask.end.clock \in 0..6 \cup {9}
  BY <1>1, TimeParts
<1>3. bars \in SUBSET Nat /\ IsFiniteSet(bars) /\ bars # {}
  BY <1>1, <1>2, BarsAreFinite DEF CoversStart
<1>4. PICK low \in bars : low = Min(bars)
  <2>1. \E m \in bars : \A x \in bars : m <= x
    BY <1>3, Least
  <2>. HIDE DEF bars
  <2>. QED BY <2>1 DEF Min
<1>5. PICK high \in bars : high = Max(bars)
  <2>1. \E m \in bars : \A x \in bars : x <= m
    BY <1>3, FiniteMax
  <2>2. \E m \in bars : \A x \in bars : m >= x
    BY <1>3, <2>1
  <2>. HIDE DEF bars
  <2>. QED BY <2>2 DEF Max
<1>6. low \in Nat /\ high \in Nat /\ low # b /\ high # b
  BY <1>3
<1>7. CASE ask.period = "1m"
  <2>1. /\ StartBoundary(ask.start) # NoBar /\ low <= StartBoundary(ask.start)
        /\ EndBoundary(ask.end) # NoBar /\ high >= EndBoundary(ask.end)
    BY <1>1, <1>4, <1>5, <1>7 DEF CoversStart, CoversEnd
  <2>2. /\ b >= 10 * ask.start.day + (IF ask.start.clock = WholeDay THEN 0 ELSE ask.start.clock)
        /\ b <= 10 * ask.end.day + ask.end.clock
        /\ b \in {10 * d + k : d \in Days \ Holidays, k \in Session}
    BY <1>7 DEF Needed, InWindow
  <2>3. PICK d \in Nat, k \in {1, 2, 4, 5} : b = 10 * d + k
    BY <2>2, CalendarAssumption DEF Session
  <2>4. StartBoundary(ask.start) <= b
    BY <1>2, <2>1, <2>2, <2>3 DEF StartBoundary, NoBar, WholeDay
  <2>5. b <= EndBoundary(ask.end)
    BY <1>2, <2>1, <2>2, <2>3 DEF EndBoundary, NoBar
  <2>6. StartBoundary(ask.start) \in Nat /\ EndBoundary(ask.end) \in Nat
    BY <1>2 DEF StartBoundary, EndBoundary, NoBar
  <2>. QED BY <1>6, <2>1, <2>3, <2>4, <2>5, <2>6
<1>8. CASE ask.period = "1d"
  <2>1. DayOf(low) <= ask.start.day /\ DayOf(high) >= ask.end.day
    BY <1>1, <1>4, <1>5, <1>8 DEF CoversStart, CoversEnd
  <2>2. (\E d \in Nat : low = 10 * d) /\ (\E d \in Nat : high = 10 * d)
    BY <1>1, <1>8 DEF BarsOf
  <2>3. PICK d \in Nat : b = 10 * d /\ ask.start.day <= d /\ d <= ask.end.day
    BY <1>8, CalendarAssumption DEF Needed
  <2>4. low = 10 * DayOf(low) /\ high = 10 * DayOf(high) /\ DayOf(low) \in Nat /\ DayOf(high) \in Nat
    BY <2>2 DEF DayOf
  <2>. QED BY <1>2, <1>6, <2>1, <2>3, <2>4
<1>. QED BY <1>7, <1>8

\* A history answer that claims its window has both of its ends, whatever the
\* calendar, the files, the terminal and the requests, and a counted read of a
\* DAT file is exact as TailIsExact says (market.py, qmt_local_dat.py).
THEOREM ClaimsAreCovered == Spec => []ClaimsCover
<1>1. Init => SourceInv
  BY SourceBegins DEF Init
<1>2. SourceInv /\ [Next]_vars => SourceInv'
  <2>. SUFFICES ASSUME SourceInv, [Next]_vars PROVE SourceInv'
    OBVIOUS
  <2>1. CASE SourceNext
    BY <2>1, SourceKeeps
  <2>2. CASE UNCHANGED sourceVars
    BY <2>2 DEF sourceVars, SourceInv, TailIsExact
  <2>. QED BY <2>1, <2>2 DEF Next, vars
<1>3. SourceInv => ClaimsCover
  BY ClaimHasEnds DEF ClaimsCover, HolesOnlyInside, SourceInv
<1>. QED BY <1>1, <1>2, <1>3, PTL DEF Spec

=============================================================================
