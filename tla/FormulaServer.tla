---------------------------- MODULE FormulaServer ----------------------------
(***************************************************************************)
(* formula_server.py: the direct read path to the terminal's quote         *)
(* service.  A client shares one socket under a lock and matches answers   *)
(* by sequence number; the router splits a history read over two clients,  *)
(* one per half of its codes, and declines, so that its caller falls back  *)
(* to RPC, whenever a half fails or the wait for them ends.                *)
(*                                                                         *)
(* A read is a number; it has one lane per half of its codes, a single     *)
(* lane when it is not split.  A frame on the wire is the sequence number  *)
(* of its request, here the read and the attempt, and what the answer will *)
(* hold.  Abstracted: BSON, compression, addresses, and the time a step    *)
(* takes: a receive may time out, and a deadline may pass, at any moment.  *)
(***************************************************************************)
EXTENDS Naturals, Sequences, SequencesExt, FiniteSets

CONSTANTS Keys,      \* what may be read: a window of codes
          SplitKeys, \* those with two codes or more in a splittable period
          MaxReads,  \* reads a behaviour may make
          MaxFaults  \* deadlines that pass, attempts that fail before one, and
                     \* refusals in a behaviour

ASSUME ReadAssumption == SplitKeys \subseteq Keys /\ MaxReads \in Nat /\ MaxFaults \in Nat

Sides == {1, 2}
Reads == 1..MaxReads
Nobody == 0

VARIABLES
  reads,          \* the keys read so far, in order
  lane,           \* lane[n][i]: [at, try, got]
  late,           \* reads whose deadline has passed
  holder,         \* the read holding each client's lock
  sock,           \* each client's socket: [torn, wire], the answers under way
  unavailable,    \* the breaker's cooldown runs
  unimplemented,  \* the terminal has refused the method
  rev,            \* revision of the terminal's data, new for every load
  faults          \* faults so far

formulaVars == <<reads, lane, late, holder, sock, unavailable, unimplemented, rev, faults>>

NoFrame == [key |-> "none", side |-> 0, rev |-> 0]
\* Where a half is, its attempt at the request, and the answer it has.
NoLane  == [at |-> "none", try |-> 0, got |-> NoFrame]
Closed  == [torn |-> FALSE, wire |-> <<>>]

FormulaInit ==
  /\ reads = <<>> /\ late = {}
  /\ lane = [n \in Reads |-> [i \in Sides |-> NoLane]]
  /\ holder = [i \in Sides |-> Nobody]
  /\ sock = [i \in Sides |-> Closed]
  /\ unavailable = FALSE /\ unimplemented = FALSE
  /\ rev = 0 /\ faults = 0

Split(n) == reads[n] \in SplitKeys
Lanes(n) == IF Split(n) THEN Sides ELSE {1}
Running(n, i) == lane[n][i].at \in {"lock", "recv"}
Ended(n, i)   == lane[n][i].at \in {"ok", "refused", "missing", "lost", "canceled"}

\* A fault happens; what the passing of a deadline brings with it does not count.
Fault(due) ==
  /\ due \/ faults < MaxFaults
  /\ faults' = IF due THEN faults ELSE faults + 1

\* supports: neither refused by this terminal nor in the cooldown.
Supports == ~unavailable /\ ~unimplemented

\* call: a split read submits both halves to the pool, any other read runs in
\* its caller's own thread.
Begin(k) ==
  /\ Len(reads) < MaxReads
  /\ reads' = Append(reads, k)
  /\ LET n == Len(reads) + 1 IN
     lane' = [lane EXCEPT ![n] =
                IF k \in SplitKeys THEN [i \in Sides |-> [@[i] EXCEPT !.at = "queued"]]
                ELSE [@ EXCEPT ![1].at = "lock"]]
  /\ UNCHANGED <<late, holder, sock, unavailable, unimplemented, rev, faults>>

\* The deadline the read inherited from its caller passes, while a half that it
\* can end is still under way.
Expire(n) ==
  /\ n \in 1..Len(reads) /\ n \notin late
  /\ \E i \in Sides : lane[n][i].at \in {"queued", "lock", "recv"}
  /\ late' = late \cup {n}
  /\ Fault(FALSE)
  /\ UNCHANGED <<reads, lane, holder, sock, unavailable, unimplemented, rev>>

Pooled == {ni \in (1..Len(reads)) \X Sides : Split(ni[1])}

\* One of the pool's two workers takes the oldest queued half; past its
\* deadline the half ends before it touches the client.
WorkerTakes(n, i) ==
  /\ n \in 1..Len(reads) /\ lane[n][i].at = "queued"
  /\ Cardinality({p \in Pooled : Running(p[1], p[2])}) < 2
  /\ \A p \in Pooled : lane[p[1]][p[2]].at = "queued" => p[1] > n \/ (p[1] = n /\ p[2] >= i)
  /\ lane' = [lane EXCEPT ![n][i].at = IF n \in late THEN "lost" ELSE "lock"]
  /\ UNCHANGED <<reads, late, holder, sock, unavailable, unimplemented, rev, faults>>

\* What is on the socket once the request was sent; one whose connect or send
\* fails has no answer to come.
Sending(n, i, try, sent, s) ==
  [s EXCEPT !.wire = IF sent
      THEN Append(@, [read |-> n, try |-> try,
                      frame |-> [key |-> reads[n], side |-> i, rev |-> rev]])
      ELSE @]

\* The client's lock is taken and the request sent, on the socket that is open
\* from the request before if there is one.
TakeClient(n, i, sent) ==
  /\ lane[n][i].at = "lock" /\ holder[i] = Nobody /\ n \notin late
  /\ holder' = [holder EXCEPT ![i] = n]
  /\ lane' = [lane EXCEPT ![n][i].at = "recv", ![n][i].try = 1]
  /\ sock' = [sock EXCEPT ![i] = Sending(n, i, 1, sent, @)]
  /\ UNCHANGED <<reads, late, unavailable, unimplemented, rev, faults>>

LockWaitEnds(n, i) ==
  /\ lane[n][i].at = "lock" /\ (holder[i] # Nobody \/ n \in late)
  /\ lane' = [lane EXCEPT ![n][i].at = "lost"]
  /\ UNCHANGED <<reads, late, holder, sock, unavailable, unimplemented, rev, faults>>

\* Mutant: any answer is taken for the request's own.
MatchingAny(n, i, f) == TRUE

\* The request's own answer: data, an error status, or "no such method".  What
\* comes before it on the socket is skipped.
Matching(n, i, f) == f.read = n /\ f.try = lane[n][i].try

Receive(n, i, at) ==
  /\ lane[n][i].at = "recv" /\ ~sock[i].torn
  /\ \E j \in DOMAIN sock[i].wire :
       /\ Matching(n, i, sock[i].wire[j])
       /\ \A before \in 1..(j - 1) : ~Matching(n, i, sock[i].wire[before])
       /\ sock' = [sock EXCEPT ![i].wire = SubSeq(@, j + 1, Len(@))]
       /\ lane' = [lane EXCEPT ![n][i] = [at |-> at, try |-> 0,
                     got |-> IF at = "ok" THEN sock[i].wire[j].frame ELSE NoFrame]]
  /\ holder' = [holder EXCEPT ![i] = Nobody]
  /\ Fault(at = "ok")
  /\ UNCHANGED <<reads, late, unavailable, unimplemented, rev>>

\* The attempt fails or times out, its deadline is found exhausted, or what was
\* received does not decode.  The first failure closes the socket and tries
\* again; the second leaves the socket as it is, in the middle of a frame if it
\* was reading one.
Fail(n, i, torn, sent) ==
  /\ lane[n][i].at = "recv"
  /\ Fault(n \in late)
  /\ \/ /\ lane[n][i].try = 1 /\ ~torn /\ n \notin late
        /\ sock' = [sock EXCEPT ![i] = Sending(n, i, 2, sent, Closed)]
        /\ lane' = [lane EXCEPT ![n][i].try = 2]
        /\ UNCHANGED holder
     \/ /\ lane[n][i].try = 2 \/ n \in late
        /\ ~sent /\ (torn => sock[i].wire # <<>>)
        /\ sock' = [sock EXCEPT ![i] = IF lane[n][i].try = 2
                                       THEN [sock[i] EXCEPT !.torn = @ \/ torn] ELSE Closed]
        /\ lane' = [lane EXCEPT ![n][i].at = "lost", ![n][i].try = 0]
        /\ holder' = [holder EXCEPT ![i] = Nobody]
  /\ UNCHANGED <<reads, late, unavailable, unimplemented, rev>>

LaneStep(n, i) ==
  \/ WorkerTakes(n, i) \/ LockWaitEnds(n, i)
  \/ \E at \in {"ok", "refused", "missing"} : Receive(n, i, at)
  \/ \E sent \in BOOLEAN : TakeClient(n, i, sent) \/ \E torn \in BOOLEAN : Fail(n, i, torn, sent)

-----------------------------------------------------------------------------
(* The caller's side of a read.                                            *)

\* All halves are there: the answer is every half's, in order.
Whole(n) == \A i \in Lanes(n) : lane[n][i].at = "ok"
Frames(n) == {lane[n][i].got : i \in Lanes(n)}

\* The first half that failed decides how the read failed: an unreachable
\* server opens the breaker, an unknown method is never tried again.
FirstFailed(n) == CHOOSE i \in Lanes(n) :
                    lane[n][i].at # "ok" /\ \A j \in Lanes(n) : lane[n][j].at # "ok" => i <= j

Decline(n) ==
  /\ \A i \in Lanes(n) : Ended(n, i)
  /\ ~Whole(n)
  /\ unavailable' = (unavailable \/ lane[n][FirstFailed(n)].at = "lost")
  /\ unimplemented' = (unimplemented \/ lane[n][FirstFailed(n)].at = "missing")
  /\ lane' = [lane EXCEPT ![n] = [i \in Sides |-> NoLane]]
  /\ UNCHANGED <<reads, late, holder, sock, rev, faults>>

\* The wait for the halves ends first: those still queued are canceled, those
\* running go on.  A deadline found exhausted before the wait cancels none.
GiveUp(n) ==
  /\ Split(n) /\ \E i \in Sides : ~Ended(n, i)
  /\ \/ lane' = [lane EXCEPT ![n] =
                   [i \in Sides |-> IF @[i].at = "queued" THEN [@[i] EXCEPT !.at = "canceled"]
                                    ELSE @[i]]]
     \/ n \in late /\ UNCHANGED lane
  /\ unavailable' = TRUE
  /\ Fault(n \in late)
  /\ UNCHANGED <<reads, late, holder, sock, unimplemented, rev>>

CooldownEnds ==
  /\ unavailable /\ unavailable' = FALSE
  /\ UNCHANGED <<reads, lane, late, holder, sock, unimplemented, rev, faults>>

FormulaNext ==
  \/ \E n \in Reads, i \in Sides : n \in 1..Len(reads) /\ LaneStep(n, i)
  \/ \E n \in Reads : Expire(n)
  \/ CooldownEnds

=============================================================================
