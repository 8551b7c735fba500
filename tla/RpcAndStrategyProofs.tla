------------------------ MODULE RpcAndStrategyProofs ------------------------
(***************************************************************************)
(* Proofs about the RPC plane, for every set of calls, queue limit, number *)
(* of stops and transport: calls are accounted for (RpcPlane's             *)
(* CallsAccounted) and keep the contract of RpcCall; and about the         *)
(* strategy thread that serves it, for any number of download jobs,        *)
(* symbols and faults: its download pump loses no job (PumpAccounts).      *)
(*                                                                         *)
(* The service is proved once: a request it has not seen may be accepted,  *)
(* what it holds it holds once, and only what it holds gets a reply.  Each *)
(* transport then owes it that a request it hands over is in one place.    *)
(***************************************************************************)
EXTENDS RpcPlane, StrategyTick, FiniteSetTheorems, SequenceTheorems, TLAPS

-----------------------------------------------------------------------------
(* Sequences without repetition *)

LEMMA Appended ==
  ASSUME NEW S, NEW q \in Seq(S), NEW e \in S
  PROVE  /\ Append(q, e) \in Seq(S) /\ Len(Append(q, e)) = Len(q) + 1
         /\ ToSet(Append(q, e)) = ToSet(q) \union {e}
         /\ IsInjective(q) /\ e \notin ToSet(q) => IsInjective(Append(q, e))
<1>1. /\ Append(q, e) \in Seq(S) /\ Len(Append(q, e)) = Len(q) + 1
      /\ \A i \in 1..Len(q) : Append(q, e)[i] = q[i]
      /\ Append(q, e)[Len(q) + 1] = e
  BY AppendProperties
<1>2. DOMAIN q = 1..Len(q) /\ DOMAIN Append(q, e) = 1..(Len(q) + 1) /\ Len(q) \in Nat
  BY <1>1
<1> QED BY <1>1, <1>2 DEF ToSet, IsInjective

LEMMA Taken ==
  ASSUME NEW S, NEW q \in Seq(S), q # <<>>
  PROVE  /\ Tail(q) \in Seq(S) /\ Len(Tail(q)) = Len(q) - 1 /\ Head(q) \in S
         /\ ToSet(q) = ToSet(Tail(q)) \union {Head(q)}
         /\ IsInjective(q) => IsInjective(Tail(q)) /\ Head(q) \notin ToSet(Tail(q))
<1>1. /\ Head(q) \in S /\ Tail(q) \in Seq(S) /\ Len(Tail(q)) = Len(q) - 1
      /\ \A i \in 1..Len(Tail(q)) : Tail(q)[i] = q[i + 1]
  BY HeadTailProperties
<1>2. DOMAIN q = 1..Len(q) /\ DOMAIN Tail(q) = 1..(Len(q) - 1) /\ Len(q) \in Nat \ {0}
  BY <1>1
<1>3. Head(q) = q[1]
  OBVIOUS
<1>4. ToSet(q) \subseteq ToSet(Tail(q)) \union {Head(q)}
  <2> SUFFICES ASSUME NEW i \in 1..Len(q), i # 1 PROVE q[i] \in ToSet(Tail(q))
    BY <1>2, <1>3 DEF ToSet
  <2>1. i - 1 \in 1..Len(Tail(q)) /\ Tail(q)[i - 1] = q[i]
    BY <1>1, <1>2
  <2> QED BY <1>1, <1>2, <2>1 DEF ToSet
<1>5. ToSet(Tail(q)) \union {Head(q)} \subseteq ToSet(q)
  BY <1>1, <1>2, <1>3 DEF ToSet
<1>6. IsInjective(q) => IsInjective(Tail(q)) /\ Head(q) \notin ToSet(Tail(q))
  BY <1>1, <1>2, <1>3 DEF IsInjective, ToSet
<1> QED BY <1>1, <1>4, <1>5, <1>6

\* Taking the last one, as BRPOP does.
LEMMA Popped ==
  ASSUME NEW S, NEW q \in Seq(S), q # <<>>
  PROVE  /\ SubSeq(q, 1, Len(q) - 1) \in Seq(S) /\ q[Len(q)] \in S
         /\ ToSet(q) = ToSet(SubSeq(q, 1, Len(q) - 1)) \union {q[Len(q)]}
         /\ IsInjective(q) => /\ IsInjective(SubSeq(q, 1, Len(q) - 1))
                              /\ q[Len(q)] \notin ToSet(SubSeq(q, 1, Len(q) - 1))
<1> DEFINE n == Len(q)
           p == SubSeq(q, 1, n - 1)
<1>1. n \in Nat \ {0} /\ \A i \in 1..n : q[i] \in S
  OBVIOUS
<1>2. /\ p \in Seq(S) /\ Len(p) = n - 1
      /\ \A i \in 1..(n - 1) : p[i] = q[i]
  <2>1. 1 \in Int /\ n - 1 \in Int /\ \A i \in 1..(n - 1) : q[i] \in S
    BY <1>1
  <2>2. /\ p \in Seq(S) /\ Len(p) = IF 1 <= n - 1 THEN n - 1 - 1 + 1 ELSE 0
        /\ \A i \in 1..(n - 1 - 1 + 1) : p[i] = q[1 + i - 1]
    BY ONLY <2>1, SubSeqProperties
  <2>3. \A i \in 1..(n - 1) : 1 + i - 1 = i
    BY <1>1
  <2> HIDE DEF p, n
  <2>4. n \in Nat \ {0}
    BY <1>1
  <2>5. n - 1 - 1 + 1 = n - 1 /\ (1 <= n - 1 \/ n - 1 = 0)
    BY ONLY <2>4
  <2> QED BY <2>2, <2>3, <2>5
<1>3. DOMAIN q = 1..n /\ DOMAIN p = 1..(n - 1)
  BY <1>1, <1>2
<1> HIDE DEF p
<1>4. ToSet(q) = ToSet(p) \union {q[n]}
  BY <1>1, <1>2, <1>3 DEF ToSet
<1>5. IsInjective(q) => IsInjective(p) /\ q[n] \notin ToSet(p)
  BY <1>1, <1>2, <1>3 DEF IsInjective, ToSet
<1> QED BY <1>1, <1>2, <1>4, <1>5 DEF p

LEMMA Removed ==
  ASSUME NEW S, NEW q \in Seq(S), NEW k \in 1..Len(q), IsInjective(q)
  PROVE  /\ RemoveAt(q, k) \in Seq(S)
         /\ ToSet(RemoveAt(q, k)) = ToSet(q) \ {q[k]}
         /\ IsInjective(RemoveAt(q, k))
<1> DEFINE n == Len(q)
           a == SubSeq(q, 1, k - 1)
           b == SubSeq(q, k + 1, n)
           r == RemoveAt(q, k)
<1>1. n \in Nat /\ k \in Nat /\ 1 <= k /\ k <= n /\ \A i \in 1..n : q[i] \in S
  OBVIOUS
<1>2. a \in Seq(S) /\ Len(a) = k - 1 /\ \A i \in 1..(k - 1) : a[i] = q[i]
  <2>1. 1 \in Int /\ k - 1 \in Int /\ \A i \in 1..(k - 1) : q[i] \in S
    BY <1>1
  <2>2. /\ a \in Seq(S) /\ Len(a) = IF 1 <= k - 1 THEN k - 1 - 1 + 1 ELSE 0
        /\ \A i \in 1..(k - 1 - 1 + 1) : a[i] = q[1 + i - 1]
    BY ONLY <2>1, SubSeqProperties
  <2> HIDE DEF a
  <2> QED BY <1>1, <2>2
<1>3. b \in Seq(S) /\ Len(b) = n - k /\ \A i \in 1..(n - k) : b[i] = q[k + i]
  <2>1. k + 1 \in Int /\ n \in Int /\ \A i \in (k + 1)..n : q[i] \in S
    BY <1>1
  <2>2. /\ b \in Seq(S) /\ Len(b) = IF k + 1 <= n THEN n - (k + 1) + 1 ELSE 0
        /\ \A i \in 1..(n - (k + 1) + 1) : b[i] = q[k + 1 + i - 1]
    BY ONLY <2>1, SubSeqProperties
  <2> HIDE DEF b
  <2> QED BY <1>1, <2>2
<1> HIDE DEF a, b
<1>4. /\ r \in Seq(S) /\ Len(r) = Len(a) + Len(b)
      /\ \A i \in 1..(Len(a) + Len(b)) : r[i] = IF i <= Len(a) THEN a[i] ELSE b[i - Len(a)]
  <2>1. r = a \o b
    BY DEF RemoveAt, a, b
  <2> HIDE DEF r
  <2> QED BY <1>2, <1>3, <2>1, ConcatProperties
<1>5. Len(r) = n - 1 /\ \A i \in 1..(n - 1) : r[i] = IF i < k THEN q[i] ELSE q[i + 1]
  <2> HIDE DEF r
  <2>1. Len(r) = n - 1
    BY <1>1, <1>2, <1>3, <1>4
  <2>2. ASSUME NEW i \in 1..(n - 1), i < k PROVE r[i] = q[i]
    BY <1>1, <1>2, <1>3, <1>4, <2>2
  <2>3. ASSUME NEW i \in 1..(n - 1), ~(i < k) PROVE r[i] = q[i + 1]
    <3>1. r[i] = b[i - (k - 1)]
      BY <1>1, <1>2, <1>3, <1>4, <2>3, SMTT(30)
    <3>2. i - (k - 1) \in 1..(n - k) /\ k + (i - (k - 1)) = i + 1
      BY <1>1, <2>3
    <3> QED BY <1>3, <3>1, <3>2
  <2> QED BY <2>1, <2>2, <2>3
<1>6. DOMAIN q = 1..n /\ DOMAIN r = 1..(n - 1)
  BY <1>4, <1>5
<1> HIDE DEF r
<1>7. IsInjective(r)
  BY <1>1, <1>5, <1>6 DEF IsInjective
<1>8. ToSet(r) \subseteq ToSet(q) \ {q[k]}
  BY <1>1, <1>5, <1>6 DEF IsInjective, ToSet
<1>9. ToSet(q) \ {q[k]} \subseteq ToSet(r)
  <2> SUFFICES ASSUME NEW i \in 1..n, i # k PROVE q[i] \in ToSet(r)
    BY <1>6 DEF ToSet
  <2>1. CASE i < k
    BY <1>1, <1>5, <1>6, <2>1 DEF ToSet
  <2>2. CASE i > k
    <3>1. i - 1 \in 1..(n - 1) /\ r[i - 1] = q[i]
      BY <1>1, <1>5, <2>2
    <3> QED BY <1>6, <3>1 DEF ToSet
  <2> QED BY <1>1, <2>1, <2>2
<1> QED BY <1>4, <1>7, <1>8, <1>9 DEF r

-----------------------------------------------------------------------------
(* The service *)

AtServer(c) == c \in ToSet(pending) \/ \E w \in Workers : work[w].call = c

\* A worker is free or has one call in its hands, and no other has it; what is
\* deferred is in nobody's hands, and is deferred once.
HeldOnce ==
  /\ \A w \in Workers : \/ work[w].call = None /\ work[w].at = "idle"
                        \/ work[w].call \in Calls /\ work[w].at \in {"check", "publish"}
  /\ \A v, w \in Workers : work[v].call = work[w].call /\ work[v].call \in Calls => v = w
  /\ IsInjective(pending)
  /\ \A c \in ToSet(pending) : \A w \in Workers : work[w].call # c

\* There is a response exactly from the moment the call was handled or refused.
RepliesKnown ==
  /\ \A c \in ToSet(pending) : reply[c] = None
  /\ \A w \in Workers : work[w].at = "check" => reply[work[w].call] = None
  /\ \A w \in Workers : work[w].at = "publish" => reply[work[w].call] # None
  /\ \A c \in Calls : reply[c] = None => runs[c] = 0

\* The service knows no call that was not made.
IdleUnknown == \A c \in Calls : caller[c] = "idle" => reply[c] = None /\ ~AtServer(c)

ServiceInv == ServiceType /\ HeldOnce /\ RepliesKnown /\ IdleUnknown

\* The service got to know at most call c, and no response but that of a call it
\* knows was made or changed.
Serves(c) ==
  /\ \A d \in Calls : d # c /\ AtServer(d)' => AtServer(d)
  /\ \A d \in Calls : d # c /\ ~AtServer(d) => reply'[d] = reply[d]
  /\ \A d \in Calls : reply[d] # None => reply'[d] = reply[d]

LEMMA ServiceStart == ServiceInit => ServiceInv
<1> SUFFICES ASSUME ServiceInit PROVE ServiceInv
  OBVIOUS
<1> USE ServiceConstants DEF ServiceInit, Free
<1>1. ServiceType
  BY DEF ServiceType
<1>2. ToSet(pending) = {}
  BY DEF ToSet
<1>3. IsInjective(pending)
  BY DEF IsInjective
<1> QED BY <1>1, <1>2, <1>3 DEF ServiceInv, HeldOnce, RepliesKnown, IdleUnknown, AtServer

\* What the callers do leaves the service alone.
LEMMA CallersServed ==
  ASSUME ServiceInv, UNCHANGED serviceVars,
         caller' \in [Calls -> {"idle", "waiting", "answered", "failed"}],
         late' \in [Calls -> BOOLEAN], got' \in [Calls -> [id : Calls, body : Bodies] \cup {None}],
         \A c \in Calls : caller'[c] = "idle" => caller[c] = "idle"
  PROVE  ServiceInv' /\ Serves(None)
<1>1. UNCHANGED <<pending, work, runs, reply, srv, stops>>
  BY DEF serviceVars
<1>2. \A c : AtServer(c)' <=> AtServer(c)
  BY <1>1 DEF AtServer
<1> QED BY <1>1, <1>2 DEF ServiceInv, ServiceType, HeldOnce, RepliesKnown, IdleUnknown, Serves

\* enqueue_payload, of a request the service has not seen.
LEMMA AcceptServes ==
  ASSUME ServiceInv, NEW w \in Workers, NEW c \in Calls, Accept(w, c), work[w] = Free,
         ~AtServer(c), reply[c] = None, caller[c] # "idle",
         UNCHANGED <<clientVars, srv, stops, runs>>
  PROVE  /\ ServiceInv' /\ Serves(c)
         /\ UNCHANGED reply \/ reply' = [reply EXCEPT ![c] = "overloaded"]
<1> USE ServiceConstants DEF ServiceInv
<1>0. work[w].call = None /\ work[w].at = "idle"
  BY DEF Free
<1>1. UNCHANGED reply \/ reply' = [reply EXCEPT ![c] = "overloaded"]
  BY DEF Accept
<1>2. UNCHANGED <<caller, late, got, srv, stops, runs>>
  BY DEF clientVars
<1>3. ASSUME NEW at \in {"check", "publish"}, work' = [work EXCEPT ![w] = Job(c, at)],
             UNCHANGED pending,
             at = "check" => UNCHANGED reply,
             at = "publish" => reply' = [reply EXCEPT ![c] = "overloaded"]
      PROVE  ServiceInv' /\ Serves(c)
  <2>1. /\ work' \in [Workers -> [call : Calls \cup {None}, at : {"idle", "check", "publish"}]]
        /\ work'[w].call = c /\ work'[w].at = at
        /\ \A v \in Workers : v # w => work'[v] = work[v]
    BY <1>3 DEF ServiceType, Job
  <2>2. /\ reply' \in [Calls -> Bodies \cup {None}]
        /\ \A d \in Calls : d # c => reply'[d] = reply[d]
        /\ at = "check" => reply'[c] = None
        /\ at = "publish" => reply'[c] # None
    BY <1>3 DEF ServiceType, Bodies
  <2>3. \A d \in Calls : AtServer(d)' <=> AtServer(d) \/ d = c
    BY <1>0, <1>3, <2>1 DEF AtServer
  <2>4. ServiceType'
    BY <1>2, <1>3, <2>1, <2>2 DEF ServiceType
  <2>5. HeldOnce'
    BY <1>3, <2>1 DEF HeldOnce, AtServer
  <2>6. RepliesKnown'
    <3>1. ToSet(pending) \subseteq Calls /\ c \notin ToSet(pending)
      BY DEF ServiceType, ToSet, AtServer
    <3>2. \A v \in Workers : v # w => work[v].call # c
      BY DEF AtServer
    <3>3. \A d \in ToSet(pending) : reply'[d] = None
      BY <2>2, <3>1 DEF RepliesKnown
    <3>4. \A v \in Workers : work'[v].at = "check" => reply'[work'[v].call] = None
      BY <2>1, <2>2, <3>2 DEF RepliesKnown, HeldOnce
    <3>5. \A v \in Workers : work'[v].at = "publish" => reply'[work'[v].call] # None
      BY <2>1, <2>2, <3>2 DEF RepliesKnown, HeldOnce
    <3>6. \A d \in Calls : reply'[d] = None => runs'[d] = 0
      BY <1>2, <2>2 DEF RepliesKnown
    <3> QED BY <1>3, <3>3, <3>4, <3>5, <3>6 DEF RepliesKnown
  <2>7. IdleUnknown'
    BY <1>2, <2>2, <2>3 DEF IdleUnknown
  <2>8. Serves(c)
    BY <2>2, <2>3 DEF Serves
  <2> QED BY <2>4, <2>5, <2>6, <2>7, <2>8
<1>4. CASE Len(pending) < QueueLimit /\ pending' = Append(pending, c) /\ UNCHANGED <<work, reply>>
  <2>1. /\ pending' \in Seq(Calls) /\ Len(pending') <= QueueLimit
        /\ ToSet(pending') = ToSet(pending) \union {c} /\ IsInjective(pending')
    <3>1. c \notin ToSet(pending) /\ pending \in Seq(Calls) /\ IsInjective(pending)
      BY DEF AtServer, ServiceType, HeldOnce
    <3>2. /\ Append(pending, c) \in Seq(Calls) /\ Len(Append(pending, c)) = Len(pending) + 1
          /\ ToSet(Append(pending, c)) = ToSet(pending) \union {c}
          /\ IsInjective(Append(pending, c))
      BY <3>1, Appended
    <3> QED BY <1>4, <3>1, <3>2
  <2>2. \A d \in Calls : AtServer(d)' <=> AtServer(d) \/ d = c
    BY <1>4, <2>1 DEF AtServer
  <2>3. ServiceType'
    BY <1>2, <1>4, <2>1 DEF ServiceType
  <2>4. HeldOnce'
    BY <1>4, <2>1 DEF HeldOnce, AtServer
  <2>5. RepliesKnown' /\ IdleUnknown'
    BY <1>2, <1>4, <2>1, <2>2 DEF RepliesKnown, IdleUnknown
  <2> QED BY <1>4, <2>2, <2>3, <2>4, <2>5 DEF Serves
<1>5. \/ \E at \in {"check", "publish"} :
           /\ work' = [work EXCEPT ![w] = Job(c, at)] /\ UNCHANGED pending
           /\ at = "check" => UNCHANGED reply
           /\ at = "publish" => reply' = [reply EXCEPT ![c] = "overloaded"]
      \/ Len(pending) < QueueLimit /\ pending' = Append(pending, c) /\ UNCHANGED <<work, reply>>
  BY DEF Accept
<1> QED BY <1>1, <1>3, <1>4, <1>5

\* process_request: the call is in the hands of the worker, and has one outcome.
LEMMA HandleServes ==
  ASSUME ServiceInv, NEW w \in Workers, NEW dated, Handle(w, dated)
  PROVE  /\ ServiceInv' /\ Serves(None) /\ UNCHANGED <<clientVars, srv, stops, pending>>
         /\ work[w].call \in Calls /\ AtServer(work[w].call) /\ reply[work[w].call] = None
         /\ \E outcome \in Outcomes(work[w].call, work[w].call \in dated) :
              /\ reply' = [reply EXCEPT ![work[w].call] = outcome]
              /\ runs' = [runs EXCEPT ![work[w].call] = IF outcome = "result" THEN 1 ELSE 0]
<1> USE ServiceConstants DEF ServiceInv
<1> DEFINE c == work[w].call
<1>1. /\ work[w].at = "check" /\ UNCHANGED <<clientVars, srv, stops, pending>>
      /\ work' = [work EXCEPT ![w] = Job(c, "publish")]
  BY DEF Handle
<1>2. c \in Calls /\ reply[c] = None /\ runs[c] = 0 /\ AtServer(c)
  BY <1>1 DEF HeldOnce, RepliesKnown, AtServer
<1>3. PICK outcome \in Outcomes(c, c \in dated) :
        /\ reply' = [reply EXCEPT ![c] = outcome]
        /\ runs' = [runs EXCEPT ![c] = IF outcome = "result" THEN runs[c] + 1 ELSE runs[c]]
  BY DEF Handle
<1>4. outcome \in Bodies /\ outcome # None
  BY <1>3 DEF Outcomes, Bodies
<1> HIDE DEF c
<1>5. runs' = [runs EXCEPT ![c] = IF outcome = "result" THEN 1 ELSE 0]
  BY <1>2, <1>3
<1>6. /\ work' \in [Workers -> [call : Calls \cup {None}, at : {"idle", "check", "publish"}]]
      /\ work'[w].call = c /\ work'[w].at = "publish"
      /\ \A v \in Workers : v # w => work'[v] = work[v]
  BY <1>1, <1>2 DEF ServiceType, Job
<1>7. /\ reply' \in [Calls -> Bodies \cup {None}] /\ runs' \in [Calls -> Nat]
      /\ reply'[c] # None /\ \A d \in Calls : d # c => reply'[d] = reply[d] /\ runs'[d] = runs[d]
  BY <1>2, <1>3, <1>4, <1>5 DEF ServiceType
<1>8. \A v \in Workers : work'[v].call = work[v].call
  BY <1>6 DEF c
<1>9. \A d : AtServer(d)' <=> AtServer(d)
  BY <1>1, <1>8 DEF AtServer
<1>10. UNCHANGED <<caller, late, got, srv, stops, pending>>
  BY <1>1 DEF clientVars
<1>11. ServiceType'
  BY <1>6, <1>7, <1>10 DEF ServiceType
<1>12. HeldOnce'
  BY <1>2, <1>6, <1>8, <1>10 DEF HeldOnce
<1>13. RepliesKnown'
  <2>1. c \notin ToSet(pending) /\ ToSet(pending) \subseteq Calls
    <3>1. \A d \in ToSet(pending) : work[w].call # d
      BY DEF HeldOnce
    <3>2. ToSet(pending) \subseteq Calls
      BY DEF ServiceType, ToSet
    <3> QED BY <3>1, <3>2 DEF c
  <2>2. \A v \in Workers : v # w => work[v].call # c
    <3>1. \A v \in Workers : work[v].call = work[w].call /\ work[v].call \in Calls => v = w
      BY DEF HeldOnce
    <3> QED BY <1>2, <3>1 DEF c
  <2>3. \A d \in ToSet(pending') : reply'[d] = None
    BY <1>7, <1>10, <2>1 DEF RepliesKnown
  <2>4. \A v \in Workers : work'[v].at = "check" => reply'[work'[v].call] = None
    BY <1>6, <1>7, <2>2 DEF RepliesKnown, HeldOnce
  <2>5. \A v \in Workers : work'[v].at = "publish" => reply'[work'[v].call] # None
    BY <1>6, <1>7, <2>2 DEF RepliesKnown, HeldOnce
  <2>6. \A d \in Calls : reply'[d] = None => runs'[d] = 0
    BY <1>7 DEF RepliesKnown
  <2> QED BY <2>3, <2>4, <2>5, <2>6 DEF RepliesKnown
<1>14. IdleUnknown'
  BY <1>2, <1>7, <1>9, <1>10 DEF IdleUnknown
<1>15. Serves(None)
  BY <1>2, <1>7, <1>9 DEF Serves
<1> QED BY <1>1, <1>2, <1>3, <1>5, <1>11, <1>12, <1>13, <1>14, <1>15 DEF c

\* A worker is done with its call, or dies with it.
LEMMA LetGoServes ==
  ASSUME ServiceInv, NEW w \in Workers, work' = [work EXCEPT ![w] = Free],
         UNCHANGED <<clientVars, stops, pending, runs, reply>>, srv' \in {"down", "up", "stopping"}
  PROVE  ServiceInv' /\ Serves(None)
<1> USE ServiceConstants DEF ServiceInv
<1>1. /\ work' \in [Workers -> [call : Calls \cup {None}, at : {"idle", "check", "publish"}]]
      /\ work'[w].call = None /\ work'[w].at = "idle"
      /\ \A v \in Workers : v # w => work'[v] = work[v]
  BY DEF ServiceType, Free
<1>2. UNCHANGED <<caller, late, got, stops, pending, runs, reply>>
  BY DEF clientVars
<1>3. \A d \in Calls : AtServer(d)' => AtServer(d)
  BY <1>1, <1>2 DEF AtServer
<1>4. ServiceType'
  BY <1>1, <1>2 DEF ServiceType
<1>5. HeldOnce'
  <2>1. \A c \in ToSet(pending) : c # None
    BY DEF ServiceType, ToSet
  <2> QED BY <1>1, <1>2, <2>1 DEF HeldOnce
<1>6. RepliesKnown' /\ IdleUnknown'
  BY <1>1, <1>2, <1>3 DEF RepliesKnown, IdleUnknown
<1>7. Serves(None)
  BY <1>2, <1>3 DEF Serves
<1> QED BY <1>4, <1>5, <1>6, <1>7

\* start(), stop() and the end of the threads: what was deferred is dropped or kept.
LEMMA SwitchServes ==
  ASSUME ServiceInv, srv' \in {"down", "up", "stopping"}, stops' \in 0..MaxStops,
         pending' = <<>> \/ UNCHANGED pending, UNCHANGED <<clientVars, work, runs, reply>>
  PROVE  ServiceInv' /\ Serves(None)
<1> USE ServiceConstants DEF ServiceInv
<1>1. /\ pending' \in Seq(Calls) /\ Len(pending') <= QueueLimit /\ IsInjective(pending')
      /\ ToSet(pending') \subseteq ToSet(pending)
  <2>1. <<>> \in Seq(Calls) /\ Len(<<>>) = 0 /\ QueueLimit \in Nat
    OBVIOUS
  <2>2. IsInjective(<<>>) /\ ToSet(<<>>) = {}
    BY DEF IsInjective, ToSet
  <2>3. CASE pending' = <<>>
    BY <2>1, <2>2, <2>3
  <2>4. CASE UNCHANGED pending
    BY <2>4 DEF ServiceType, HeldOnce
  <2> QED BY <2>3, <2>4
<1>2. UNCHANGED <<caller, late, got, work, runs, reply>>
  BY DEF clientVars
<1>3. \A d \in Calls : AtServer(d)' => AtServer(d)
  BY <1>1, <1>2 DEF AtServer
<1>4. ServiceType'
  BY <1>1, <1>2 DEF ServiceType
<1>5. HeldOnce' /\ RepliesKnown' /\ IdleUnknown'
  BY <1>1, <1>2, <1>3 DEF HeldOnce, RepliesKnown, IdleUnknown
<1>6. Serves(None)
  BY <1>2, <1>3 DEF Serves
<1> QED BY <1>4, <1>5, <1>6

\* The tick takes the oldest deferred request in its hands.
LEMMA DrainServes ==
  ASSUME ServiceInv, DrainPending
  PROVE  ServiceInv' /\ Serves(None) /\ UNCHANGED <<clientVars, srv, stops, runs, reply>>
<1> USE ServiceConstants DEF ServiceInv
<1> DEFINE c == Head(pending)
<1>1. /\ work["tick"] = Free /\ pending # <<>> /\ pending' = Tail(pending)
      /\ work' = [work EXCEPT !["tick"] = Job(c, "check")]
      /\ UNCHANGED <<clientVars, srv, stops, runs, reply>>
  BY DEF DrainPending
<1>2. "tick" \in Workers /\ work["tick"].call = None
  BY <1>1 DEF Workers, Free
<1>3. /\ pending' \in Seq(Calls) /\ Len(pending') <= QueueLimit /\ c \in Calls
      /\ ToSet(pending) = ToSet(pending') \union {c}
      /\ IsInjective(pending') /\ c \notin ToSet(pending')
  <2>1. pending \in Seq(Calls) /\ Len(pending) <= QueueLimit /\ IsInjective(pending)
    BY DEF ServiceType, HeldOnce
  <2>2. /\ Tail(pending) \in Seq(Calls) /\ Len(Tail(pending)) = Len(pending) - 1 /\ c \in Calls
        /\ ToSet(pending) = ToSet(Tail(pending)) \union {c}
        /\ IsInjective(Tail(pending)) /\ c \notin ToSet(Tail(pending))
    BY <1>1, <2>1, Taken
  <2> QED BY <1>1, <2>1, <2>2
<1> HIDE DEF c
<1>4. /\ work' \in [Workers -> [call : Calls \cup {None}, at : {"idle", "check", "publish"}]]
      /\ work'["tick"].call = c /\ work'["tick"].at = "check"
      /\ \A v \in Workers : v # "tick" => work'[v] = work[v]
  BY <1>1, <1>2, <1>3 DEF ServiceType, Job
<1>5. UNCHANGED <<caller, late, got, srv, stops, runs, reply>>
  BY <1>1 DEF clientVars
<1>6. \A d \in Calls : AtServer(d)' => AtServer(d)
  BY <1>3, <1>4 DEF AtServer
<1>7. ServiceType'
  BY <1>3, <1>4, <1>5 DEF ServiceType
<1>8. HeldOnce' /\ RepliesKnown'
  BY <1>2, <1>3, <1>4, <1>5 DEF HeldOnce, RepliesKnown
<1>9. IdleUnknown' /\ Serves(None)
  BY <1>5, <1>6 DEF IdleUnknown, Serves
<1> QED BY <1>1, <1>7, <1>8, <1>9

-----------------------------------------------------------------------------
(* Steps of the contract *)

\* A step of a transport is a step of RpcCall, or none.
Kept == [RC!Next]_(RC!vars)

LEMMA OverdueKept == ASSUME UNCHANGED <<late, kind>> PROVE UNCHANGED Overdue
  BY DEF Overdue, Dated, StoreDated

LEMMA NothingHappened == ASSUME UNCHANGED <<caller, late, got, runs, reply, kind>> PROVE Kept
  BY OverdueKept DEF Kept, RC!vars

LEMMA CallMade ==
  ASSUME NEW c \in Calls, caller[c] = "idle", Ends(c, "waiting"),
         UNCHANGED <<late, got, runs, reply, kind>>
  PROVE  Kept
<1>1. RC!Send(c)
  BY OverdueKept DEF RC!Send, Ends
<1> QED BY <1>1 DEF Kept, RC!Next

LEMMA CallFailed ==
  ASSUME NEW c \in Calls, caller[c] \in {"idle", "waiting"}, Ends(c, "failed"),
         UNCHANGED <<late, got, runs, reply, kind>>
  PROVE  Kept
<1>1. RC!Fail(c)
  BY OverdueKept DEF RC!Fail, Ends
<1> QED BY <1>1 DEF Kept, RC!Next

LEMMA CallAnswered ==
  ASSUME NEW c \in Calls, caller[c] = "waiting", reply[c] # None, Answered(c, c),
         UNCHANGED <<late, runs, reply, kind>>
  PROVE  Kept
<1>1. RC!Answer(c)
  BY OverdueKept DEF RC!Answer, Answered, Ends
<1> QED BY <1>1 DEF Kept, RC!Next

LEMMA CallExpired ==
  ASSUME ServiceType, NEW c \in Calls, Expire(c), UNCHANGED kind
  PROVE  Kept
<1>1. UNCHANGED <<caller, got, runs, reply>> /\ late' = [late EXCEPT ![c] = TRUE]
  BY DEF Expire, serviceVars
<1>2. late \in [Calls -> BOOLEAN] /\ Dated' = Dated
  BY <1>1 DEF ServiceType, Dated, StoreDated
<1>3. CASE c \in Dated
  <2>1. Overdue' = [Overdue EXCEPT ![c] = TRUE]
    <3>1. DOMAIN Overdue' = Calls /\ DOMAIN Overdue = Calls
      BY DEF Overdue
    <3>2. \A d \in Calls : Overdue'[d] = [Overdue EXCEPT ![c] = TRUE][d]
      BY <1>1, <1>2, <1>3 DEF Overdue
    <3> QED BY <3>1, <3>2 DEF Overdue
  <2>2. RC!Expire(c)
    BY <1>1, <2>1 DEF RC!Expire
  <2> QED BY <2>2 DEF Kept, RC!Next
<1>4. CASE c \notin Dated
  <2>1. \A d \in Calls : (late'[d] /\ d \in Dated') <=> (late[d] /\ d \in Dated)
    BY <1>1, <1>2, <1>4
  <2>2. UNCHANGED Overdue
    BY <2>1 DEF Overdue
  <2> QED BY <1>1, <2>2 DEF Kept, RC!vars
<1> QED BY <1>3, <1>4

LEMMA CallRefused ==
  ASSUME NEW c \in Calls, caller[c] # "idle", reply[c] = None,
         UNCHANGED reply \/ reply' = [reply EXCEPT ![c] = "overloaded"],
         UNCHANGED <<caller, late, got, runs, kind>>
  PROVE  Kept
<1>1. CASE UNCHANGED reply
  BY <1>1, NothingHappened
<1>2. CASE reply' = [reply EXCEPT ![c] = "overloaded"]
  <2>1. RC!Refuse(c)
    BY <1>2, OverdueKept DEF RC!Refuse, RC!Refusals
  <2> QED BY <2>1 DEF Kept, RC!Next
<1> QED BY <1>1, <1>2

LEMMA CallHandled ==
  ASSUME ServiceInv, NEW w \in Workers, Handle(w, Dated), UNCHANGED kind
  PROVE  Kept
<1> DEFINE c == work[w].call
<1>1. UNCHANGED <<caller, late, got>>
  BY HandleServes DEF clientVars
<1>2. c \in Calls /\ reply[c] = None /\ AtServer(c)
  BY HandleServes
<1>3. PICK outcome \in Outcomes(c, c \in Dated) :
        /\ reply' = [reply EXCEPT ![c] = outcome]
        /\ runs' = [runs EXCEPT ![c] = IF outcome = "result" THEN 1 ELSE 0]
  BY HandleServes
<1> HIDE DEF c
<1>4. caller[c] # "idle" /\ runs[c] = 0 /\ runs \in [Calls -> Nat]
  BY <1>2 DEF ServiceInv, IdleUnknown, RepliesKnown, ServiceType
<1>5. CASE outcome = "result"
  <2>1. ~Overdue[c]
    BY <1>2, <1>3, <1>5 DEF Outcomes, Overdue
  <2>2. RC!Execute(c)
    BY <1>1, <1>2, <1>3, <1>4, <1>5, <2>1, OverdueKept DEF RC!Execute
  <2> QED BY <1>2, <2>2 DEF Kept, RC!Next
<1>6. CASE outcome # "result"
  <2>1. outcome \in RC!Refusals
    BY <1>3, <1>6 DEF Outcomes, RC!Refusals
  <2>2. UNCHANGED runs
    BY <1>3, <1>4, <1>6
  <2>3. RC!Refuse(c)
    BY <1>1, <1>2, <1>3, <1>4, <2>1, <2>2, OverdueKept DEF RC!Refuse
  <2> QED BY <1>2, <2>3 DEF Kept, RC!Next
<1> QED BY <1>5, <1>6

-----------------------------------------------------------------------------
(* The transports over a store *)

Claimed(w) == ToSet(mine[w])

\* A request that waits for the service: in the list, published, or claimed.
Unread(c) == c \in Rows \/ c \in chan \/ \E w \in Workers : c \in Claimed(w)

\* It waits in one place, and once.
UnreadOnce ==
  /\ IsInjective(list) /\ \A w \in Workers : IsInjective(mine[w])
  /\ Rows \intersect chan = {}
  /\ \A w \in Workers : Claimed(w) \intersect (Rows \union chan) = {}
  /\ \A v, w \in Workers : v # w => Claimed(v) \intersect Claimed(w) = {}

\* Somebody made it, and the service has not seen it.
UnreadUnseen ==
  \A c \in Calls : Unread(c) => caller[c] # "idle" /\ reply[c] = None /\ ~AtServer(c)

StoredIsReply == \A c \in Calls : resp[c] => reply[c] # None

ZmqUnused == ZmqType /\ dealer = 0 /\ cq = <<>>

StoreInv ==
  /\ ServiceInv /\ StoreType /\ kind # "zmq"
  /\ UnreadOnce /\ UnreadUnseen /\ StoredIsReply /\ ZmqUnused

LEMMA RowsAreCalls ==
  ASSUME StoreType
  PROVE  Rows \subseteq Calls /\ chan \subseteq Calls /\ \A w \in Workers : Claimed(w) \subseteq Calls
BY DEF StoreType, Rows, Claimed, ToSet

LEMMA StoreStart ==
  ASSUME ServiceInit, StoreInit, ZmqInit, kind \in {"redis", "mysql"}, rx = "listener"
  PROVE  StoreInv
<1>1. ToSet(<<>>) = {} /\ IsInjective(<<>>)
  BY DEF ToSet, IsInjective
<1>2. StoreType /\ \A w \in Workers : mine[w] = <<>>
  <2>1. <<>> \in Seq(Calls)
    OBVIOUS
  <2>2. /\ seen \in [Workers -> SUBSET Calls] /\ mine \in [Workers -> Seq(Calls)]
        /\ resp \in [Calls -> BOOLEAN]
    BY <2>1 DEF StoreInit
  <2> QED BY <2>1, <2>2 DEF StoreInit, StoreType
<1>3. Rows = {} /\ chan = {} /\ \A w \in Workers : Claimed(w) = {}
  BY <1>1, <1>2 DEF StoreInit, Rows, Claimed
<1>4. UnreadOnce /\ UnreadUnseen
  BY <1>1, <1>2, <1>3 DEF UnreadOnce, UnreadUnseen, Unread, StoreInit
<1>5. StoredIsReply
  BY DEF StoreInit, StoredIsReply
<1>6. ZmqUnused
  <2>1. <<>> \in Seq(Calls \cup {STOP}) /\ <<>> \in Seq((1..opened) \X Calls)
    OBVIOUS
  <2>2. dealer \in 0..opened /\ opened \in Nat /\ ident \in [Calls -> 0..opened]
    BY DEF ZmqInit
  <2>3. box \in [Calls -> {"open", "cancelled", "reply", "error"}]
    BY DEF ZmqInit
  <2> QED BY <2>1, <2>2, <2>3 DEF ZmqInit, ZmqUnused, ZmqType
<1> QED BY <1>2, <1>4, <1>5, <1>6, ServiceStart DEF StoreInv

\* Fewer requests wait, each where it did.
LEMMA FewerUnread ==
  ASSUME UnreadOnce, Rows' \subseteq Rows, chan' \subseteq chan,
         \A w \in Workers : ToSet(mine[w])' \subseteq ToSet(mine[w]) /\ IsInjective(mine[w])',
         IsInjective(list)'
  PROVE  UnreadOnce' /\ \A c : Unread(c)' => Unread(c)
BY DEF UnreadOnce, Unread, Claimed

\* What a step may do to the requests that wait: the one the service takes (or
\* none) waits no more, and only a call made by it starts to wait.
LEMMA StoreKeeps ==
  ASSUME StoreInv, ServiceInv', StoreType', UnreadOnce', UNCHANGED <<kind, zmqVars>>,
         NEW taken, Serves(taken),
         \A c \in Calls : caller'[c] = "idle" => caller[c] = "idle",
         \A c \in Calls : Unread(c)' =>
           /\ c # taken
           /\ Unread(c) \/ (caller[c] = "idle" /\ caller'[c] # "idle"),
         \A c \in Calls : resp'[c] => resp[c] \/ reply[c] # None
  PROVE  StoreInv'
<1> USE DEF StoreInv
<1>1. UnreadUnseen'
  <2> SUFFICES ASSUME NEW c \in Calls, Unread(c)'
               PROVE  caller'[c] # "idle" /\ reply'[c] = None /\ ~AtServer(c)'
    BY DEF UnreadUnseen
  <2>1. c # taken /\ caller'[c] # "idle"
    BY DEF UnreadUnseen
  <2>2. reply[c] = None /\ ~AtServer(c)
    BY DEF UnreadUnseen, ServiceInv, IdleUnknown
  <2> QED BY <2>1, <2>2 DEF Serves
<1>2. StoredIsReply'
  BY DEF StoredIsReply, Serves
<1>3. ZmqUnused' /\ kind' # "zmq"
  BY DEF ZmqUnused, zmqVars, ioVars, netVars, routerVars, ZmqType
<1> QED BY <1>1, <1>2, <1>3

\* Steps that neither make nor take a request.
LEMMA StoreRests ==
  ASSUME StoreInv, ServiceInv', Serves(None), StoreType', UNCHANGED <<kind, zmqVars>>,
         Rows' \subseteq Rows, chan' \subseteq chan,
         \A w \in Workers : ToSet(mine[w])' \subseteq ToSet(mine[w]) /\ IsInjective(mine[w])',
         IsInjective(list)',
         \A c \in Calls : caller'[c] = "idle" => caller[c] = "idle",
         \A c \in Calls : resp'[c] => resp[c] \/ reply[c] # None
  PROVE  StoreInv'
<1>1. UnreadOnce' /\ \A c : Unread(c)' => Unread(c)
  BY FewerUnread DEF StoreInv
<1>2. \A c \in Calls : c # None
  BY ServiceConstants
<1> QED BY <1>1, <1>2, StoreKeeps

\* A step that is none of the store's business.
LEMMA StoreUntouched ==
  ASSUME StoreInv, ServiceInv', Serves(None), UNCHANGED <<storeVars, zmqVars>>,
         \A c \in Calls : caller'[c] = "idle" => caller[c] = "idle"
  PROVE  StoreInv'
<1>1. UNCHANGED <<kind, list, sub, chan, seen, mine, resp>>
  BY DEF storeVars
<1>2. StoreType' /\ Rows' = Rows /\ IsInjective(list)'
  BY <1>1 DEF StoreInv, StoreType, Rows, UnreadOnce
<1>3. \A w \in Workers : ToSet(mine[w])' \subseteq ToSet(mine[w]) /\ IsInjective(mine[w])'
  BY <1>1 DEF StoreInv, UnreadOnce
<1> QED BY <1>1, <1>2, <1>3, StoreRests

LEMMA Untouched ==
  ASSUME ServiceInv, UNCHANGED <<clientVars, serviceVars>>
  PROVE  ServiceInv' /\ Serves(None)
<1>1. UNCHANGED <<caller, late, got>>
  BY DEF clientVars
<1> QED BY <1>1, CallersServed DEF ServiceInv, ServiceType

\* The rest of StoreKeeps, for a step of a thread of the server that hands request c
\* to the service or drops it.
LEMMA TakeServes ==
  ASSUME StoreInv, NEW w \in Workers, NEW c \in Calls, work[w] = Free, Unread(c),
         TakeOrDrop(w, c), UNCHANGED <<clientVars, srv, stops, runs, kind>>
  PROVE  ServiceInv' /\ Serves(c) /\ Kept
<1>1. caller[c] # "idle" /\ reply[c] = None /\ ~AtServer(c)
  BY DEF StoreInv, UnreadUnseen
<1>2. UNCHANGED <<caller, late, got>>
  BY DEF clientVars
<1>3. CASE Accept(w, c)
  BY <1>1, <1>2, <1>3, AcceptServes, CallRefused DEF StoreInv
<1>4. CASE UNCHANGED <<pending, work, reply>>
  <2>1. ServiceInv' /\ Serves(None)
    BY <1>4, Untouched DEF StoreInv, serviceVars
  <2>2. Serves(c)
    BY <1>4 DEF Serves, AtServer
  <2> QED BY <1>2, <1>4, <2>1, <2>2, NothingHappened
<1> QED BY <1>3, <1>4 DEF TakeOrDrop

\* A thread takes request c out of its place; the others wait where they did.
LEMMA StoreTakes ==
  ASSUME StoreInv, NEW w \in Workers, NEW c \in Calls, work[w] = Free, Unread(c),
         TakeOrDrop(w, c), UNCHANGED <<clientVars, srv, stops, runs, kind, zmqVars, resp>>,
         StoreType', Rows' \subseteq Rows, chan' \subseteq chan,
         \A v \in Workers : ToSet(mine[v])' \subseteq ToSet(mine[v]) /\ IsInjective(mine[v])',
         IsInjective(list)', ~Unread(c)'
  PROVE  StoreInv' /\ Kept
<1>1. UnreadOnce' /\ \A d : Unread(d)' => Unread(d)
  BY FewerUnread DEF StoreInv
<1>2. ServiceInv' /\ Serves(c) /\ Kept
  BY TakeServes
<1>3. UNCHANGED caller
  BY DEF clientVars
<1> QED BY <1>1, <1>2, <1>3, StoreKeeps

\* The callers.
LEMMA RedisSends ==
  ASSUME StoreInv, NEW c \in Calls, RedisSend(c), UNCHANGED zmqVars
  PROVE  StoreInv' /\ Kept
<1> USE DEF StoreInv
<1>1. /\ caller[c] = "idle" /\ Ends(c, "waiting")
      /\ UNCHANGED <<late, got, serviceVars, kind, sub, seen, mine, resp>>
      /\ \/ list' = Append(list, c) /\ UNCHANGED chan
         \/ (chan' = IF sub THEN chan \cup {c} ELSE chan) /\ UNCHANGED list
  BY DEF RedisSend
<1>2. /\ caller' \in [Calls -> {"idle", "waiting", "answered", "failed"}]
      /\ caller'[c] = "waiting" /\ \A d \in Calls : d # c => caller'[d] = caller[d]
  BY <1>1 DEF Ends, ServiceInv, ServiceType
<1>3. ServiceInv' /\ Serves(None)
  BY <1>1, <1>2, CallersServed DEF ServiceInv, ServiceType
<1>4. Kept
  BY <1>1, CallMade DEF serviceVars
<1>5. /\ list \in Seq(Calls) /\ IsInjective(list) /\ c \notin Rows /\ c \notin chan
      /\ \A w \in Workers : c \notin Claimed(w)
  BY <1>1 DEF StoreType, UnreadOnce, UnreadUnseen, Unread
<1>6. CASE list' = Append(list, c) /\ UNCHANGED chan
  <2>1. list' \in Seq(Calls) /\ Rows' = Rows \union {c} /\ IsInjective(list)'
    BY <1>5, <1>6, Appended DEF Rows
  <2>2. StoreType'
    BY <1>1, <1>6, <2>1 DEF StoreType
  <2>3. UnreadOnce'
    BY <1>1, <1>5, <1>6, <2>1 DEF UnreadOnce, Claimed
  <2>4. \A d \in Calls : Unread(d)' => Unread(d) \/ d = c
    BY <1>1, <1>6, <2>1 DEF Unread, Claimed
  <2> QED BY <1>1, <1>2, <1>3, <1>4, <2>2, <2>3, <2>4, ServiceConstants, StoreKeeps
<1>7. CASE (chan' = IF sub THEN chan \cup {c} ELSE chan) /\ UNCHANGED list
  <2>1. chan' \subseteq chan \union {c} /\ Rows' = Rows
    BY <1>7 DEF Rows
  <2>2. StoreType'
    BY <1>1, <1>7, <2>1 DEF StoreType
  <2>3. UnreadOnce'
    <3>1. list' = list /\ mine' = mine /\ \A w \in Workers : Claimed(w)' = Claimed(w)
      BY <1>1, <1>7 DEF Claimed
    <3>2. Rows \intersect chan' = {}
      BY <1>5, <2>1 DEF UnreadOnce
    <3>3. \A w \in Workers : Claimed(w) \intersect (Rows \union chan') = {}
      BY <1>5, <2>1 DEF UnreadOnce
    <3> QED BY <2>1, <3>1, <3>2, <3>3 DEF UnreadOnce
  <2>4. \A d \in Calls : Unread(d)' => Unread(d) \/ d = c
    BY <1>1, <2>1 DEF Unread, Claimed
  <2> QED BY <1>1, <1>2, <1>3, <1>4, <2>2, <2>3, <2>4, ServiceConstants, StoreKeeps
<1> QED BY <1>1, <1>6, <1>7

LEMMA MysqlSends ==
  ASSUME StoreInv, NEW c \in Calls, MysqlSend(c), UNCHANGED zmqVars
  PROVE  StoreInv' /\ Kept
<1> USE DEF StoreInv
<1>1. /\ caller[c] = "idle" /\ Ends(c, "waiting") /\ list' = Append(list, c)
      /\ UNCHANGED <<late, got, serviceVars, kind, sub, chan, seen, mine, resp>>
  BY DEF MysqlSend
<1>2. /\ caller' \in [Calls -> {"idle", "waiting", "answered", "failed"}]
      /\ caller'[c] = "waiting" /\ \A d \in Calls : d # c => caller'[d] = caller[d]
  BY <1>1 DEF Ends, ServiceInv, ServiceType
<1>3. ServiceInv' /\ Serves(None)
  BY <1>1, <1>2, CallersServed DEF ServiceInv, ServiceType
<1>4. Kept
  BY <1>1, CallMade DEF serviceVars
<1>5. /\ list \in Seq(Calls) /\ IsInjective(list) /\ c \notin Rows /\ c \notin chan
      /\ \A w \in Workers : c \notin Claimed(w)
  BY <1>1 DEF StoreType, UnreadOnce, UnreadUnseen, Unread
<1>6. list' \in Seq(Calls) /\ Rows' = Rows \union {c} /\ IsInjective(list)'
  BY <1>1, <1>5, Appended DEF Rows
<1>7. StoreType'
  BY <1>1, <1>6 DEF StoreType
<1>8. UnreadOnce'
  BY <1>1, <1>5, <1>6 DEF UnreadOnce, Claimed
<1>9. \A d \in Calls : Unread(d)' => Unread(d) \/ d = c
  BY <1>1, <1>6 DEF Unread, Claimed
<1> QED BY <1>1, <1>2, <1>3, <1>4, <1>7, <1>8, <1>9, ServiceConstants, StoreKeeps

\* A caller takes its reply, or gives up.
LEMMA CallerLeaves ==
  ASSUME StoreInv, NEW c \in Calls, RedisTakes(c) \/ MysqlTakes(c) \/ SLosesStore(c),
         UNCHANGED zmqVars
  PROVE  StoreInv' /\ Kept
<1> USE DEF StoreInv
<1>1. /\ caller[c] = "waiting"
      /\ \/ resp[c] /\ Answered(c, c)
         \/ Ends(c, "failed") /\ UNCHANGED got
      /\ resp' = resp \/ resp' = [resp EXCEPT ![c] = FALSE]
      /\ UNCHANGED <<late, serviceVars, kind, list, sub, chan, seen, mine>>
  BY DEF RedisTakes, MysqlTakes, SLosesStore, storeVars
<1>2. resp[c] => reply[c] \in Bodies
  BY DEF StoredIsReply, ServiceInv, ServiceType
<1>3. Kept
  BY <1>1, <1>2, ServiceConstants, CallAnswered, CallFailed DEF serviceVars, StoredIsReply
<1>4. PICK how \in {"answered", "failed"} : Ends(c, how)
  BY <1>1 DEF Answered
<1>5. /\ caller' \in [Calls -> {"idle", "waiting", "answered", "failed"}]
      /\ \A d \in Calls : caller'[d] = "idle" => caller[d] = "idle"
  BY <1>4 DEF Ends, ServiceInv, ServiceType
<1>6. got' \in [Calls -> [id : Calls, body : Bodies] \cup {None}]
  <2>1. CASE resp[c] /\ Answered(c, c)
    <3>1. [id |-> c, body |-> reply[c]] \in [id : Calls, body : Bodies]
      BY <1>2, <2>1
    <3> QED BY <2>1, <3>1 DEF Answered, ServiceInv, ServiceType
  <2>2. CASE UNCHANGED got
    BY <2>2 DEF ServiceInv, ServiceType
  <2> QED BY <1>1, <2>1, <2>2
<1>7. ServiceInv' /\ Serves(None)
  BY <1>1, <1>5, <1>6, CallersServed DEF ServiceInv, ServiceType
<1>8. resp' \in [Calls -> BOOLEAN] /\ \A d \in Calls : resp'[d] => resp[d]
  BY <1>1 DEF StoreType
<1>9. StoreType' /\ Rows' = Rows /\ IsInjective(list)'
  BY <1>1, <1>8 DEF StoreType, Rows, UnreadOnce
<1>10. \A w \in Workers : ToSet(mine[w])' \subseteq ToSet(mine[w]) /\ IsInjective(mine[w])'
  BY <1>1 DEF UnreadOnce
<1> QED BY <1>1, <1>3, <1>5, <1>7, <1>8, <1>9, <1>10, StoreRests

LEMMA StoreExpires ==
  ASSUME StoreInv, NEW c \in Calls, Expire(c), UNCHANGED <<storeVars, zmqVars>>
  PROVE  StoreInv' /\ Kept
<1>1. UNCHANGED <<caller, got, serviceVars>> /\ late' \in [Calls -> BOOLEAN]
  BY DEF Expire, StoreInv, ServiceInv, ServiceType
<1>2. ServiceInv' /\ Serves(None)
  BY <1>1, CallersServed DEF StoreInv, ServiceInv, ServiceType
<1>3. Kept
  BY CallExpired DEF storeVars, StoreInv, ServiceInv
<1> QED BY <1>1, <1>2, <1>3, StoreUntouched

\* The list expires, a listener subscribes, a server selects.
LEMMA StoreShrinks ==
  ASSUME StoreInv, UNCHANGED <<clientVars, serviceVars, kind, zmqVars, resp>>,
         StoreType', Rows' \subseteq Rows, chan' \subseteq chan,
         \A w \in Workers : ToSet(mine[w])' \subseteq ToSet(mine[w]) /\ IsInjective(mine[w])',
         IsInjective(list)'
  PROVE  StoreInv' /\ Kept
<1>1. UNCHANGED <<caller, late, got, runs, reply>>
  BY DEF clientVars, serviceVars
<1>2. ServiceInv' /\ Serves(None) /\ Kept
  BY <1>1, Untouched, NothingHappened DEF StoreInv
<1> QED BY <1>1, <1>2, StoreRests

LEMMA ListChanges ==
  ASSUME StoreInv, ListExpires \/ Subscribe \/ (\E w \in Workers : Select(w)), UNCHANGED zmqVars
  PROVE  StoreInv' /\ Kept
<1>1. /\ UNCHANGED <<clientVars, serviceVars, kind, chan, mine, resp>>
      /\ list' = <<>> \/ UNCHANGED list
  BY DEF ListExpires, Subscribe, Select
<1>2. sub' \in BOOLEAN
  BY DEF ListExpires, Subscribe, Select, StoreInv, StoreType
<1>3. seen' \in [Workers -> SUBSET Calls]
  <2>1. Rows \subseteq Calls
    BY RowsAreCalls DEF StoreInv
  <2> QED BY <2>1 DEF ListExpires, Subscribe, Select, StoreInv, StoreType
<1>4. list' \in Seq(Calls) /\ Rows' \subseteq Rows /\ IsInjective(list)'
  <2>1. CASE list' = <<>>
    <3>1. <<>> \in Seq(Calls) /\ ToSet(<<>>) = {} /\ IsInjective(<<>>)
      BY DEF ToSet, IsInjective
    <3> QED BY <2>1, <3>1 DEF Rows
  <2>2. CASE UNCHANGED list
    BY <2>2 DEF StoreInv, StoreType, UnreadOnce, Rows
  <2> QED BY <1>1, <2>1, <2>2
<1>5. StoreType'
  BY <1>1, <1>2, <1>3, <1>4 DEF StoreInv, StoreType
<1>6. \A w \in Workers : ToSet(mine[w])' \subseteq ToSet(mine[w]) /\ IsInjective(mine[w])'
  BY <1>1 DEF StoreInv, UnreadOnce
<1> QED BY <1>1, <1>4, <1>5, <1>6, StoreShrinks

\* The redis threads: each takes one request, from the channel or an end of the list.
LEMMA RedisTakesOne ==
  ASSUME StoreInv, ListenerTakes \/ QueuePops \/ TickPops, UNCHANGED zmqVars
  PROVE  StoreInv' /\ Kept
<1> USE DEF StoreInv
<1>1. /\ UNCHANGED <<clientVars, srv, stops, runs, kind, sub, seen, mine, resp>>
      /\ \A v \in Workers : ToSet(mine[v])' \subseteq ToSet(mine[v]) /\ IsInjective(mine[v])'
  BY DEF ListenerTakes, QueuePops, TickPops, UnreadOnce
<1>2. CASE ListenerTakes
  <2>1. PICK c \in chan : chan' = chan \ {c} /\ TakeOrDrop("listener", c)
    BY <1>2 DEF ListenerTakes
  <2>2. /\ work["listener"] = Free /\ UNCHANGED list /\ "listener" \in Workers
        /\ c \in Calls /\ Unread(c)
    BY <1>2, <2>1 DEF ListenerTakes, Workers, StoreType, Unread
  <2>3. ~Unread(c)'
    BY <1>1, <2>1, <2>2 DEF UnreadOnce, Unread, Rows, Claimed
  <2>4. StoreType' /\ Rows' = Rows /\ chan' \subseteq chan /\ IsInjective(list)'
    BY <1>1, <2>1, <2>2 DEF StoreType, Rows, UnreadOnce
  <2> QED BY <1>1, <2>1, <2>2, <2>3, <2>4, StoreTakes
<1>3. ASSUME NEW w \in Workers, NEW c \in Calls, work[w] = Free, TakeOrDrop(w, c), UNCHANGED chan,
             list' \in Seq(Calls), Rows = Rows' \union {c}, c \notin Rows', IsInjective(list)'
      PROVE  StoreInv' /\ Kept
  <2>1. Unread(c)
    BY <1>3 DEF Unread
  <2>2. ~Unread(c)'
    BY <1>1, <1>3 DEF UnreadOnce, Unread, Claimed
  <2>3. StoreType' /\ Rows' \subseteq Rows /\ chan' \subseteq chan
    BY <1>1, <1>3 DEF StoreType
  <2> QED BY <1>1, <1>3, <2>1, <2>2, <2>3, StoreTakes
<1>4. list \in Seq(Calls) /\ IsInjective(list)
  BY DEF StoreType, UnreadOnce
<1>5. CASE QueuePops
  <2> DEFINE c == list[Len(list)]
  <2>1. /\ work["queue"] = Free /\ list # <<>> /\ TakeOrDrop("queue", c) /\ UNCHANGED chan
        /\ list' = SubSeq(list, 1, Len(list) - 1) /\ "queue" \in Workers
    BY <1>5 DEF QueuePops, Workers
  <2>2. /\ list' \in Seq(Calls) /\ c \in Calls /\ Rows = Rows' \union {c} /\ c \notin Rows'
        /\ IsInjective(list)'
    BY <1>4, <2>1, Popped DEF Rows
  <2> HIDE DEF c
  <2> QED BY <1>3, <2>1, <2>2
<1>6. CASE TickPops
  <2> DEFINE c == Head(list)
  <2>1. /\ work["tick"] = Free /\ list # <<>> /\ TakeOrDrop("tick", c) /\ UNCHANGED chan
        /\ list' = Tail(list) /\ "tick" \in Workers
    BY <1>6 DEF TickPops, Workers, TakeOrDrop
  <2>2. /\ list' \in Seq(Calls) /\ c \in Calls /\ Rows = Rows' \union {c} /\ c \notin Rows'
        /\ IsInjective(list)'
    BY <1>4, <2>1, Taken DEF Rows
  <2> HIDE DEF c
  <2> QED BY <1>3, <2>1, <2>2
<1> QED BY <1>2, <1>5, <1>6

\* UPDATE ... WHERE claimed_at IS NULL: a row moves from the list to one server.
LEMMA RowClaimed ==
  ASSUME StoreInv, NEW w \in Workers, Claim(w), UNCHANGED zmqVars
  PROVE  StoreInv' /\ Kept
<1> USE DEF StoreInv
<1>1. UNCHANGED <<clientVars, serviceVars, kind, sub, chan, resp>>
  BY DEF Claim
<1>2. PICK c \in seen[w] :
        /\ seen' = [seen EXCEPT ![w] = @ \ {c}]
        /\ \/ /\ \E i \in 1..Len(list) : list[i] = c /\ list' = RemoveAt(list, i)
              /\ mine' = [mine EXCEPT ![w] = Append(@, c)]
           \/ UNCHANGED <<list, mine>>
  BY DEF Claim
<1>3. c \in Calls /\ seen' \in [Workers -> SUBSET Calls] /\ Rows \subseteq Calls
  BY <1>2, RowsAreCalls DEF StoreType
<1>4. UNCHANGED <<caller, late, got, runs, reply, srv, stops, pending, work>>
  BY <1>1 DEF clientVars, serviceVars
<1>5. ServiceInv' /\ Serves(None) /\ Kept
  BY <1>1, <1>4, Untouched, NothingHappened
<1>6. CASE UNCHANGED <<list, mine>>
  <2>1. StoreType' /\ Rows' = Rows /\ IsInjective(list)'
    BY <1>1, <1>3, <1>6 DEF StoreType, Rows, UnreadOnce
  <2>2. \A v \in Workers : ToSet(mine[v])' \subseteq ToSet(mine[v]) /\ IsInjective(mine[v])'
    BY <1>6 DEF UnreadOnce
  <2> QED BY <1>1, <1>4, <1>5, <2>1, <2>2, StoreRests
<1>7. CASE /\ \E i \in 1..Len(list) : list[i] = c /\ list' = RemoveAt(list, i)
           /\ mine' = [mine EXCEPT ![w] = Append(@, c)]
  <2>1. PICK i \in 1..Len(list) : list[i] = c /\ list' = RemoveAt(list, i)
    BY <1>7
  <2>2. /\ list' \in Seq(Calls) /\ Rows' = Rows \ {c} /\ IsInjective(list)'
        /\ c \in Rows
    <3>1. list \in Seq(Calls) /\ IsInjective(list)
      BY DEF StoreType, UnreadOnce
    <3>2. DOMAIN list = 1..Len(list)
      BY <3>1
    <3> QED BY <2>1, <3>1, <3>2, Removed DEF Rows, ToSet
  <2>3. /\ mine'[w] \in Seq(Calls) /\ ToSet(mine'[w]) = ToSet(mine[w]) \union {c}
        /\ IsInjective(mine'[w]) /\ \A v \in Workers : v # w => mine'[v] = mine[v]
    <3>1. /\ mine'[w] = Append(mine[w], c) /\ mine[w] \in Seq(Calls) /\ IsInjective(mine[w])
          /\ \A v \in Workers : v # w => mine'[v] = mine[v]
      BY <1>7 DEF StoreType, UnreadOnce
    <3>2. c \notin ToSet(mine[w])
      BY <2>2 DEF UnreadOnce, Claimed
    <3> QED BY <1>3, <3>1, <3>2, Appended
  <2>4. StoreType'
    <3>1. mine' \in [Workers -> Seq(Calls)]
      BY <1>7, <2>3 DEF StoreType
    <3> QED BY <1>1, <1>3, <2>2, <3>1 DEF StoreType
  <2>5. UnreadOnce'
    <3>1. \A v \in Workers : v # w => Claimed(v)' = Claimed(v)
      BY <2>3 DEF Claimed
    <3>2. Claimed(w)' = Claimed(w) \union {c}
      BY <2>3 DEF Claimed
    <3>3. \A v \in Workers : c \notin Claimed(v)
      BY <2>2 DEF UnreadOnce
    <3>4. \A v \in Workers : IsInjective(mine[v])'
      BY <2>3 DEF UnreadOnce
    <3>5. Rows' = Rows \ {c} /\ chan' = chan /\ c \notin chan /\ IsInjective(list)'
      BY <1>1, <2>2 DEF UnreadOnce
    <3>6. \A v \in Workers : Claimed(v)' \intersect (Rows' \union chan') = {}
      BY <3>1, <3>2, <3>5 DEF UnreadOnce
    <3>7. \A u, v \in Workers : u # v => Claimed(u)' \intersect Claimed(v)' = {}
      BY <3>1, <3>2, <3>3 DEF UnreadOnce
    <3>8. Rows' \intersect chan' = {}
      BY <3>5 DEF UnreadOnce
    <3> QED BY <3>4, <3>5, <3>6, <3>7, <3>8 DEF UnreadOnce
  <2>6. \A d : Unread(d)' => Unread(d)
    <3>1. \A v \in Workers : Claimed(v)' \subseteq Claimed(v) \union {c}
      BY <2>3 DEF Claimed
    <3> QED BY <1>1, <2>2, <3>1 DEF Unread
  <2> QED BY <1>1, <1>3, <1>4, <1>5, <2>4, <2>5, <2>6, ServiceConstants, StoreKeeps
<1> QED BY <1>2, <1>6, <1>7

\* A server delivers the next row it claimed, or drops it once it was stopped.
LEMMA RowDelivered ==
  ASSUME StoreInv, NEW w \in Workers, DeliverRow(w), UNCHANGED zmqVars
  PROVE  StoreInv' /\ Kept
<1> USE DEF StoreInv
<1>0. PICK c \in Calls : c = Head(mine[w])
  <2>1. mine[w] \in Seq(Calls) /\ mine[w] # <<>>
    BY DEF DeliverRow, StoreType
  <2> QED BY <2>1
<1>1. /\ mine[w] # <<>> /\ work[w] = Free /\ mine' = [mine EXCEPT ![w] = Tail(mine[w])]
      /\ \/ Accept(w, c)
         \/ UNCHANGED <<pending, work, reply>>
      /\ UNCHANGED <<clientVars, srv, stops, runs, kind, list, sub, chan, seen, resp>>
  BY <1>0 DEF DeliverRow
<1>2. mine[w] \in Seq(Calls) /\ IsInjective(mine[w]) /\ mine \in [Workers -> Seq(Calls)]
  BY DEF StoreType, UnreadOnce
<1>3. /\ Tail(mine[w]) \in Seq(Calls) /\ c \in Calls
      /\ ToSet(mine[w]) = ToSet(Tail(mine[w])) \union {c}
      /\ IsInjective(Tail(mine[w])) /\ c \notin ToSet(Tail(mine[w]))
  BY <1>0, <1>1, <1>2, Taken
<1>4. mine'[w] = Tail(mine[w]) /\ \A v \in Workers : v # w => mine'[v] = mine[v]
  BY <1>1, <1>2
<1>5. mine' \in [Workers -> Seq(Calls)]
  BY <1>1, <1>2, <1>3
<1>6. /\ \A v \in Workers : ToSet(mine[v])' \subseteq ToSet(mine[v]) /\ IsInjective(mine[v])'
      /\ ToSet(mine[w])' = ToSet(mine[w]) \ {c} /\ c \in ToSet(mine[w])
  BY <1>3, <1>4 DEF UnreadOnce
<1>7. StoreType' /\ Rows' = Rows /\ IsInjective(list)'
  BY <1>1, <1>5 DEF StoreType, Rows, UnreadOnce
<1>8. Unread(c) /\ \A v \in Workers : v # w => c \notin Claimed(v)
  BY <1>6 DEF Unread, UnreadOnce, Claimed
<1>9. c \notin Rows' /\ c \notin chan'
  BY <1>1, <1>6, <1>7 DEF UnreadOnce, Claimed
<1>10. ~Unread(c)'
  <2>1. \A v \in Workers : v # w => Claimed(v)' = Claimed(v)
    BY <1>4 DEF Claimed
  <2>2. c \notin Claimed(w)'
    BY <1>6 DEF Claimed
  <2>3. \A v \in Workers : c \notin Claimed(v)'
    BY <1>8, <2>1, <2>2
  <2> QED BY <1>9, <2>3 DEF Unread
<1>11. UnreadOnce' /\ \A d : Unread(d)' => Unread(d)
  BY <1>1, <1>6, <1>7, FewerUnread
<1>12. caller[c] # "idle" /\ reply[c] = None /\ ~AtServer(c)
  BY <1>3, <1>8 DEF UnreadUnseen
<1>13. ServiceInv' /\ Serves(c) /\ Kept
  <2>1. UNCHANGED <<caller, late, got>>
    BY <1>1 DEF clientVars
  <2>2. CASE Accept(w, c)
    BY <1>1, <1>3, <1>12, <2>1, <2>2, AcceptServes, CallRefused
  <2>3. CASE UNCHANGED <<pending, work, reply>>
    <3>1. ServiceInv' /\ Serves(None)
      BY <1>1, <2>3, Untouched DEF serviceVars
    <3>2. Serves(c)
      BY <2>3 DEF Serves, AtServer
    <3> QED BY <1>1, <2>1, <2>3, <3>1, <3>2, NothingHappened
  <2> QED BY <1>1, <2>2, <2>3
<1>14. /\ \A d \in Calls : caller'[d] = "idle" => caller[d] = "idle"
       /\ \A d \in Calls : resp'[d] => resp[d] \/ reply[d] # None
  BY <1>1 DEF clientVars
<1>15. \A d \in Calls : Unread(d)' => d # c /\ Unread(d)
  BY <1>10, <1>11
<1> QED BY <1>1, <1>7, <1>11, <1>13, <1>14, <1>15, StoreKeeps

\* The peer dies, and what it had claimed with it.
LEMMA PeerGone ==
  ASSUME StoreInv, PeerDies, UNCHANGED zmqVars
  PROVE  StoreInv' /\ Kept
<1> USE DEF StoreInv
<1>1. /\ seen' = [seen EXCEPT !["peer"] = {}] /\ mine' = [mine EXCEPT !["peer"] = <<>>]
      /\ work' = [work EXCEPT !["peer"] = Free]
      /\ UNCHANGED <<clientVars, srv, stops, pending, runs, reply, kind, list, sub, chan, resp>>
  BY DEF PeerDies
<1>2. "peer" \in Workers /\ srv' \in {"down", "up", "stopping"}
  BY <1>1 DEF Workers, ServiceInv, ServiceType
<1>3. ServiceInv' /\ Serves(None)
  BY <1>1, <1>2, LetGoServes
<1>4. UNCHANGED <<caller, late, got>>
  BY <1>1 DEF clientVars
<1>5. Kept
  BY <1>1, <1>4, NothingHappened
<1>6. seen' \in [Workers -> SUBSET Calls] /\ mine' \in [Workers -> Seq(Calls)]
  <2>1. <<>> \in Seq(Calls)
    OBVIOUS
  <2> QED BY <1>1, <2>1 DEF StoreType
<1>7. StoreType' /\ Rows' = Rows /\ IsInjective(list)'
  BY <1>1, <1>6 DEF StoreType, Rows, UnreadOnce
<1>8. ASSUME NEW v \in Workers PROVE ToSet(mine[v])' \subseteq ToSet(mine[v]) /\ IsInjective(mine[v])'
  <2>1. ToSet(<<>>) = {} /\ IsInjective(<<>>)
    BY DEF ToSet, IsInjective
  <2>2. mine'[v] = <<>> \/ mine'[v] = mine[v]
    BY <1>1 DEF StoreType
  <2> QED BY <2>1, <2>2 DEF UnreadOnce
<1> QED BY <1>1, <1>3, <1>4, <1>5, <1>7, <1>8, StoreRests

LEMMA StoreHandles ==
  ASSUME StoreInv, NEW w \in Workers, SHandle(w), UNCHANGED zmqVars
  PROVE  StoreInv' /\ Kept
<1>1. Handle(w, Dated) /\ UNCHANGED storeVars
  BY DEF SHandle, Dated, StoreInv
<1>2. ServiceInv' /\ Serves(None) /\ UNCHANGED clientVars
  BY <1>1, HandleServes DEF StoreInv
<1>3. Kept
  BY <1>1, CallHandled DEF StoreInv, storeVars
<1>4. UNCHANGED caller
  BY <1>2 DEF clientVars
<1> QED BY <1>1, <1>2, <1>3, <1>4, StoreUntouched

\* A response is stored, or not, of a call that has one.
LEMMA StorePublishes ==
  ASSUME StoreInv, NEW w \in Workers, RedisPublish(w) \/ MysqlPublish(w), UNCHANGED zmqVars
  PROVE  StoreInv' /\ Kept
<1> USE DEF StoreInv
<1> DEFINE c == work[w].call
<1>1. /\ work[w].at = "publish" /\ work' = [work EXCEPT ![w] = Free]
      /\ UNCHANGED <<clientVars, srv, stops, pending, runs, reply, kind, list, seen, mine>>
      /\ resp' = resp \/ resp' = [resp EXCEPT ![c] = TRUE]
      /\ chan' = {} \/ UNCHANGED chan
      /\ sub' = FALSE \/ UNCHANGED sub
  BY DEF RedisPublish, MysqlPublish, Publishing
<1>2. c \in Calls /\ reply[c] # None
  BY <1>1 DEF ServiceInv, HeldOnce, RepliesKnown
<1> HIDE DEF c
<1>3. ServiceInv' /\ Serves(None)
  <2>1. srv' \in {"down", "up", "stopping"}
    BY <1>1 DEF ServiceInv, ServiceType
  <2> QED BY <1>1, <2>1, LetGoServes
<1>4. UNCHANGED <<caller, late, got>>
  BY <1>1 DEF clientVars
<1>5. Kept
  BY <1>1, <1>4, NothingHappened
<1>6. resp' \in [Calls -> BOOLEAN] /\ \A d \in Calls : resp'[d] => resp[d] \/ reply[d] # None
  <2>1. CASE resp' = resp
    BY <2>1 DEF StoreType
  <2>2. CASE resp' = [resp EXCEPT ![c] = TRUE]
    BY <1>2, <2>2 DEF StoreType
  <2> QED BY <1>1, <2>1, <2>2
<1>7. StoreType' /\ Rows' = Rows /\ IsInjective(list)' /\ chan' \subseteq chan
  BY <1>1, <1>6 DEF StoreType, Rows, UnreadOnce
<1>8. \A v \in Workers : ToSet(mine[v])' \subseteq ToSet(mine[v]) /\ IsInjective(mine[v])'
  BY <1>1 DEF UnreadOnce
<1> QED BY <1>1, <1>3, <1>4, <1>5, <1>6, <1>7, <1>8, StoreRests

\* The service starts, stops, ends; the tick drains.
LEMMA StoreSwitches ==
  ASSUME StoreInv,
         \/ ThreadsEnd
         \/ (DrainPending \/ StopService \/ StartService) /\ UNCHANGED storeVars,
         UNCHANGED zmqVars
  PROVE  StoreInv' /\ Kept
<1> USE DEF StoreInv
<1>1. UNCHANGED clientVars /\ UNCHANGED <<caller, late, got, runs, reply>>
  BY DEF ThreadsEnd, DrainPending, StopService, StartService, clientVars
<1>2. CASE DrainPending /\ UNCHANGED storeVars
  BY <1>1, <1>2, DrainServes, StoreUntouched, NothingHappened DEF storeVars
<1>3. CASE (StopService \/ StartService) /\ UNCHANGED storeVars
  <2>1. stops' \in 0..MaxStops /\ srv' \in {"down", "up", "stopping"} /\ pending' = <<>>
    BY <1>3, ServiceConstants DEF StopService, StartService, ServiceInv, ServiceType
  <2>2. UNCHANGED work
    BY <1>3 DEF StopService, StartService
  <2>3. ServiceInv' /\ Serves(None)
    BY <1>1, <2>1, <2>2, SwitchServes
  <2> QED BY <1>1, <1>3, <2>3, StoreUntouched, NothingHappened DEF storeVars
<1>4. CASE ThreadsEnd
  <2>1. /\ srv' = "down" /\ sub' = FALSE /\ chan' = {}
        /\ UNCHANGED <<clientVars, stops, pending, work, runs, reply, kind, list, seen, mine, resp>>
    BY <1>4 DEF ThreadsEnd
  <2>2. stops' \in 0..MaxStops
    BY <2>1 DEF ServiceInv, ServiceType
  <2>3. ServiceInv' /\ Serves(None)
    BY <2>1, <2>2, SwitchServes
  <2>4. StoreType' /\ Rows' = Rows /\ chan' \subseteq chan /\ IsInjective(list)'
    BY <2>1 DEF StoreType, Rows, UnreadOnce
  <2>5. \A v \in Workers : ToSet(mine[v])' \subseteq ToSet(mine[v]) /\ IsInjective(mine[v])'
    BY <2>1 DEF UnreadOnce
  <2> QED BY <1>1, <2>1, <2>3, <2>4, <2>5, StoreRests, NothingHappened
<1> QED BY <1>2, <1>3, <1>4

LEMMA StoreStep ==
  ASSUME StoreInv, StoreNext, UNCHANGED zmqVars
  PROVE  StoreInv' /\ Kept
<1>1. CASE \E c \in Calls : \/ RedisRoundTrip(c) \/ MysqlSend(c) \/ MysqlTakes(c)
                            \/ SLosesStore(c)
                            \/ (Expire(c) /\ UNCHANGED storeVars)
  BY <1>1, RedisSends, MysqlSends, CallerLeaves, StoreExpires DEF RedisRoundTrip
<1>2. CASE ListExpires \/ Subscribe \/ ListenerTakes \/ QueuePops \/ TickPops
  BY <1>2, ListChanges, RedisTakesOne
<1>3. CASE \E w \in Workers : \/ Select(w) \/ Claim(w) \/ DeliverRow(w)
                              \/ SHandle(w) \/ RedisPublish(w) \/ MysqlPublish(w)
  BY <1>3, ListChanges, RowClaimed, RowDelivered, StoreHandles, StorePublishes
<1>4. CASE PeerDies
  BY <1>4, PeerGone
<1>5. CASE \/ ThreadsEnd
           \/ (DrainPending \/ StopService \/ StartService) /\ UNCHANGED storeVars
  BY <1>5, StoreSwitches
<1> QED BY <1>1, <1>2, <1>3, <1>4, <1>5 DEF StoreNext

LEMMA StoreAccounts ==
  ASSUME StoreInv
  PROVE  CallsAccounted
<1> USE DEF StoreInv
<1>1. TypeOK
  BY DEF TypeOK, ServiceInv, ZmqUnused
<1>2. LiveDealerClean /\ NoOrphanCall
  BY DEF LiveDealerClean, NoOrphanCall, ZmqUnused
<1>3. ASSUME NEW c \in Calls, NEW p \in Holders(c), NEW q \in Holders(c) PROVE p = q
  <2>1. /\ p \in {"list", "chan", "pending"} \union Workers
        /\ q \in {"list", "chan", "pending"} \union Workers
    BY DEF Holders
  <2>2. ASSUME NEW h \in Holders(c)
        PROVE  \/ h = "list" /\ c \in Rows
               \/ h = "chan" /\ c \in chan
               \/ h = "pending" /\ c \in ToSet(pending)
               \/ h \in Workers /\ work[h].call = c
               \/ h \in Workers /\ c \in Claimed(h)
    BY DEF Holders, Claimed
  <2>3. ~(Unread(c) /\ AtServer(c))
    BY DEF UnreadUnseen
  <2>4. CASE Unread(c)
    <3>1. ~AtServer(c)
      BY <2>3, <2>4
    <3>2. \A h \in {p, q} : \/ h = "list" /\ c \in Rows
                            \/ h = "chan" /\ c \in chan
                            \/ h \in Workers /\ c \in Claimed(h)
      BY <2>2, <3>1 DEF AtServer
    <3> QED BY <3>2 DEF UnreadOnce
  <2>5. CASE ~Unread(c)
    <3>1. \A h \in {p, q} : \/ h = "pending" /\ c \in ToSet(pending)
                            \/ h \in Workers /\ work[h].call = c
      BY <2>2, <2>5 DEF Unread
    <3> QED BY <3>1 DEF ServiceInv, HeldOnce
  <2> QED BY <2>4, <2>5
<1>4. \A w \in Workers : work[w].call \notin ToSet(mine[w])
  <2> SUFFICES ASSUME NEW w \in Workers, work[w].call \in ToSet(mine[w]) PROVE FALSE
    OBVIOUS
  <2>1. work[w].call \in Calls /\ Unread(work[w].call)
    BY RowsAreCalls DEF Claimed, Unread
  <2> QED BY <2>1 DEF UnreadUnseen, AtServer
<1>5. OneHolder
  BY <1>3, <1>4 DEF OneHolder, UnreadOnce, ServiceInv, HeldOnce
<1> QED BY <1>1, <1>2, <1>5 DEF CallsAccounted

-----------------------------------------------------------------------------
(* The ZMQ transport *)

InWire(c) == \E m \in wire : m[2] = c
InBack(c) == \E m \in back : m[2] = c
InQueue(c) == \E i \in 1..Len(cq) : cq[i] = c
InRespq(c) == \E i \in 1..Len(respq) : respq[i][2] = c

\* A call that nobody but its caller and the I/O thread knows.
Fresh(c) == caller[c] # "idle" /\ reply[c] = None /\ ~AtServer(c) /\ ~InWire(c)

ToSend(c) == InQueue(c) \/ (io = "sending" /\ cur = c)

\* What is to be sent is fresh, is queued once, and not while the I/O thread sends it.
Queued ==
  /\ \A c \in Calls : ToSend(c) => Fresh(c)
  /\ io = "sending" => ~InQueue(cur)
  /\ \A i, j \in 1..Len(cq) : cq[i] # STOP /\ cq[i] = cq[j] => i = j

\* The I/O thread has a call in its hands, and an open DEALER, exactly during an exchange.
Exchanging ==
  IF io \in {"sending", "waiting"} THEN cur \in Calls /\ dealer # 0 ELSE cur = None

\* A request on the wire is unknown to the service, and is there once.
OnTheWire ==
  /\ \A c \in Calls : InWire(c) => caller[c] # "idle" /\ reply[c] = None /\ ~AtServer(c)
  /\ \A m, n \in wire : m[2] = n[2] => m = n

\* A reply under way is that of a call that has one; its peer identity is used up, and
\* it is either sent or queued for the router thread, once.
Answers ==
  /\ \A c \in Calls : InBack(c) \/ InRespq(c) => reply[c] # None /\ ident[c] = 0
  /\ \A c \in Calls : ~(InBack(c) /\ InRespq(c))
  /\ \A i, j \in 1..Len(respq) : respq[i][2] = respq[j][2] => i = j

\* The I/O thread leaves its loop only when new calls are turned away, and has failed
\* everything in the queue by then.
Leaving ==
  /\ io \in {"draining", "exiting", "ended"} => stopping
  /\ stopEv => stopping
  /\ InQueue(STOP) => stopping
  /\ io \in {"none", "exiting", "ended"} => cq = <<>>

BoxTrue == \A c \in Calls : box[c] = "reply" => reply[c] # None

StoreIdle ==
  /\ StoreType /\ kind = "zmq" /\ list = <<>> /\ chan = {}
  /\ \A w \in Workers : mine[w] = <<>>

ZmqInv ==
  /\ ServiceInv /\ StoreIdle /\ ZmqType
  /\ Queued /\ Exchanging /\ OnTheWire /\ Answers /\ Leaving /\ BoxTrue
  /\ LiveDealerClean

LEMMA ZmqStart ==
  ASSUME ServiceInit, ZmqInit, StoreInit, kind = "zmq", rx \in {"listener", "tick"}
  PROVE  ZmqInv
<1> USE DEF ZmqInit
<1>1. ServiceInv
  BY ServiceStart
<1>2. <<>> \in Seq(Calls) /\ <<>> \in Seq(Calls \cup {STOP}) /\ <<>> \in Seq((1..opened) \X Calls)
  OBVIOUS
<1>3. StoreIdle
  <2>1. /\ seen \in [Workers -> SUBSET Calls] /\ mine \in [Workers -> Seq(Calls)]
        /\ resp \in [Calls -> BOOLEAN] /\ \A w \in Workers : mine[w] = <<>>
    BY <1>2 DEF StoreInit
  <2> QED BY <1>2, <2>1 DEF StoreInit, StoreType, StoreIdle
<1>4. ZmqType
  <2>1. /\ dealer \in 0..opened /\ opened \in Nat /\ ident \in [Calls -> 0..opened]
        /\ box \in [Calls -> {"open", "cancelled", "reply", "error"}]
    OBVIOUS
  <2> QED BY <1>2, <2>1 DEF ZmqType
<1>5. \A c : ~InWire(c) /\ ~InBack(c) /\ ~InQueue(c) /\ ~InRespq(c) /\ ~ToSend(c)
  <2>1. Len(cq) = 0 /\ Len(respq) = 0 /\ 1..0 = {}
    OBVIOUS
  <2>2. \A c : ~InQueue(c) /\ ~InRespq(c)
    BY ONLY <2>1 DEF InQueue, InRespq
  <2>3. \A c : ~InWire(c) /\ ~InBack(c)
    BY DEF InWire, InBack
  <2> QED BY <2>2, <2>3 DEF ToSend
<1>6. Queued /\ Exchanging /\ Leaving
  BY <1>5 DEF Queued, Exchanging, Leaving
<1>7. OnTheWire /\ Answers /\ BoxTrue
  BY <1>5 DEF OnTheWire, Answers, BoxTrue
<1> QED BY <1>1, <1>3, <1>4, <1>6, <1>7 DEF ZmqInv, LiveDealerClean

LEMMA ZmqAccounts ==
  ASSUME ZmqInv
  PROVE  CallsAccounted
<1> USE DEF ZmqInv
<1>1. TypeOK
  BY DEF TypeOK, ServiceInv, StoreIdle
<1>2. NoOrphanCall
  BY SMTT(30) DEF NoOrphanCall, Leaving, Alive, ZmqType
<1>3. Rows = {} /\ IsInjective(list) /\ \A w \in Workers : ToSet(mine[w]) = {} /\ IsInjective(mine[w])
  <2>1. ToSet(<<>>) = {} /\ IsInjective(<<>>)
    BY DEF ToSet, IsInjective
  <2> QED BY <2>1 DEF StoreIdle, Rows
<1>4. ASSUME NEW c \in Calls, NEW p \in Holders(c), NEW q \in Holders(c) PROVE p = q
  <2>1. \A h \in {p, q} : \/ h = "pending" /\ c \in ToSet(pending)
                          \/ h \in Workers /\ work[h].call = c
    BY <1>3 DEF Holders, StoreIdle
  <2> QED BY <2>1 DEF ServiceInv, HeldOnce
<1>5. OneHolder
  BY <1>3, <1>4 DEF OneHolder, ServiceInv, HeldOnce
<1> QED BY <1>1, <1>2, <1>5 DEF CallsAccounted

\* A fresh call stays fresh unless it is taken or sent.
LEMMA FreshKept ==
  ASSUME NEW taken, Serves(taken), NEW c \in Calls, c # taken, Fresh(c),
         caller'[c] = "idle" => caller[c] = "idle", InWire(c)' => InWire(c)
  PROVE  Fresh(c)'
BY DEF Fresh, Serves

\* A step of the server: it may take one request off the wire, and lose others.
LEMMA ServerTurns ==
  ASSUME ZmqInv, ServiceInv', NEW taken, Serves(taken), ~InWire(taken)',
         taken \in Calls => InWire(taken),
         UNCHANGED <<clientVars, ioVars, box, storeVars>>,
         wire' \subseteq wire, ZmqType', Answers',
         dealer # 0 => \A c \in Calls : OnDealer(c)' => OnDealer(c)
  PROVE  ZmqInv'
<1> USE DEF ZmqInv
<1>1. UNCHANGED <<caller, cq, io, cur, stopEv, stopping, dealer, opened>>
  BY DEF clientVars, ioVars
<1>2. UNCHANGED <<kind, list, chan, mine, sub, seen, resp>>
  BY DEF storeVars
<1>3. StoreIdle'
  BY <1>2 DEF StoreIdle, StoreType
<1>4. \A c : InWire(c)' => InWire(c)
  BY DEF InWire
<1>5. \A c : (InQueue(c)' <=> InQueue(c)) /\ (ToSend(c)' <=> ToSend(c))
  BY <1>1 DEF InQueue, ToSend
<1>6. Queued'
  <2>1. ASSUME NEW c \in Calls, ToSend(c)' PROVE Fresh(c)'
    <3>1. Fresh(c)
      BY <1>5, <2>1 DEF Queued
    <3>2. c # taken
      BY <3>1 DEF Fresh
    <3> QED BY <1>1, <1>4, <3>1, <3>2, FreshKept
  <2>2. io' = "sending" => ~InQueue(cur)'
    BY <1>1 DEF Queued, InQueue
  <2>3. \A i, j \in 1..Len(cq') : cq'[i] # STOP /\ cq'[i] = cq'[j] => i = j
    BY <1>1 DEF Queued
  <2> QED BY <2>1, <2>2, <2>3 DEF Queued
<1>7. Exchanging' /\ Leaving'
  BY <1>1, <1>5 DEF Exchanging, Leaving
<1>8. OnTheWire'
  <2>1. ASSUME NEW c \in Calls, InWire(c)'
        PROVE  caller'[c] # "idle" /\ reply'[c] = None /\ ~AtServer(c)'
    <3>1. InWire(c) /\ c # taken
      BY <1>4, <2>1
    <3> QED BY <1>1, <3>1 DEF OnTheWire, Serves
  <2>2. \A m, n \in wire' : m[2] = n[2] => m = n
    BY DEF OnTheWire
  <2> QED BY <2>1, <2>2 DEF OnTheWire
<1>9. BoxTrue'
  BY DEF BoxTrue, Serves
<1>10. LiveDealerClean'
  BY <1>1 DEF LiveDealerClean
<1> QED BY <1>3, <1>6, <1>7, <1>8, <1>9, <1>10

\* A step of the service that leaves the transport alone.
LEMMA ServiceTurns ==
  ASSUME ZmqInv, ServiceInv', Serves(None), UNCHANGED <<clientVars, zmqVars, storeVars>>
  PROVE  ZmqInv'
<1> USE DEF ZmqInv
<1>1. /\ UNCHANGED <<box, ioVars, wire, back, ident, respq, rx>>
      /\ UNCHANGED <<cq, io, cur, stopEv, stopping, dealer, opened>>
  BY DEF zmqVars, netVars, routerVars, ioVars
<1>2. ZmqType'
  BY <1>1 DEF ZmqType
<1>3. ~InWire(None)' /\ None \notin Calls
  BY <1>1, ServiceConstants DEF ZmqType, InWire
<1>4. \A c : /\ InBack(c)' <=> InBack(c)
             /\ InRespq(c)' <=> InRespq(c)
             /\ OnDealer(c)' <=> OnDealer(c)
  BY <1>1 DEF InBack, InRespq, OnDealer
<1>5. Answers'
  BY <1>1, <1>4 DEF Answers, Serves
<1> QED BY <1>1, <1>2, <1>3, <1>4, <1>5, ServerTurns

\* _receive_request and deliver: the request leaves the wire, and its peer is known.
LEMMA RouterReceives ==
  ASSUME ZmqInv, RouterReceive, UNCHANGED storeVars
  PROVE  ZmqInv' /\ Kept
<1> USE DEF ZmqInv
<1>1. /\ work[rx] = Free /\ rx \in {"listener", "tick"} /\ rx \in Workers
      /\ UNCHANGED <<clientVars, srv, stops, runs, box, ioVars, back, respq, rx>>
  BY DEF RouterReceive, ZmqType, Workers
<1>2. PICK m \in wire : /\ wire' = wire \ {m}
                        /\ ident' = [ident EXCEPT ![m[2]] = m[1]]
                        /\ Accept(rx, m[2])
  BY DEF RouterReceive
<1>3. PICK c \in Calls, d \in 1..opened : m = <<d, c>>
  BY DEF ZmqType
<1>4. m[1] = d /\ m[2] = c /\ InWire(c)
  BY <1>3 DEF InWire
<1>5. caller[c] # "idle" /\ reply[c] = None /\ ~AtServer(c) /\ ~InWire(c)'
  BY <1>2, <1>4 DEF OnTheWire, InWire
<1>6. UNCHANGED <<caller, late, got, kind>>
  BY <1>1 DEF clientVars, storeVars
<1>7. ServiceInv' /\ Serves(c) /\ Kept
  <2>1. Accept(rx, c)
    BY <1>2, <1>4
  <2> QED BY <1>1, <1>5, <1>6, <2>1, AcceptServes, CallRefused
<1>8. ident' \in [Calls -> 0..opened] /\ ident'[c] = d /\ \A e \in Calls : e # c => ident'[e] = ident[e]
  BY <1>2, <1>4 DEF ZmqType
<1>9. UNCHANGED <<cq, io, cur, stopEv, stopping, dealer, opened>>
  BY <1>1 DEF ioVars
<1>10. ZmqType'
  BY <1>1, <1>2, <1>8, <1>9 DEF ZmqType
<1>11. \A e : /\ InBack(e)' <=> InBack(e)
              /\ InRespq(e)' <=> InRespq(e)
  BY <1>1 DEF InBack, InRespq
<1>12. Answers'
  <2>1. ~InBack(c) /\ ~InRespq(c)
    BY <1>5 DEF Answers
  <2>2. \A e \in Calls : InBack(e)' \/ InRespq(e)' => reply'[e] # None /\ ident'[e] = 0
    BY <1>7, <1>8, <1>11, <2>1 DEF Answers, Serves
  <2> QED BY <1>1, <1>11, <2>2 DEF Answers
<1>13. ASSUME NEW e \in Calls, OnDealer(e)' PROVE OnDealer(e)
  <2>1. CASE e = c /\ d = dealer
    BY <1>3, <2>1 DEF OnDealer
  <2>2. CASE e # c \/ d # dealer
    BY <1>1, <1>2, <1>8, <1>9, <1>13, <2>2 DEF OnDealer
  <2> QED BY <2>1, <2>2
<1>14. wire' \subseteq wire
  BY <1>2
<1> QED BY <1>1, <1>4, <1>5, <1>7, <1>10, <1>12, <1>13, <1>14, ServerTurns

\* send_response: the reply is sent, queued for the router thread, or has no peer.
LEMMA ZmqPublishes ==
  ASSUME ZmqInv, NEW w \in Workers, ZPublish(w), UNCHANGED storeVars
  PROVE  ZmqInv' /\ Kept
<1> USE DEF ZmqInv
<1>1. PICK c \in Calls : c = work[w].call /\ reply[c] # None
  BY DEF ZPublish, ServiceInv, HeldOnce, RepliesKnown
<1>2. /\ work' = [work EXCEPT ![w] = Free]
      /\ UNCHANGED <<clientVars, srv, stops, pending, runs, reply, box, ioVars, wire, rx>>
      /\ \/ UNCHANGED <<back, ident, respq>>
         \/ /\ ident[c] # 0 /\ ident' = [ident EXCEPT ![c] = 0]
            /\ \/ back' = Delivered(<<ident[c], c>>) /\ UNCHANGED respq
               \/ respq' = Append(respq, <<ident[c], c>>) /\ UNCHANGED back
  BY <1>1 DEF ZPublish
<1>3. ServiceInv' /\ Serves(None)
  <2>1. srv' \in {"down", "up", "stopping"}
    BY <1>2 DEF ServiceInv, ServiceType
  <2> QED BY <1>2, <2>1, LetGoServes
<1>4. /\ UNCHANGED <<caller, late, got, kind>>
      /\ UNCHANGED <<cq, io, cur, stopEv, stopping, dealer, opened>>
  BY <1>2 DEF clientVars, storeVars, ioVars
<1>5. Kept
  BY <1>2, <1>4, NothingHappened
<1>6. ~InWire(None)' /\ None \notin Calls
  BY <1>2, ServiceConstants DEF ZmqType, InWire
<1>7. CASE UNCHANGED <<back, ident, respq>>
  <2>1. UNCHANGED <<netVars, routerVars>>
    BY <1>2, <1>7 DEF netVars, routerVars
  <2>2. UNCHANGED zmqVars
    BY <1>2, <2>1 DEF zmqVars
  <2> QED BY <1>2, <1>3, <1>5, <2>2, ServiceTurns
<1>8. CASE /\ ident[c] # 0 /\ ident' = [ident EXCEPT ![c] = 0]
           /\ \/ back' = Delivered(<<ident[c], c>>) /\ UNCHANGED respq
              \/ respq' = Append(respq, <<ident[c], c>>) /\ UNCHANGED back
  <2> DEFINE a == <<ident[c], c>>
  <2>1. /\ ident' \in [Calls -> 0..opened] /\ ident'[c] = 0
        /\ \A e \in Calls : e # c => ident'[e] = ident[e]
    BY <1>8 DEF ZmqType
  <2>2. ident[c] \in 1..opened
    BY <1>8 DEF ZmqType
  <2>3. ~InBack(c) /\ ~InRespq(c)
    BY <1>8 DEF Answers
  <2>4. CASE back' = Delivered(a) /\ UNCHANGED respq
    <3>1. back' = back \/ (ident[c] = dealer /\ back' = back \cup {a})
      BY <2>4 DEF Delivered
    <3>2. ZmqType'
      <4>1. a \in (1..opened) \X Calls
        BY <2>2
      <4>2. back' \subseteq (1..opened) \X Calls
        BY <3>1, <4>1 DEF ZmqType
      <4> HIDE DEF a
      <4> QED BY <1>2, <1>4, <2>1, <2>4, <4>2 DEF ZmqType
    <3>3. \A e : (InBack(e)' => InBack(e) \/ e = c) /\ (InRespq(e)' <=> InRespq(e))
      BY <2>4, <3>1 DEF InBack, InRespq
    <3>4. Answers'
      BY <1>1, <1>2, <2>1, <2>3, <2>4, <3>3 DEF Answers
    <3>5. ASSUME NEW e \in Calls, OnDealer(e)', dealer # 0 PROVE OnDealer(e)
      BY <1>2, <1>4, <2>1, <2>4, <3>1, <3>5 DEF OnDealer
    <3> QED BY <1>2, <1>3, <1>5, <1>6, <3>2, <3>4, <3>5, ServerTurns
  <2>5. CASE respq' = Append(respq, a) /\ UNCHANGED back
    <3>1. /\ respq' \in Seq((1..opened) \X Calls) /\ Len(respq') = Len(respq) + 1
          /\ \A i \in 1..Len(respq) : respq'[i] = respq[i]
          /\ respq'[Len(respq) + 1] = a
      <4>1. a \in (1..opened) \X Calls /\ respq \in Seq((1..opened) \X Calls)
        BY <2>2 DEF ZmqType
      <4> HIDE DEF a
      <4> QED BY <2>5, <4>1, AppendProperties
    <3>2. Len(respq) \in Nat /\ a[2] = c
      BY DEF ZmqType
    <3>3. ZmqType'
      BY <1>2, <1>4, <2>1, <2>5, <3>1 DEF ZmqType
    <3>4. \A i \in 1..Len(respq') : \/ i \in 1..Len(respq) /\ respq'[i] = respq[i]
                                    \/ i = Len(respq) + 1 /\ respq'[i] = a
      BY <3>1, <3>2
    <3> HIDE DEF a
    <3>5. \A e : (InBack(e)' <=> InBack(e)) /\ (InRespq(e)' => InRespq(e) \/ e = c)
      BY <2>5, <3>2, <3>4 DEF InBack, InRespq
    <3>6. \A i, j \in 1..Len(respq') : respq'[i][2] = respq'[j][2] => i = j
      BY <2>3, <3>2, <3>4 DEF Answers, InRespq
    <3>7. Answers'
      BY <1>1, <1>2, <2>1, <2>3, <3>5, <3>6 DEF Answers
    <3>8. ASSUME NEW e \in Calls, OnDealer(e)', dealer # 0 PROVE OnDealer(e)
      <4>1. dealer' = dealer /\ wire' = wire /\ back' = back
        BY <1>2, <1>4, <2>5
      <4>2. CASE <<dealer, e>> \in wire \cup back \/ ident'[e] = dealer
        <5>1. ident'[e] = dealer => ident[e] = dealer
          BY <2>1, <3>8
        <5> QED BY <4>2, <5>1 DEF OnDealer
      <4>3. CASE \E i \in 1..Len(respq') : respq'[i] = <<dealer, e>>
        <5>1. PICK i \in 1..Len(respq') : respq'[i] = <<dealer, e>>
          BY <4>3
        <5>2. CASE i \in 1..Len(respq)
          BY <3>1, <5>1, <5>2 DEF OnDealer
        <5>3. CASE respq'[i] = a
          BY <5>1, <5>3 DEF OnDealer, a
        <5> QED BY <3>4, <5>2, <5>3
      <4> QED BY <3>8, <4>1, <4>2, <4>3 DEF OnDealer
    <3> QED BY <1>2, <1>3, <1>5, <1>6, <3>3, <3>7, <3>8, ServerTurns
  <2> QED BY <1>8, <2>4, <2>5
<1> QED BY <1>2, <1>7, <1>8

\* The router thread sends the oldest queued reply.
LEMMA RouterFlushes ==
  ASSUME ZmqInv, FlushResponses, UNCHANGED storeVars
  PROVE  ZmqInv' /\ Kept
<1> USE DEF ZmqInv
<1>1. /\ respq # <<>> /\ back' = Delivered(Head(respq)) /\ respq' = Tail(respq)
      /\ UNCHANGED <<clientVars, serviceVars, box, ioVars, wire, ident, rx>>
  BY DEF FlushResponses
<1>2. /\ respq \in Seq((1..opened) \X Calls) /\ Len(respq) \in Nat \ {0}
      /\ Head(respq) = respq[1]
  BY <1>1 DEF ZmqType
<1>3. PICK a \in (1..opened) \X Calls : a = Head(respq)
  BY <1>1, <1>2
<1>4. PICK c \in Calls : c = a[2]
  OBVIOUS
<1>5. /\ respq' \in Seq((1..opened) \X Calls) /\ Len(respq') = Len(respq) - 1
      /\ \A i \in 1..Len(respq') : respq'[i] = respq[i + 1]
  BY <1>1, <1>2, HeadTailProperties
<1>6. 1 \in 1..Len(respq) /\ \A i \in 1..Len(respq') : i + 1 \in 1..Len(respq) /\ i + 1 # 1
  BY <1>2, <1>5
<1>7. back' = back \/ (a[1] = dealer /\ back' = back \cup {a})
  BY <1>1, <1>3 DEF Delivered
<1>8. /\ UNCHANGED <<caller, late, got, kind, runs, reply>>
      /\ UNCHANGED <<cq, io, cur, stopEv, stopping, dealer, opened>>
  BY <1>1 DEF clientVars, serviceVars, storeVars, ioVars
<1>9. ServiceInv' /\ Serves(None) /\ Kept
  BY <1>1, <1>8, Untouched, NothingHappened
<1>10. ~InWire(None)' /\ None \notin Calls
  BY <1>1, ServiceConstants DEF ZmqType, InWire
<1>11. ZmqType'
  <2>1. back' \subseteq (1..opened) \X Calls
    BY <1>7 DEF ZmqType
  <2> QED BY <1>1, <1>5, <1>8, <2>1 DEF ZmqType
<1>12. InRespq(c) /\ ~InRespq(c)'
  <2>1. InRespq(c)
    BY <1>2, <1>3, <1>4, <1>6 DEF InRespq
  <2>2. ~InRespq(c)'
    BY <1>2, <1>3, <1>4, <1>5, <1>6 DEF InRespq, Answers
  <2> QED BY <2>1, <2>2
<1>13. \A e : (InBack(e)' => InBack(e) \/ e = c) /\ (InRespq(e)' => InRespq(e))
  BY <1>4, <1>5, <1>6, <1>7 DEF InBack, InRespq
<1>14. Answers'
  <2>1. \A i, j \in 1..Len(respq') : respq'[i][2] = respq'[j][2] => i = j
    <3>1. SUFFICES ASSUME NEW i \in 1..Len(respq'), NEW j \in 1..Len(respq'),
                          respq'[i][2] = respq'[j][2]
                   PROVE  i = j
      OBVIOUS
    <3>2. respq[i + 1][2] = respq[j + 1][2] /\ i + 1 \in 1..Len(respq) /\ j + 1 \in 1..Len(respq)
      BY <1>5, <1>6, <3>1
    <3>3. i + 1 = j + 1
      BY <3>2 DEF Answers
    <3> QED BY <1>2, <1>5, <3>3
  <2> QED BY <1>1, <1>8, <1>12, <1>13, <2>1 DEF Answers
<1>15. ASSUME NEW e \in Calls, OnDealer(e)', dealer # 0 PROVE OnDealer(e)
  <2>1. CASE <<dealer, e>> = a
    BY <1>2, <1>3, <1>6, <2>1 DEF OnDealer
  <2>2. CASE <<dealer, e>> \in wire \cup back \/ ident[e] = dealer
    BY <2>2 DEF OnDealer
  <2>3. CASE \E i \in 1..Len(respq') : respq'[i] = <<dealer, e>>
    BY <1>5, <1>6, <2>3 DEF OnDealer
  <2> QED BY <1>1, <1>7, <1>8, <1>15, <2>1, <2>2, <2>3 DEF OnDealer
<1> QED BY <1>1, <1>9, <1>10, <1>11, <1>14, <1>15, ServerTurns

\* The loop ends: its ROUTER goes with what it had not read and not sent.
LEMMA RouterEnds ==
  ASSUME ZmqInv, RouterCloses, UNCHANGED storeVars
  PROVE  ZmqInv' /\ Kept
<1> USE DEF ZmqInv
<1>1. /\ srv' = "down" /\ wire' \subseteq wire
      /\ ident' = [c \in Calls |-> 0] /\ respq' = <<>>
      /\ UNCHANGED <<clientVars, stops, pending, work, runs, reply, box, ioVars, back, rx>>
  BY DEF RouterCloses
<1>2. stops' \in 0..MaxStops
  BY <1>1 DEF ServiceInv, ServiceType
<1>3. ServiceInv' /\ Serves(None)
  BY <1>1, <1>2, SwitchServes
<1>4. /\ UNCHANGED <<caller, late, got, kind>>
      /\ UNCHANGED <<cq, io, cur, stopEv, stopping, dealer, opened>>
  BY <1>1 DEF clientVars, storeVars, ioVars
<1>5. Kept
  BY <1>1, <1>4, NothingHappened
<1>6. ~InWire(None)' /\ None \notin Calls
  BY <1>1, ServiceConstants DEF ZmqType, InWire
<1>7. respq' \in Seq((1..opened) \X Calls) /\ Len(respq') = 0 /\ 1..0 = {}
  <2>1. <<>> \in Seq((1..opened) \X Calls) /\ Len(<<>>) = 0 /\ 1..0 = {}
    OBVIOUS
  <2> QED BY <1>1, <2>1
<1>8. ident' \in [Calls -> 0..opened] /\ \A e \in Calls : ident'[e] = 0
  BY <1>1 DEF ZmqType
<1>9. ZmqType'
  BY <1>1, <1>4, <1>7, <1>8 DEF ZmqType
<1>10. \A e : (InBack(e)' <=> InBack(e)) /\ ~InRespq(e)'
  BY <1>1, <1>7 DEF InBack, InRespq
<1>11. Answers'
  BY <1>1, <1>7, <1>8, <1>10 DEF Answers
<1>12. dealer # 0 => \A e \in Calls : OnDealer(e)' => OnDealer(e)
  BY <1>1, <1>4, <1>7, <1>8 DEF OnDealer
<1> QED BY <1>1, <1>3, <1>5, <1>6, <1>9, <1>11, <1>12, ServerTurns

LEMMA ZmqServes ==
  ASSUME ZmqInv, UNCHANGED <<zmqVars, storeVars>>,
         \/ \E w \in Workers : Handle(w, ZmqDated)
         \/ StartService \/ StopService \/ DrainPending
  PROVE  ZmqInv' /\ Kept
<1> USE DEF ZmqInv
<1>1. kind = "zmq" /\ UNCHANGED kind
  BY DEF StoreIdle, storeVars
<1>2. CASE \E w \in Workers : Handle(w, ZmqDated)
  <2>1. PICK w \in Workers : Handle(w, Dated)
    BY <1>1, <1>2 DEF Dated
  <2>2. ServiceInv' /\ Serves(None) /\ UNCHANGED clientVars
    BY <2>1, HandleServes
  <2>3. Kept
    BY <1>1, <2>1, CallHandled
  <2> QED BY <2>2, <2>3, ServiceTurns
<1>3. CASE StartService \/ StopService
  <2>1. /\ stops' \in 0..MaxStops /\ srv' \in {"down", "up", "stopping"} /\ pending' = <<>>
        /\ UNCHANGED <<clientVars, work, runs, reply>>
    BY <1>3, ServiceConstants DEF StartService, StopService, ServiceInv, ServiceType
  <2>2. ServiceInv' /\ Serves(None)
    BY <2>1, SwitchServes
  <2>3. UNCHANGED <<caller, late, got>>
    BY <2>1 DEF clientVars
  <2> QED BY <1>1, <2>1, <2>2, <2>3, ServiceTurns, NothingHappened
<1>4. CASE DrainPending
  <2>1. ServiceInv' /\ Serves(None) /\ UNCHANGED <<clientVars, runs, reply>>
    BY <1>4, DrainServes
  <2>2. UNCHANGED <<caller, late, got>>
    BY <2>1 DEF clientVars
  <2> QED BY <1>1, <2>1, <2>2, ServiceTurns, NothingHappened
<1> QED BY <1>2, <1>3, <1>4

\* The I/O thread's own steps: what it takes is no more to be sent.
LEMMA StillTyped ==
  ASSUME ZmqType, UNCHANGED routerVars, wire' \subseteq wire, back' \subseteq back,
         opened' = opened \/ opened' = opened + 1, dealer' \in 0..opened',
         box' \in [Calls -> {"open", "cancelled", "reply", "error"}],
         cq' \in Seq(Calls \cup {STOP}), cur' \in Calls \cup {None},
         io' \in {"none", "loop", "sending", "waiting", "draining", "exiting", "ended"},
         stopEv' \in BOOLEAN, stopping' \in BOOLEAN
  PROVE  ZmqType'
<1>1. opened' \in Nat /\ 1..opened \subseteq 1..opened' /\ 0..opened \subseteq 0..opened'
  BY DEF ZmqType
<1>2. ident' = ident /\ respq' = respq /\ rx' = rx
  BY DEF routerVars
<1>3. ident' \in [Calls -> 0..opened'] /\ wire' \subseteq (1..opened') \X Calls
      /\ back' \subseteq (1..opened') \X Calls
  BY <1>1, <1>2 DEF ZmqType
<1>4. respq' \in Seq((1..opened') \X Calls)
  <2>1. respq \in Seq((1..opened) \X Calls)
    BY DEF ZmqType
  <2>2. (1..opened) \X Calls \subseteq (1..opened') \X Calls
    BY <1>1
  <2>3. \A S, T : S \subseteq T => Seq(S) \subseteq Seq(T)
    OBVIOUS
  <2> QED BY <1>2, <2>1, <2>2, <2>3
<1> QED BY <1>1, <1>2, <1>3, <1>4 DEF ZmqType

LEMMA ThreadTurns ==
  ASSUME ZmqInv, UNCHANGED <<clientVars, serviceVars, routerVars, storeVars>>,
         wire' \subseteq wire, back' \subseteq back, ZmqType',
         \A c \in Calls : ToSend(c)' => ToSend(c),
         io' = "sending" => ~InQueue(cur)',
         \A i, j \in 1..Len(cq') : cq'[i] # STOP /\ cq'[i] = cq'[j] => i = j,
         Exchanging', Leaving', LiveDealerClean',
         \A c \in Calls : box'[c] = "reply" => box[c] = "reply" \/ reply[c] # None
  PROVE  ZmqInv' /\ Kept
<1> USE DEF ZmqInv
<1>1. UNCHANGED <<caller, late, got, runs, reply, pending, work, ident, respq>>
  BY DEF clientVars, serviceVars, routerVars
<1>2. UNCHANGED <<kind, list, chan, mine, sub, seen, resp>>
  BY DEF storeVars
<1>3. ServiceInv' /\ Serves(None) /\ Kept
  BY <1>1, <1>2, Untouched, NothingHappened
<1>4. StoreIdle'
  BY <1>2 DEF StoreIdle, StoreType
<1>5. \A c : (InWire(c)' => InWire(c)) /\ (InBack(c)' => InBack(c)) /\ (InRespq(c)' <=> InRespq(c))
  BY <1>1 DEF InWire, InBack, InRespq
<1>6. \A c \in Calls : ToSend(c)' => Fresh(c)'
  BY <1>1, <1>3, <1>5, ServiceConstants, FreshKept DEF Queued
<1>7. Queued'
  BY <1>6 DEF Queued
<1>8. OnTheWire'
  <2>1. \A c : AtServer(c)' => AtServer(c)
    BY <1>1 DEF AtServer
  <2> QED BY <1>1, <1>5, <2>1 DEF OnTheWire
<1>9. Answers'
  BY <1>1, <1>5 DEF Answers
<1>10. BoxTrue'
  BY <1>1 DEF BoxTrue
<1> QED BY <1>3, <1>4, <1>7, <1>8, <1>9, <1>10

\* _reset_dealer leaves no open DEALER, and nothing new on its way.
LEMMA DealerReset ==
  ASSUME ResetDealer
  PROVE  dealer' = 0 /\ wire' \subseteq wire /\ back' \subseteq back /\ LiveDealerClean'
<1>1. dealer' = 0 /\ wire' \subseteq wire /\ back' \subseteq back
  BY DEF ResetDealer
<1> QED BY <1>1 DEF LiveDealerClean

LEMMA Completed ==
  ASSUME ZmqType, NEW c \in Calls, NEW how \in {"cancelled", "reply", "error"}, Complete(c, how)
  PROVE  /\ box' \in [Calls -> {"open", "cancelled", "reply", "error"}]
         /\ \A d \in Calls : box'[d] = "reply" => box[d] = "reply" \/ (d = c /\ how = "reply")
BY DEF ZmqType, Complete

\* What is taken from the queue is gone from it.
LEMMA Unqueued ==
  ASSUME ZmqType, Queued, cq # <<>>, cq' = Tail(cq), NEW h, h = Head(cq)
  PROVE  /\ h \in Calls \cup {STOP} /\ cq' \in Seq(Calls \cup {STOP})
         /\ InQueue(h) /\ \A c : InQueue(c)' => InQueue(c)
         /\ h # STOP => ~InQueue(h)'
         /\ \A i, j \in 1..Len(cq') : cq'[i] # STOP /\ cq'[i] = cq'[j] => i = j
<1>1. /\ cq \in Seq(Calls \cup {STOP}) /\ Len(cq) \in Nat \ {0} /\ h = cq[1]
  BY DEF ZmqType
<1>2. /\ cq' \in Seq(Calls \cup {STOP}) /\ Len(cq') = Len(cq) - 1 /\ h \in Calls \cup {STOP}
      /\ \A i \in 1..Len(cq') : cq'[i] = cq[i + 1]
  BY <1>1, HeadTailProperties
<1>3. 1 \in 1..Len(cq) /\ \A i \in 1..Len(cq') : i \in Nat /\ i + 1 \in 1..Len(cq) /\ i + 1 # 1
  BY <1>1, <1>2
<1>4. InQueue(h) /\ \A c : InQueue(c)' => InQueue(c)
  BY <1>1, <1>2, <1>3 DEF InQueue
<1>5. ASSUME h # STOP, InQueue(h)' PROVE FALSE
  <2>1. PICK i \in 1..Len(cq') : cq'[i] = h
    BY <1>5 DEF InQueue
  <2>2. cq[i + 1] = cq[1] /\ cq[1] # STOP
    BY <1>1, <1>2, <1>5, <2>1
  <2>3. i + 1 = 1
    BY <1>3, <2>2 DEF Queued
  <2> QED BY <1>3, <2>3
<1>6. ASSUME NEW i \in 1..Len(cq'), NEW j \in 1..Len(cq'), cq'[i] # STOP, cq'[i] = cq'[j] PROVE i = j
  <2>1. cq[i + 1] # STOP /\ cq[i + 1] = cq[j + 1] /\ i + 1 \in 1..Len(cq) /\ j + 1 \in 1..Len(cq)
    BY <1>2, <1>3, <1>6
  <2>2. i + 1 = j + 1
    BY <2>1 DEF Queued
  <2> QED BY <1>3, <2>2
<1> QED BY <1>2, <1>4, <1>5, <1>6

\* The I/O thread takes the next entry of its queue.
LEMMA ThreadDequeues ==
  ASSUME ZmqInv, Dequeue, UNCHANGED storeVars
  PROVE  ZmqInv' /\ Kept
<1> USE DEF ZmqInv
<1>1. /\ io = "loop" /\ cq # <<>> /\ cq' = Tail(cq)
      /\ UNCHANGED <<clientVars, serviceVars, stopEv, stopping, routerVars>>
  BY DEF Dequeue
<1>2. PICK h : h = Head(cq)
  OBVIOUS
<1>3. /\ h \in Calls \cup {STOP} /\ cq' \in Seq(Calls \cup {STOP})
      /\ InQueue(h) /\ \A c : InQueue(c)' => InQueue(c)
      /\ h # STOP => ~InQueue(h)'
      /\ \A i, j \in 1..Len(cq') : cq'[i] # STOP /\ cq'[i] = cq'[j] => i = j
  BY <1>1, <1>2, Unqueued
<1>4. cur = None /\ None \notin Calls /\ \A c \in Calls : ~OnDealer(c) \/ dealer = 0
  BY <1>1, ServiceConstants DEF Exchanging, LiveDealerClean
<1>5. /\ stopEv' \in BOOLEAN /\ stopping' \in BOOLEAN /\ dealer \in 0..opened /\ opened \in Nat
      /\ box \in [Calls -> {"open", "cancelled", "reply", "error"}]
  BY <1>1 DEF ZmqType
<1>6. CASE h = STOP /\ io' = "draining" /\ ResetDealer /\ UNCHANGED <<box, cur, opened>>
  <2>1. wire' \subseteq wire /\ back' \subseteq back /\ dealer' = 0 /\ LiveDealerClean'
    BY <1>6, DealerReset
  <2>2. ZmqType'
    BY <1>1, <1>3, <1>4, <1>5, <1>6, <2>1, StillTyped
  <2>3. \A c \in Calls : ToSend(c)' => ToSend(c)
    BY <1>3, <1>6 DEF ToSend
  <2>4. Exchanging' /\ Leaving'
    BY <1>1, <1>3, <1>4, <1>6 DEF Exchanging, Leaving
  <2> QED BY <1>1, <1>3, <1>6, <2>1, <2>2, <2>3, <2>4, ThreadTurns
<1>7. CASE h # STOP /\ Complete(h, "error") /\ UNCHANGED <<io, cur, dealer, opened, netVars>>
  <2>1. UNCHANGED <<wire, back>>
    BY <1>7 DEF netVars
  <2>2. /\ box' \in [Calls -> {"open", "cancelled", "reply", "error"}]
        /\ \A d \in Calls : box'[d] = "reply" => box[d] = "reply"
    BY <1>3, <1>7, Completed
  <2>3. ZmqType'
    BY <1>1, <1>3, <1>4, <1>5, <1>7, <2>1, <2>2, StillTyped
  <2>4. \A c \in Calls : ToSend(c)' => ToSend(c)
    BY <1>3, <1>7 DEF ToSend
  <2>5. Exchanging' /\ Leaving'
    BY <1>1, <1>3, <1>4, <1>7 DEF Exchanging, Leaving
  <2>6. LiveDealerClean'
    BY <1>1, <1>4, <1>7, <2>1 DEF LiveDealerClean, OnDealer, routerVars
  <2> QED BY <1>1, <1>3, <1>7, <2>1, <2>2, <2>3, <2>4, <2>5, <2>6, ThreadTurns
<1>8. CASE h # STOP /\ cur' = h /\ io' = "sending" /\ EnsureDealer /\ UNCHANGED <<box, netVars>>
  <2>1. UNCHANGED <<wire, back, ident, respq>> /\ h \in Calls
    BY <1>1, <1>3, <1>8 DEF netVars, routerVars
  <2>2. \/ dealer # 0 /\ dealer' = dealer /\ opened' = opened
        \/ dealer' = opened + 1 /\ opened' = opened + 1
    BY <1>8 DEF EnsureDealer
  <2>3. dealer' # 0 /\ dealer' \in 0..opened' /\ (opened' = opened \/ opened' = opened + 1)
    BY <1>5, <2>2
  <2>4. ZmqType'
    BY <1>1, <1>3, <1>5, <1>8, <2>1, <2>3, StillTyped
  <2>5. \A c \in Calls : ToSend(c)' => ToSend(c)
    BY <1>3, <1>8 DEF ToSend
  <2>6. Exchanging' /\ Leaving'
    BY <1>1, <1>3, <1>8, <2>1, <2>3 DEF Exchanging, Leaving
  <2>7. io' = "sending" => ~InQueue(cur)'
    BY <1>3, <1>8 DEF InQueue
  <2>8. LiveDealerClean'
    <3>1. CASE dealer # 0 /\ dealer' = dealer
      BY <1>4, <2>1, <3>1 DEF LiveDealerClean, OnDealer
    <3>2. CASE dealer' = opened + 1
      <4>1. \A c \in Calls : ident[c] # opened + 1 /\ <<opened + 1, c>> \notin wire \cup back
        BY <1>5 DEF ZmqType
      <4>2. \A c \in Calls : \A i \in 1..Len(respq) : respq[i] # <<opened + 1, c>>
        <5>1. \A i \in 1..Len(respq) : respq[i] \in (1..opened) \X Calls
          BY DEF ZmqType
        <5>2. opened + 1 \notin 1..opened
          BY <1>5
        <5> QED BY <5>1, <5>2
      <4> QED BY <2>1, <3>2, <4>1, <4>2 DEF LiveDealerClean, OnDealer
    <3> QED BY <2>2, <3>1, <3>2
  <2> QED BY <1>1, <1>3, <1>8, <2>1, <2>4, <2>5, <2>6, <2>7, <2>8, ThreadTurns
<1> QED BY <1>2, <1>6, <1>7, <1>8 DEF Dequeue

\* The request goes out: from then on it is the wire's.
LEMMA ThreadSends ==
  ASSUME ZmqInv, WireSend, UNCHANGED storeVars
  PROVE  ZmqInv' /\ Kept
<1> USE DEF ZmqInv
<1>1. /\ io = "sending" /\ wire' = wire \cup {<<dealer, cur>>} /\ io' = "waiting"
      /\ UNCHANGED <<clientVars, serviceVars, box, cq, cur, stopEv, stopping,
                     dealer, opened, back, routerVars>>
  BY DEF WireSend
<1>2. PICK c \in Calls : c = cur /\ dealer \in 1..opened /\ opened \in Nat
  BY <1>1 DEF Exchanging, ZmqType
<1>3. /\ UNCHANGED <<caller, late, got, runs, reply, pending, work, ident, respq>>
      /\ UNCHANGED <<kind, list, chan, mine, sub, seen, resp>>
  BY <1>1 DEF clientVars, serviceVars, routerVars, storeVars
<1>4. ServiceInv' /\ Serves(None) /\ Kept
  BY <1>1, <1>3, Untouched, NothingHappened
<1>5. StoreIdle'
  BY <1>3 DEF StoreIdle, StoreType
<1>6. Fresh(c) /\ ~InQueue(c)
  BY <1>1, <1>2 DEF Queued, ToSend
<1>7. \A e : /\ InWire(e)' <=> InWire(e) \/ e = c
             /\ InQueue(e)' <=> InQueue(e)
             /\ InBack(e)' <=> InBack(e)
             /\ InRespq(e)' <=> InRespq(e)
             /\ AtServer(e)' <=> AtServer(e)
  <2>1. \A e : InWire(e)' <=> InWire(e) \/ e = c
    <3>1. wire' = wire \cup {<<dealer, c>>} /\ <<dealer, c>>[2] = c
      BY <1>1, <1>2
    <3> QED BY <3>1 DEF InWire
  <2>2. \A e : (InQueue(e)' <=> InQueue(e)) /\ (InBack(e)' <=> InBack(e)) /\ (InRespq(e)' <=> InRespq(e))
    BY <1>1, <1>3 DEF InQueue, InBack, InRespq
  <2>3. \A e : AtServer(e)' <=> AtServer(e)
    BY <1>3 DEF AtServer
  <2> QED BY <2>1, <2>2, <2>3
<1>8. ZmqType'
  <2>1. <<dealer, c>> \in (1..opened) \X Calls
    BY <1>2
  <2>2. wire' \subseteq (1..opened) \X Calls
    BY <1>1, <1>2, <2>1 DEF ZmqType
  <2> QED BY <1>1, <2>2 DEF ZmqType, routerVars
<1>9. Queued'
  <2>1. \A e \in Calls : ToSend(e)' => e # c /\ ToSend(e)
    BY <1>1, <1>6, <1>7 DEF ToSend
  <2>2. \A e \in Calls : ToSend(e)' => Fresh(e)'
    BY <1>3, <1>7, <2>1 DEF Queued, Fresh
  <2> QED BY <1>1, <2>2 DEF Queued
<1>10. Exchanging' /\ Leaving'
  BY <1>1, <1>7 DEF Exchanging, Leaving
<1>11. OnTheWire'
  <2>1. \A m, n \in wire' : m[2] = n[2] => m = n
    <3>1. \A m \in wire : m[2] # c
      BY <1>6 DEF Fresh, InWire
    <3>2. <<dealer, cur>>[2] = c
      BY <1>2
    <3> QED BY <1>1, <3>1, <3>2 DEF OnTheWire
  <2> QED BY <1>3, <1>6, <1>7, <2>1 DEF OnTheWire, Fresh
<1>12. Answers' /\ BoxTrue'
  BY <1>1, <1>3, <1>7 DEF Answers, BoxTrue
<1>13. LiveDealerClean'
  BY <1>1, <1>2, <1>3 DEF LiveDealerClean, OnDealer
<1> QED BY <1>4, <1>5, <1>8, <1>9, <1>10, <1>11, <1>12, <1>13

\* The exchange ends, with its DEALER or with its reply.
LEMMA ExchangeEnds ==
  ASSUME ZmqInv, AbortExchange \/ Receive, UNCHANGED storeVars
  PROVE  ZmqInv' /\ Kept
<1> USE DEF ZmqInv
<1>1. /\ io \in {"sending", "waiting"}
      /\ UNCHANGED <<clientVars, serviceVars, cq, stopEv, stopping, opened, routerVars>>
  BY DEF AbortExchange, Receive
<1>2. PICK c \in Calls : c = cur
  BY <1>1 DEF Exchanging
<1>3. UNCHANGED <<reply, ident, respq>>
  BY <1>1 DEF serviceVars, routerVars
<1>4. \/ ResetDealer /\ Complete(c, "error") /\ io' = "loop" /\ cur' = None
      \/ \E m \in back : /\ m[1] = dealer /\ m[2] = c /\ Complete(c, "reply")
                         /\ io' = "loop" /\ cur' = None /\ back' = back \ {m}
                         /\ UNCHANGED <<dealer, wire>>
      \/ \E m \in back : back' = back \ {m} /\ UNCHANGED <<box, io, cur, dealer, wire>>
  BY <1>2 DEF AbortExchange, Receive
<1>5. /\ stopEv' \in BOOLEAN /\ stopping' \in BOOLEAN /\ dealer \in 0..opened /\ opened \in Nat
      /\ box \in [Calls -> {"open", "cancelled", "reply", "error"}]
      /\ cq' \in Seq(Calls \cup {STOP})
      /\ io \in {"none", "loop", "sending", "waiting", "draining", "exiting", "ended"}
  BY <1>1 DEF ZmqType
<1>6. \A i, j \in 1..Len(cq') : cq'[i] # STOP /\ cq'[i] = cq'[j] => i = j
  BY <1>1 DEF Queued
<1>7. \A e : InQueue(e)' <=> InQueue(e)
  BY <1>1 DEF InQueue
<1>8. CASE \E m \in back : back' = back \ {m} /\ UNCHANGED <<box, io, cur, dealer, wire>>
  <2>1. back' \subseteq back
    BY <1>8
  <2>2. ZmqType'
    BY <1>1, <1>2, <1>5, <1>8, <2>1, StillTyped
  <2>3. \A e \in Calls : ToSend(e)' => ToSend(e)
    BY <1>7, <1>8 DEF ToSend
  <2>4. Exchanging' /\ Leaving'
    BY <1>1, <1>7, <1>8 DEF Exchanging, Leaving
  <2>5. io' = "sending" => ~InQueue(cur)'
    BY <1>1, <1>8 DEF Queued, InQueue
  <2>6. LiveDealerClean'
    BY <1>3, <1>8 DEF LiveDealerClean, OnDealer
  <2> QED BY <1>1, <1>6, <1>8, <2>1, <2>2, <2>3, <2>4, <2>5, <2>6, ThreadTurns
<1>9. ASSUME io' = "loop", cur' = None, NEW how \in {"error", "reply"}, Complete(c, how),
             how = "reply" => reply[c] # None, wire' \subseteq wire, back' \subseteq back,
             dealer' \in 0..opened, LiveDealerClean'
      PROVE  ZmqInv' /\ Kept
  <2>1. /\ box' \in [Calls -> {"open", "cancelled", "reply", "error"}]
        /\ \A d \in Calls : box'[d] = "reply" => box[d] = "reply" \/ reply[d] # None
    BY <1>9, Completed
  <2>2. ZmqType'
    BY <1>1, <1>5, <1>9, <2>1, StillTyped
  <2>3. \A e \in Calls : ToSend(e)' => ToSend(e)
    BY <1>7, <1>9 DEF ToSend
  <2>4. Exchanging' /\ Leaving'
    BY <1>1, <1>7, <1>9 DEF Exchanging, Leaving
  <2> QED BY <1>1, <1>6, <1>9, <2>1, <2>2, <2>3, <2>4, ThreadTurns
<1>10. CASE ResetDealer /\ Complete(c, "error") /\ io' = "loop" /\ cur' = None
  BY <1>5, <1>9, <1>10, DealerReset
<1>11. CASE \E m \in back : /\ m[1] = dealer /\ m[2] = c /\ Complete(c, "reply")
                            /\ io' = "loop" /\ cur' = None /\ back' = back \ {m}
                            /\ UNCHANGED <<dealer, wire>>
  <2>1. PICK m \in back : m[1] = dealer /\ m[2] = c /\ back' = back \ {m}
    BY <1>11
  <2>2. m = <<dealer, c>> /\ InBack(c)
    BY <2>1 DEF ZmqType, InBack
  <2>3. reply[c] # None /\ ident[c] = 0 /\ ~InRespq(c) /\ ~InWire(c)
    BY <2>2 DEF Answers, OnTheWire
  <2>4. LiveDealerClean'
    <3>1. SUFFICES ASSUME dealer # 0, NEW e \in Calls, OnDealer(e)' PROVE FALSE
      BY <1>11 DEF LiveDealerClean
    <3>2. OnDealer(e) /\ e = c
      <4>1. OnDealer(e)
        BY <1>3, <1>11, <2>1, <3>1 DEF OnDealer
      <4> QED BY <1>2, <3>1, <4>1 DEF LiveDealerClean
    <3>3. <<dealer, c>> \notin wire \cup back' /\ ident[c] # dealer
      BY <2>1, <2>2, <2>3, <3>1 DEF InWire
    <3>4. \A i \in 1..Len(respq) : respq[i] # <<dealer, c>>
      BY <2>3 DEF InRespq
    <3> QED BY <1>3, <1>11, <3>1, <3>2, <3>3, <3>4 DEF OnDealer
  <2> QED BY <1>5, <1>9, <1>11, <2>1, <2>3, <2>4
<1> QED BY <1>4, <1>8, <1>10, <1>11

\* The I/O thread ends: it leaves its loop, fails what is queued, dies, is forgotten.
LEMMA ThreadEnds ==
  ASSUME ZmqInv, LeaveLoop \/ FailQueued \/ ThreadDies \/ ClientStopped, UNCHANGED storeVars
  PROVE  ZmqInv' /\ Kept
<1> USE DEF ZmqInv
<1>1. UNCHANGED <<clientVars, serviceVars, cur, opened, routerVars>>
  BY DEF LeaveLoop, FailQueued, ThreadDies, ClientStopped
<1>2. cur = None /\ io \notin {"sending", "waiting"}
  BY DEF LeaveLoop, FailQueued, ThreadDies, ClientStopped, Exchanging
<1>3. UNCHANGED <<ident, respq>>
  BY <1>1 DEF routerVars
<1>4. /\ stopEv \in BOOLEAN /\ stopping \in BOOLEAN /\ dealer \in 0..opened /\ opened \in Nat
      /\ box \in [Calls -> {"open", "cancelled", "reply", "error"}]
      /\ cq \in Seq(Calls \cup {STOP})
      /\ io \in {"none", "loop", "sending", "waiting", "draining", "exiting", "ended"}
  BY DEF ZmqType
<1>5. ASSUME io' \in {"none", "draining", "exiting", "ended"},
             UNCHANGED cq, UNCHANGED box, stopEv' \in BOOLEAN, stopping' \in BOOLEAN,
             wire' \subseteq wire, back' \subseteq back, dealer' \in 0..opened,
             LiveDealerClean', Leaving'
      PROVE  ZmqInv' /\ Kept
  <2>1. ZmqType'
    BY <1>1, <1>2, <1>4, <1>5, StillTyped
  <2>2. \A e \in Calls : ToSend(e)' => ToSend(e)
    BY <1>5 DEF ToSend, InQueue
  <2>3. Exchanging' /\ io' # "sending"
    BY <1>1, <1>2, <1>5 DEF Exchanging
  <2>4. \A i, j \in 1..Len(cq') : cq'[i] # STOP /\ cq'[i] = cq'[j] => i = j
    BY <1>5 DEF Queued
  <2> QED BY <1>1, <1>5, <2>1, <2>2, <2>3, <2>4, ThreadTurns
<1>6. UNCHANGED <<dealer, wire, back>> => LiveDealerClean'
  BY <1>1, <1>3 DEF LiveDealerClean, OnDealer
<1>7. CASE LeaveLoop
  <2>1. wire' \subseteq wire /\ back' \subseteq back /\ dealer' = 0 /\ LiveDealerClean'
    BY <1>7, DealerReset DEF LeaveLoop
  <2>2. io' = "draining" /\ UNCHANGED <<box, cq, stopEv, stopping>> /\ stopEv
    BY <1>7 DEF LeaveLoop
  <2>3. Leaving'
    BY <2>2 DEF Leaving, InQueue
  <2> QED BY <1>4, <1>5, <2>1, <2>2, <2>3
<1>8. CASE ThreadDies
  <2>1. io = "exiting" /\ io' = "ended" /\ UNCHANGED <<box, cq, stopEv, stopping, dealer, wire, back>>
    BY <1>8 DEF ThreadDies, netVars
  <2>2. Leaving'
    BY <2>1 DEF Leaving, InQueue
  <2> QED BY <1>4, <1>5, <1>6, <2>1, <2>2
<1>9. CASE ClientStopped
  <2>1. /\ io = "ended" /\ io' = "none" /\ stopping' = FALSE /\ stopEv' = FALSE /\ cq' = <<>>
        /\ UNCHANGED <<box, dealer, wire, back>>
    BY <1>9 DEF ClientStopped, netVars
  <2>2. cq = <<>>
    BY <2>1 DEF Leaving
  <2>3. Leaving'
    <3>1. Len(<<>>) = 0 /\ 1..0 = {}
      OBVIOUS
    <3>2. ~InQueue(STOP)'
      BY <2>1, <3>1 DEF InQueue
    <3> QED BY <2>1, <3>2 DEF Leaving
  <2> QED BY <1>4, <1>5, <1>6, <2>1, <2>2, <2>3
<1>10. CASE FailQueued
  <2>1. io = "draining" /\ UNCHANGED <<stopEv, stopping, dealer, wire, back>>
    BY <1>10 DEF FailQueued, netVars
  <2>2. CASE cq = <<>> /\ io' = "exiting" /\ UNCHANGED <<cq, box>>
    <3>1. Leaving'
      BY <2>1, <2>2 DEF Leaving, InQueue
    <3> QED BY <1>4, <1>5, <1>6, <2>1, <2>2, <3>1
  <2>3. CASE /\ cq # <<>> /\ cq' = Tail(cq) /\ UNCHANGED io
             /\ IF Head(cq) = STOP THEN UNCHANGED box ELSE Complete(Head(cq), "error")
    <3>1. PICK h : h = Head(cq)
      OBVIOUS
    <3>2. /\ h \in Calls \cup {STOP} /\ cq' \in Seq(Calls \cup {STOP})
          /\ \A c : InQueue(c)' => InQueue(c)
          /\ \A i, j \in 1..Len(cq') : cq'[i] # STOP /\ cq'[i] = cq'[j] => i = j
      BY <2>3, <3>1, Unqueued
    <3>3. /\ box' \in [Calls -> {"open", "cancelled", "reply", "error"}]
          /\ \A d \in Calls : box'[d] = "reply" => box[d] = "reply"
      <4>1. CASE UNCHANGED box
        BY <1>4, <4>1
      <4>2. CASE h \in Calls /\ Complete(h, "error")
        BY <4>2, Completed
      <4> QED BY <2>3, <3>1, <3>2, <4>1, <4>2
    <3>4. ZmqType'
      BY <1>1, <1>2, <1>4, <2>1, <2>3, <3>2, <3>3, StillTyped
    <3>5. \A c \in Calls : ToSend(c)' => ToSend(c)
      BY <1>1, <2>3, <3>2 DEF ToSend
    <3>6. Exchanging' /\ Leaving' /\ io' # "sending"
      BY <1>1, <1>2, <2>1, <2>3, <3>2 DEF Exchanging, Leaving
    <3> QED BY <1>1, <1>6, <2>1, <3>2, <3>3, <3>4, <3>5, <3>6, ThreadTurns
  <2> QED BY <1>10, <2>2, <2>3 DEF FailQueued
<1> QED BY <1>7, <1>8, <1>9, <1>10

\* stop() raises both flags before its marker is in the queue.
LEMMA ClientStops ==
  ASSUME ZmqInv, StopClient, UNCHANGED storeVars
  PROVE  ZmqInv' /\ Kept
<1> USE DEF ZmqInv
<1>1. /\ Alive /\ ~stopping /\ stopping' = TRUE /\ stopEv' = TRUE /\ cq' = Append(cq, STOP)
      /\ UNCHANGED <<clientVars, serviceVars, box, io, cur, dealer, opened, wire, back, routerVars>>
  BY DEF StopClient, netVars
<1>2. /\ cq' \in Seq(Calls \cup {STOP}) /\ Len(cq) \in Nat /\ Len(cq') = Len(cq) + 1
      /\ \A i \in 1..Len(cq') : \/ i \in 1..Len(cq) /\ cq'[i] = cq[i]
                                \/ cq'[i] = STOP
  <2>1. cq \in Seq(Calls \cup {STOP}) /\ STOP \in Calls \cup {STOP}
    BY DEF ZmqType
  <2>2. /\ Append(cq, STOP) \in Seq(Calls \cup {STOP}) /\ Len(Append(cq, STOP)) = Len(cq) + 1
        /\ \A i \in 1..Len(cq) : Append(cq, STOP)[i] = cq[i]
        /\ Append(cq, STOP)[Len(cq) + 1] = STOP
    BY <2>1, AppendProperties
  <2> QED BY <1>1, <2>1, <2>2
<1>3. \A c \in Calls : InQueue(c)' => InQueue(c)
  BY <1>2, ZmqConstants DEF InQueue
<1>4. ZmqType'
  BY <1>1, <1>2 DEF ZmqType, routerVars
<1>5. \A c \in Calls : ToSend(c)' => ToSend(c)
  BY <1>1, <1>3 DEF ToSend
<1>6. io' = "sending" => ~InQueue(cur)'
  BY <1>1, <1>3 DEF Queued, Exchanging
<1>7. \A i, j \in 1..Len(cq') : cq'[i] # STOP /\ cq'[i] = cq'[j] => i = j
  BY <1>2 DEF Queued
<1>8. Exchanging' /\ Leaving'
  BY <1>1 DEF Exchanging, Leaving, Alive
<1>9. LiveDealerClean'
  BY <1>1 DEF LiveDealerClean, OnDealer, routerVars
<1> QED BY <1>1, <1>4, <1>5, <1>6, <1>7, <1>8, <1>9, ThreadTurns

\* The callers: a step that leaves the I/O thread, the wire and the server alone.
LEMMA CallerTurns ==
  ASSUME ZmqInv, UNCHANGED <<serviceVars, ioVars, netVars, routerVars, storeVars>>,
         caller' \in [Calls -> {"idle", "waiting", "answered", "failed"}],
         late' \in [Calls -> BOOLEAN], got' \in [Calls -> [id : Calls, body : Bodies] \cup {None}],
         box' \in [Calls -> {"open", "cancelled", "reply", "error"}],
         \A c \in Calls : box'[c] = "reply" => box[c] = "reply",
         \A c \in Calls : caller'[c] = "idle" => caller[c] = "idle"
  PROVE  ZmqInv'
<1> USE DEF ZmqInv
<1>1. /\ UNCHANGED <<cq, io, cur, stopEv, stopping, dealer, opened, wire, back>>
      /\ UNCHANGED <<ident, respq, rx, reply, runs>>
      /\ UNCHANGED <<kind, list, chan, mine, sub, seen, resp>>
  BY DEF ioVars, netVars, routerVars, serviceVars, storeVars
<1>2. ServiceInv' /\ Serves(None)
  BY CallersServed
<1>3. StoreIdle' /\ ZmqType'
  BY <1>1 DEF StoreIdle, StoreType, ZmqType
<1>4. \A c : (InWire(c)' <=> InWire(c)) /\ (InQueue(c)' <=> InQueue(c)) /\ (ToSend(c)' <=> ToSend(c))
  BY <1>1 DEF InWire, InQueue, ToSend
<1>5. \A c : (InBack(c)' <=> InBack(c)) /\ (InRespq(c)' <=> InRespq(c)) /\ (OnDealer(c)' <=> OnDealer(c))
  BY <1>1 DEF InBack, InRespq, OnDealer
<1>6. Queued'
  <2>1. \A c \in Calls : ToSend(c)' => Fresh(c)'
    BY <1>2, <1>4, ServiceConstants, FreshKept DEF Queued
  <2>2. io' = "sending" => ~InQueue(cur)'
    BY <1>1 DEF Queued, InQueue
  <2> QED BY <1>1, <2>1, <2>2 DEF Queued
<1>7. Exchanging' /\ Leaving'
  BY <1>1, <1>4 DEF Exchanging, Leaving
<1>8. OnTheWire'
  <2>1. \A c \in Calls : InWire(c)' => caller'[c] # "idle" /\ reply'[c] = None /\ ~AtServer(c)'
    BY <1>1, <1>2, <1>4, ServiceConstants DEF OnTheWire, Serves
  <2> QED BY <1>1, <2>1 DEF OnTheWire
<1>9. Answers' /\ BoxTrue' /\ LiveDealerClean'
  BY <1>1, <1>5 DEF Answers, BoxTrue, LiveDealerClean
<1> QED BY <1>2, <1>3, <1>6, <1>7, <1>8, <1>9

\* send_request: the call is refused, or joins the queue of a live thread.
LEMMA ZmqSends ==
  ASSUME ZmqInv, NEW c \in Calls, ZSend(c), UNCHANGED storeVars
  PROVE  ZmqInv' /\ Kept
<1> USE DEF ZmqInv
<1>1. /\ caller[c] = "idle"
      /\ UNCHANGED <<late, got, serviceVars, box, netVars, routerVars>>
  BY DEF ZSend
<1>2. /\ UNCHANGED <<late, got, runs, reply, pending, work, wire, back, ident, respq, rx>>
      /\ UNCHANGED <<kind, list, chan, mine, sub, seen, resp>>
  BY <1>1 DEF serviceVars, netVars, routerVars, storeVars
<1>3. ASSUME NEW how \in {"waiting", "failed"}, Ends(c, how)
      PROVE  /\ caller' \in [Calls -> {"idle", "waiting", "answered", "failed"}]
             /\ \A d \in Calls : d # c => caller'[d] = caller[d]
             /\ caller'[c] = how
  BY <1>3 DEF Ends, ServiceInv, ServiceType
<1>4. late \in [Calls -> BOOLEAN] /\ got \in [Calls -> [id : Calls, body : Bodies] \cup {None}]
  BY DEF ServiceInv, ServiceType
<1>5. CASE Ends(c, "failed") /\ UNCHANGED ioVars
  <2>1. Kept
    BY <1>1, <1>2, <1>5, CallFailed
  <2>2. /\ caller' \in [Calls -> {"idle", "waiting", "answered", "failed"}]
        /\ \A d \in Calls : caller'[d] = "idle" => caller[d] = "idle"
    BY <1>1, <1>3, <1>5
  <2>3. box' \in [Calls -> {"open", "cancelled", "reply", "error"}] /\ box' = box
    BY <1>1 DEF ZmqType
  <2> QED BY <1>1, <1>2, <1>4, <1>5, <2>1, <2>2, <2>3, CallerTurns
<1>6. CASE /\ ~stopping /\ Ends(c, "waiting") /\ UNCHANGED <<cur, stopping, dealer, opened>>
           /\ \/ Alive /\ cq' = Append(cq, c) /\ UNCHANGED <<io, stopEv>>
              \/ ~Alive /\ cq' = <<c>> /\ io' = "loop" /\ stopEv' = FALSE
  <2>1. Kept
    BY <1>1, <1>2, <1>6, CallMade
  <2>2. /\ caller' \in [Calls -> {"idle", "waiting", "answered", "failed"}]
        /\ \A d \in Calls : d # c => caller'[d] = caller[d]
        /\ \A d \in Calls : caller'[d] = "idle" => caller[d] = "idle"
        /\ caller'[c] = "waiting"
    BY <1>1, <1>3, <1>6
  <2>3. ServiceInv' /\ Serves(None)
    BY <1>1, <1>2, <1>4, <2>2, CallersServed
  <2>4. ~Alive => io = "none" /\ cq = <<>>
    BY <1>6 DEF Alive, Leaving
  <2>5. cq \in Seq(Calls \cup {STOP}) /\ cq' = Append(cq, c)
    <3>1. cq = <<>> => Append(cq, c) = <<c>>
      OBVIOUS
    <3> QED BY <1>6, <2>4, <3>1 DEF ZmqType
  <2>6. /\ cq' \in Seq(Calls \cup {STOP}) /\ Len(cq) \in Nat /\ Len(cq') = Len(cq) + 1
        /\ \A i \in 1..Len(cq) : cq'[i] = cq[i]
        /\ cq'[Len(cq) + 1] = c
    BY <2>5, AppendProperties
  <2>7. \A i \in 1..Len(cq') : \/ i \in 1..Len(cq) /\ cq'[i] = cq[i]
                               \/ i = Len(cq) + 1 /\ cq'[i] = c
    BY <2>6
  <2>8. \A e : InQueue(e)' => InQueue(e) \/ e = c
    BY <2>7 DEF InQueue
  <2>9. reply[c] = None /\ ~AtServer(c) /\ ~InWire(c) /\ ~ToSend(c)
    <3>1. reply[c] = None /\ ~AtServer(c)
      BY <1>1 DEF ServiceInv, IdleUnknown
    <3>2. ~InWire(c)
      BY <1>1 DEF OnTheWire
    <3>3. ~ToSend(c)
      BY <1>1 DEF Queued, Fresh
    <3> QED BY <3>1, <3>2, <3>3
  <2>10. /\ io' = io \/ (io = "none" /\ io' = "loop")
         /\ stopEv' = stopEv \/ stopEv' = FALSE
    BY <1>6, <2>4
  <2>11. \A e : (InWire(e)' <=> InWire(e)) /\ (AtServer(e)' <=> AtServer(e)) /\ (OnDealer(e)' <=> OnDealer(e))
    <3>1. \A e : (InWire(e)' <=> InWire(e)) /\ (OnDealer(e)' <=> OnDealer(e))
      BY <1>2, <1>6 DEF InWire, OnDealer
    <3>2. \A e : AtServer(e)' <=> AtServer(e)
      BY <1>2 DEF AtServer
    <3> QED BY <3>1, <3>2
  <2>12. ZmqType'
    <3>1. /\ io' \in {"none", "loop", "sending", "waiting", "draining", "exiting", "ended"}
          /\ stopEv' \in BOOLEAN
      BY <2>10 DEF ZmqType
    <3> QED BY <1>1, <1>2, <1>6, <2>6, <3>1 DEF ZmqType
  <2>13. Queued'
    <3>1. ASSUME NEW e \in Calls, ToSend(e)' PROVE Fresh(e)'
      <4>1. CASE e = c
        BY <1>2, <2>2, <2>9, <2>11, <4>1 DEF Fresh
      <4>2. CASE e # c
        <5>1. ToSend(e)
          BY <1>6, <2>8, <2>10, <3>1, <4>2 DEF ToSend
        <5>2. Fresh(e)
          BY <5>1 DEF Queued
        <5> QED BY <1>2, <2>2, <2>11, <5>2 DEF Fresh
      <4> QED BY <4>1, <4>2
    <3>2. ASSUME io' = "sending" PROVE ~InQueue(cur)'
      <4>1. io = "sending" /\ cur' = cur /\ cur # c
        BY <1>6, <2>9, <2>10, <3>2 DEF ToSend
      <4>2. ~InQueue(cur)
        BY <4>1 DEF Queued
      <4> QED BY <2>7, <4>1, <4>2 DEF InQueue
    <3>3. \A i, j \in 1..Len(cq') : cq'[i] # STOP /\ cq'[i] = cq'[j] => i = j
      <4>1. \A i \in 1..Len(cq) : cq[i] # c
        BY <2>9 DEF ToSend, InQueue
      <4> QED BY <2>7, <4>1 DEF Queued
    <3> QED BY <3>1, <3>2, <3>3 DEF Queued
  <2>14. Exchanging' /\ Leaving'
    <3>1. Exchanging'
      BY <1>6, <2>10 DEF Exchanging
    <3>2. c # STOP /\ io' \notin {"none", "draining", "exiting", "ended"}
      BY <1>6, <2>4, ZmqConstants DEF Alive, Leaving, ZmqType
    <3>3. ~stopEv' /\ ~InQueue(STOP)'
      BY <1>6, <2>8, <2>10, <3>2 DEF Leaving
    <3> QED BY <3>1, <3>2, <3>3 DEF Leaving
  <2>15. OnTheWire'
    <3>1. \A d \in Calls : InWire(d)' => caller'[d] # "idle" /\ reply'[d] = None /\ ~AtServer(d)'
      BY <1>2, <2>2, <2>11 DEF OnTheWire
    <3> QED BY <1>2, <3>1 DEF OnTheWire
  <2>16. Answers' /\ BoxTrue'
    <3>1. \A e : (InBack(e)' <=> InBack(e)) /\ (InRespq(e)' <=> InRespq(e))
      BY <1>2 DEF InBack, InRespq
    <3> QED BY <1>1, <1>2, <3>1 DEF Answers, BoxTrue
  <2>17. LiveDealerClean'
    BY <1>6, <2>11 DEF LiveDealerClean
  <2>18. StoreIdle'
    BY <1>2 DEF StoreIdle, StoreType
  <2> QED BY <2>1, <2>3, <2>12, <2>13, <2>14, <2>15, <2>16, <2>17, <2>18
<1> QED BY <1>5, <1>6 DEF ZSend

\* The caller wakes with its reply, an error or the end of its wait; a deadline passes.
LEMMA ZmqWakes ==
  ASSUME ZmqInv, NEW c \in Calls,
         ZCallerWakes(c) \/ (Expire(c) /\ UNCHANGED zmqVars), UNCHANGED storeVars
  PROVE  ZmqInv' /\ Kept
<1> USE DEF ZmqInv
<1>1. UNCHANGED <<serviceVars, ioVars, netVars, routerVars, kind>> /\ UNCHANGED <<runs, reply>>
  BY DEF ZCallerWakes, Expire, zmqVars, serviceVars, storeVars
<1>2. /\ caller \in [Calls -> {"idle", "waiting", "answered", "failed"}] /\ late \in [Calls -> BOOLEAN]
      /\ got \in [Calls -> [id : Calls, body : Bodies] \cup {None}]
      /\ box \in [Calls -> {"open", "cancelled", "reply", "error"}]
      /\ reply \in [Calls -> Bodies \cup {None}]
  BY DEF ServiceInv, ServiceType, ZmqType
<1>3. CASE Expire(c) /\ UNCHANGED zmqVars
  <2>1. /\ UNCHANGED <<caller, got, box>> /\ late' \in [Calls -> BOOLEAN]
    BY <1>2, <1>3 DEF Expire, zmqVars
  <2>2. Kept
    BY <1>1, <1>3, CallExpired DEF ServiceInv
  <2> QED BY <1>1, <1>2, <2>1, <2>2, CallerTurns
<1>4. CASE ZCallerWakes(c)
  <2>1. /\ caller[c] = "waiting" /\ UNCHANGED late
        /\ \/ box[c] = "reply" /\ Answered(c, c) /\ UNCHANGED box
           \/ Ends(c, "failed") /\ UNCHANGED got /\ (UNCHANGED box \/ Complete(c, "cancelled"))
    BY <1>4 DEF ZCallerWakes
  <2>2. box[c] = "reply" => reply[c] # None /\ reply[c] \in Bodies
    BY <1>2 DEF BoxTrue
  <2>3. Kept
    BY <1>1, <2>1, <2>2, CallAnswered, CallFailed
  <2>4. PICK how \in {"answered", "failed"} : Ends(c, how)
    BY <2>1 DEF Answered
  <2>5. /\ caller' \in [Calls -> {"idle", "waiting", "answered", "failed"}]
        /\ \A d \in Calls : caller'[d] = "idle" => caller[d] = "idle"
    BY <1>2, <2>4 DEF Ends
  <2>6. got' \in [Calls -> [id : Calls, body : Bodies] \cup {None}]
    <3>1. CASE box[c] = "reply" /\ Answered(c, c)
      <4>1. [id |-> c, body |-> reply[c]] \in [id : Calls, body : Bodies]
        BY <2>2, <3>1
      <4> QED BY <1>2, <3>1, <4>1 DEF Answered
    <3>2. CASE UNCHANGED got
      BY <1>2, <3>2
    <3> QED BY <2>1, <3>1, <3>2
  <2>7. /\ box' \in [Calls -> {"open", "cancelled", "reply", "error"}]
        /\ \A d \in Calls : box'[d] = "reply" => box[d] = "reply"
    <3>1. CASE UNCHANGED box
      BY <1>2, <3>1
    <3>2. CASE Complete(c, "cancelled")
      BY <3>2, Completed
    <3> QED BY <2>1, <3>1, <3>2
  <2> QED BY <1>1, <1>2, <2>1, <2>3, <2>5, <2>6, <2>7, CallerTurns
<1> QED BY <1>3, <1>4

LEMMA ZmqStep ==
  ASSUME ZmqInv, ZmqNext, UNCHANGED storeVars
  PROVE  ZmqInv' /\ Kept
<1>1. CASE \E c \in Calls : \/ ZSend(c) \/ ZCallerWakes(c)
                            \/ (Expire(c) /\ UNCHANGED zmqVars)
  BY <1>1, ZmqSends, ZmqWakes
<1>2. CASE Dequeue \/ WireSend \/ AbortExchange \/ Receive
  BY <1>2, ThreadDequeues, ThreadSends, ExchangeEnds
<1>3. CASE LeaveLoop \/ FailQueued \/ ThreadDies \/ StopClient \/ ClientStopped
  BY <1>3, ThreadEnds, ClientStops
<1>4. CASE RouterReceive \/ FlushResponses \/ RouterCloses
  BY <1>4, RouterReceives, RouterFlushes, RouterEnds
<1>5. CASE \E w \in {"listener", "tick"} : ZHandle(w) \/ ZPublish(w)
  <2>1. {"listener", "tick"} \subseteq Workers
    BY DEF Workers
  <2> QED BY <1>5, <2>1, ZmqServes, ZmqPublishes DEF ZHandle
<1>6. CASE ZStart \/ ZStop \/ (DrainPending /\ UNCHANGED zmqVars)
  BY <1>6, ZmqServes DEF ZStart, ZStop
<1> QED BY <1>1, <1>2, <1>3, <1>4, <1>5, <1>6 DEF ZmqNext

-----------------------------------------------------------------------------
(* Theorems *)

PlaneInv == StoreInv \/ ZmqInv

LEMMA PlaneStart == Init => PlaneInv /\ RC!Init
<1> SUFFICES ASSUME Init PROVE PlaneInv /\ RC!Init
  OBVIOUS
<1>1. PlaneInv
  BY StoreStart, ZmqStart DEF Init, PlaneInv
<1>2. RC!Init
  BY DEF Init, ServiceInit, RC!Init, Overdue
<1> QED BY <1>1, <1>2

LEMMA PlaneStep == PlaneInv /\ [Next]_vars => PlaneInv' /\ Kept
<1> SUFFICES ASSUME PlaneInv, [Next]_vars PROVE PlaneInv' /\ Kept
  OBVIOUS
<1>1. StoreInv => kind # "zmq"
  BY DEF StoreInv
<1>2. ZmqInv => kind = "zmq"
  BY DEF ZmqInv, StoreIdle
<1>3. CASE kind = "zmq" /\ ZmqNext /\ UNCHANGED storeVars
  BY <1>1, <1>3, ZmqStep DEF PlaneInv
<1>4. CASE kind # "zmq" /\ StoreNext /\ UNCHANGED zmqVars
  BY <1>2, <1>4, StoreStep DEF PlaneInv
<1>5. CASE UNCHANGED vars
  <2>1. UNCHANGED <<clientVars, serviceVars, zmqVars, storeVars>>
    BY <1>5 DEF vars
  <2>2. UNCHANGED <<caller, late, got, runs, reply, kind>>
    BY <2>1 DEF clientVars, serviceVars, storeVars
  <2>3. ServiceInv' /\ Serves(None)
    BY <2>1, Untouched DEF PlaneInv, StoreInv, ZmqInv
  <2>4. StoreInv => StoreInv'
    BY <2>1, <2>2, <2>3, StoreUntouched
  <2>5. ZmqInv => ZmqInv'
    BY <2>1, <2>3, ServiceTurns
  <2> QED BY <2>2, <2>4, <2>5, NothingHappened DEF PlaneInv
<1> QED BY <1>3, <1>4, <1>5 DEF Next

\* A call is in at most one place, its reply cannot meet the next call's DEALER, and no
\* queued call outlives the thread that would fail it, whatever the transport.
THEOREM CallsAreAccounted == Spec => []CallsAccounted
<1>1. PlaneInv => CallsAccounted
  BY StoreAccounts, ZmqAccounts DEF PlaneInv
<1> QED BY <1>1, PlaneStart, PlaneStep, PTL DEF Spec

\* Every transport implements the contract of one call: each of its steps is one of
\* RpcCall's or does not touch it, so that a handler runs at most once and not for a
\* request already overdue, and a caller is answered with its own outcome.
THEOREM KeepsContract == Spec => ContractKept
<1>1. Spec => RC!Init /\ [][RC!Next]_(RC!vars)
  BY PlaneStart, PlaneStep, PTL DEF Spec, Kept
<1> QED BY <1>1 DEF ContractKept, RC!Spec

-----------------------------------------------------------------------------
(* The strategy's download pump.                                           *)

Slicing(j) == pump.at \in {"slice", "write"} /\ pump.job = j

\* How far a job is: in the slice under way, or as its key says.
Reached(j) == IF Slicing(j) THEN pump.done ELSE saved[j]

\* The pump holds a job only between the pop and the end of its slice; from
\* before the slice until after the write the pointer names it as well, and in
\* the middle of the pop the pointer names nothing.
PumpHolds ==
  /\ pump.at \in {"out", "pop"} => pump.job = NoJob
  /\ pump.at \in {"pop", "popped"} => current = NoJob
  /\ pump.at \in {"popped", "slice", "write", "clear"} => pump.job # NoJob
  /\ pump.at \in {"slice", "write", "clear"} => current = pump.job
  /\ pump.at = "clear" => status[pump.job] \notin Active

\* What is queued, pointed at or held was submitted.
KnownOnly ==
  /\ \A i \in 1..Len(queue) : client[queue[i]] # "new"
  /\ current # NoJob => client[current] # "new"
  /\ pump.job # NoJob => client[pump.job] # "new"

\* Every symbol before the point a job has reached was downloaded, and again
\* only after a fault; from there on only slices that a fault ended got to it.
Progress ==
  /\ \A j \in Jobs : \A i \in 1..Total :
       IF i <= Reached(j) THEN calls[j][i] >= 1 /\ calls[j][i] <= 1 + faults
       ELSE calls[j][i] <= faults
  /\ \A j \in Jobs : Slicing(j) => saved[j] <= pump.done
  /\ pump.at = "write" /\ pump.goal = "done" => pump.done = Total
  /\ \A j \in Jobs : status[j] = "done" => saved[j] = Total

PumpInv == PumpTypeOK /\ PumpHolds /\ KnownOnly /\ Progress /\ JobsAccounted

LEMMA PumpBegins == PumpInit => PumpInv
<1>. SUFFICES ASSUME PumpInit PROVE PumpInv
  OBVIOUS
<1>1. PumpTypeOK
  <2>1. <<>> \in Seq(Jobs)
    BY EmptySeq
  <2>. QED BY <2>1, PumpAssumption DEF PumpInit, PumpTypeOK, NotPumping, Active, Ended, NoJob
<1>2. PumpHolds
  BY DEF PumpInit, PumpHolds, NotPumping, NoJob
<1>3. KnownOnly
  <2>1. Len(<<>>) = 0
    BY EmptySeq
  <2>2. 1..0 = {}
    OBVIOUS
  <2>. QED BY <2>1, <2>2 DEF PumpInit, KnownOnly, NotPumping, NoJob
<1>4. Progress
  <2>1. \A j \in Jobs : Reached(j) = 0 /\ ~Slicing(j)
    BY DEF PumpInit, Reached, Slicing, NotPumping
  <2>. QED BY <2>1 DEF PumpInit, Progress, NotPumping
<1>5. JobsAccounted
  <2>1. Orphans = {}
    BY DEF PumpInit, Orphans
  <2>. QED BY <2>1, FS_EmptySet DEF PumpInit, JobsAccounted
<1>. QED BY <1>1, <1>2, <1>3, <1>4, <1>5 DEF PumpInv

\* A fault may cost one job; nothing else makes an orphan.
LEMMA OrphansCounted ==
  ASSUME PumpTypeOK, PumpTypeOK', JobsAccounted,
         \/ Orphans' \subseteq Orphans /\ faults' \in {faults, faults + 1}
         \/ faults' = faults + 1 /\ Orphans' \subseteq Orphans \cup {pump.job}
  PROVE  JobsAccounted'
<1>1. IsFiniteSet(Jobs)
  <2>1. PICK first \in Int : first = 1
    OBVIOUS
  <2>2. IsFiniteSet(first..MaxJobs)
    BY PumpAssumption, FS_Interval
  <2>. QED BY <2>1, <2>2, Zenon DEF Jobs
<1>2. IsFiniteSet(Orphans) /\ IsFiniteSet(Orphans')
  BY <1>1, FS_Subset DEF Orphans
<1>3. PICK before, after : before = Orphans /\ after = Orphans'
  OBVIOUS
<1>4. /\ IsFiniteSet(before) /\ IsFiniteSet(after)
      /\ Cardinality(before) \in Nat /\ Cardinality(after) \in Nat
  BY <1>2, <1>3, FS_CardinalityType
<1>5. Cardinality(before) <= faults
  BY <1>3 DEF JobsAccounted
<1>6. CASE Orphans' \subseteq Orphans /\ faults' \in {faults, faults + 1}
  <2>1. Cardinality(after) <= Cardinality(before)
    BY <1>3, <1>4, <1>6, FS_Subset
  <2>2. Cardinality(after) <= faults'
    BY <1>4, <1>5, <1>6, <2>1 DEF PumpTypeOK
  <2>. QED BY <1>3, <2>2 DEF JobsAccounted
<1>7. CASE faults' = faults + 1 /\ Orphans' \subseteq Orphans \cup {pump.job}
  <2>1. /\ IsFiniteSet(before \cup {pump.job})
        /\ Cardinality(before \cup {pump.job}) \in {Cardinality(before), Cardinality(before) + 1}
    BY <1>4, FS_AddElement
  <2>2. Cardinality(after) <= Cardinality(before \cup {pump.job})
    BY <1>3, <1>7, <2>1, FS_Subset
  <2>3. Cardinality(after) <= faults'
    BY <1>4, <1>5, <1>7, <2>1, <2>2 DEF PumpTypeOK
  <2>. QED BY <1>3, <2>3 DEF JobsAccounted
<1>. QED BY <1>6, <1>7

LEMMA QueueHead ==
  ASSUME NEW S, NEW q \in Seq(S), q # <<>>
  PROVE  /\ Head(q) \in S /\ Tail(q) \in Seq(S) /\ Len(q) >= 1 /\ Head(q) = q[1]
         /\ Len(Tail(q)) = Len(q) - 1 /\ \A i \in 1..Len(Tail(q)) : Tail(q)[i] = q[i + 1]
<1>1. Len(q) \in Nat /\ Len(q) # 0
  BY EmptySeq
<1>. QED BY <1>1, HeadTailProperties

\* What the client side does leaves the pump alone.
LEMMA ClientHolds ==
  ASSUME PumpInv, ClientStep
  PROVE  PumpInv'
<1>. USE DEF PumpInv
<1>1. UNCHANGED <<saved, current, pump, calls>>
  BY DEF ClientStep, Submit, SubmitFails, JobKeyExpires
<1>2. PICK j \in Jobs : Submit(j) \/ SubmitFails(j) \/ JobKeyExpires(j)
  BY DEF ClientStep
<1>3. faults' \in {faults, faults + 1} /\ faults' \in 0..MaxFaults
  BY <1>2, PumpAssumption DEF Submit, SubmitFails, JobKeyExpires, PumpTypeOK
<1>4. \/ /\ client[j] = "new" /\ status' = [status EXCEPT ![j] = "pending"]
         /\ \/ client' = [client EXCEPT ![j] = "waiting"] /\ queue' = Append(queue, j)
            \/ client' = [client EXCEPT ![j] = "refused"] /\ queue' = queue
      \/ client' = client /\ queue' = queue /\ status' = [status EXCEPT ![j] = "none"]
  BY <1>2 DEF Submit, SubmitFails, JobKeyExpires
<1>5. Append(queue, j) \in Seq(Jobs) /\ Len(Append(queue, j)) = Len(queue) + 1 /\ Len(queue) \in Nat
  BY AppendProperties, LenProperties DEF PumpTypeOK
<1>6. /\ \A i \in 1..Len(queue) : Append(queue, j)[i] = queue[i]
      /\ Append(queue, j)[Len(queue) + 1] = j
  BY AppendProperties DEF PumpTypeOK
<1>7. DOMAIN queue = 1..Len(queue) /\ DOMAIN Append(queue, j) = 1..(Len(queue) + 1)
  BY <1>5, LenProperties DEF PumpTypeOK
<1>8. PumpTypeOK'
  BY <1>1, <1>3, <1>4, <1>5 DEF PumpTypeOK, Active, Ended
<1>9. KnownOnly'
  <2>1. \A k \in Jobs : client[k] # "new" => client'[k] # "new"
    BY <1>4 DEF PumpTypeOK
  <2>2. client[j] = "new" => client'[j] # "new" \/ client' = client
    BY <1>4 DEF PumpTypeOK
  <2>3. \A i \in 1..Len(queue) : queue[i] \in Jobs
    BY LenProperties DEF PumpTypeOK
  <2>4. \A i \in 1..Len(queue') : client'[queue'[i]] # "new"
    <3>1. CASE queue' = queue
      BY <2>1, <2>3, <3>1 DEF KnownOnly
    <3>2. CASE queue' = Append(queue, j) /\ client' = [client EXCEPT ![j] = "waiting"]
      <4>1. \A i \in 1..Len(queue') : i \in 1..Len(queue) \/ i = Len(queue) + 1
        BY <1>5, <3>2
      <4>2. client'[j] = "waiting"
        BY <3>2 DEF PumpTypeOK
      <4>. QED BY <1>5, <1>6, <2>1, <2>3, <3>2, <4>1, <4>2 DEF KnownOnly
    <3>. QED BY <1>4, <3>1, <3>2
  <2>. QED BY <1>1, <2>1, <2>4 DEF KnownOnly, PumpTypeOK, NoJob
<1>10. \A k \in Jobs : k # j => status'[k] = status[k] /\ client'[k] = client[k]
  BY <1>4 DEF PumpTypeOK
<1>11. PumpHolds'
  <2>1. pump.at = "clear" => status'[pump.job] \notin Active
    <3>1. pump.at = "clear" => pump.job \in Jobs /\ client[pump.job] # "new"
      BY DEF PumpHolds, KnownOnly, PumpTypeOK
    <3>2. client[j] = "new" \/ status'[j] = "none"
      BY <1>4 DEF PumpTypeOK
    <3>. QED BY <1>10, <3>1, <3>2 DEF PumpHolds, Active
  <2>. QED BY <1>1, <2>1 DEF PumpHolds
<1>12. Progress'
  <2>1. \A k \in Jobs : Reached(k)' = Reached(k) /\ (Slicing(k)' <=> Slicing(k))
    BY <1>1 DEF Reached, Slicing
  <2>2. \A k \in Jobs : status'[k] = "done" => status[k] = "done"
    BY <1>4 DEF PumpTypeOK
  <2>3. \A k \in Jobs : \A i \in 1..Total : calls[k][i] \in Nat
    BY DEF PumpTypeOK
  <2>4. faults \in Nat /\ faults' \in Nat /\ faults <= faults'
    BY <1>3 DEF PumpTypeOK
  <2>5. \A k \in Jobs : \A i \in 1..Total :
          IF i <= Reached(k) THEN calls[k][i] >= 1 /\ calls[k][i] <= 1 + faults'
          ELSE calls[k][i] <= faults'
    BY <2>3, <2>4 DEF Progress
  <2>. QED BY <1>1, <2>1, <2>2, <2>5 DEF Progress
<1>13. Orphans' \subseteq Orphans
  <2>1. SUFFICES ASSUME NEW k \in Jobs, client'[k] = "waiting", status'[k] \in Active, ~InReach(k)'
                 PROVE  client[k] = "waiting" /\ status[k] \in Active /\ ~InReach(k)
    BY DEF Orphans
  <2>2. ~InReach(k)
    <3>1. \A i \in DOMAIN queue : i \in DOMAIN queue' /\ queue'[i] = queue[i]
      BY <1>4, <1>5, <1>6, <1>7
    <3>. QED BY <1>1, <2>1, <3>1 DEF InReach
  <2>3. k # j
    <3>1. SUFFICES ASSUME k = j PROVE FALSE
      OBVIOUS
    <3>2. queue' = Append(queue, j)
      BY <1>4, <2>1, <3>1 DEF PumpTypeOK, Active
    <3>3. Len(queue) + 1 \in DOMAIN queue' /\ queue'[Len(queue) + 1] = j
      BY <1>5, <1>6, <1>7, <3>2
    <3>. QED BY <2>1, <3>1, <3>3 DEF InReach
  <2>. QED BY <1>10, <2>1, <2>2, <2>3
<1>. QED BY <1>3, <1>8, <1>9, <1>11, <1>12, <1>13, OrphansCounted

\* A step in which nothing is downloaded and every job has reached no less and
\* no more than its key says.
LEMMA ProgressKept ==
  ASSUME PumpTypeOK, Progress, UNCHANGED <<saved, calls>>, faults' = faults,
         \A j \in Jobs : status'[j] = "done" => status[j] = "done",
         \A j \in Jobs : Reached(j)' = Reached(j) /\ (Slicing(j)' => saved[j] <= pump'.done),
         pump'.at = "write" /\ pump'.goal = "done" => pump'.done = Total
  PROVE  Progress'
BY DEF Progress

LEMMA LookHolds ==
  ASSUME PumpInv, LookAtCurrent
  PROVE  PumpInv'
<1>. USE DEF PumpInv
<1>1. /\ pump.at = "out" /\ UNCHANGED <<status, saved, queue, client, calls, faults>>
      /\ pump.job = NoJob /\ ~(pump.at \in {"slice", "write"})
  BY DEF LookAtCurrent, PumpHolds
<1>2. CASE current # NoJob /\ status[current] \in Active
  <2>1. pump' = Hold(current) /\ current' = current /\ current \in Jobs
    BY <1>2 DEF LookAtCurrent, PumpTypeOK
  <2>2. pump'.at = "slice" /\ pump'.job = current /\ pump'.done = saved[current] /\ pump'.goal = "running"
    BY <2>1 DEF Hold
  <2>3. PumpTypeOK'
    <3>1. Hold(current) \in [at : {"out", "pop", "popped", "slice", "write", "clear"},
                 job : Jobs \cup {NoJob}, done : 0..Total, n : 0..Step, goal : {"running"} \cup Ended]
      BY <2>1, PumpAssumption DEF Hold, PumpTypeOK
    <3>. QED BY <1>1, <2>1, <3>1 DEF PumpTypeOK
  <2>4. PumpHolds' /\ KnownOnly'
    BY <1>1, <1>2, <2>1, <2>2 DEF PumpHolds, KnownOnly, NoJob
  <2>5. Progress'
    <3>1. \A j \in Jobs : Reached(j)' = Reached(j) /\ (Slicing(j)' => saved[j] <= pump'.done)
      BY <1>1, <2>1, <2>2 DEF Reached, Slicing, PumpTypeOK
    <3>. QED BY <1>1, <2>2, <3>1, ProgressKept
  <2>6. Orphans' \subseteq Orphans
    BY <1>1, <2>1 DEF Orphans, InReach
  <2>. QED BY <1>1, <2>3, <2>4, <2>5, <2>6, OrphansCounted
<1>3. CASE ~(current # NoJob /\ status[current] \in Active)
  <2>1. pump' = [pump EXCEPT !.at = "pop"] /\ current' = NoJob
    BY <1>3 DEF LookAtCurrent
  <2>2. pump'.at = "pop" /\ pump'.job = NoJob
    BY <1>1, <2>1 DEF PumpTypeOK
  <2>3. PumpTypeOK'
    BY <1>1, <2>1 DEF PumpTypeOK
  <2>4. PumpHolds' /\ KnownOnly'
    BY <1>1, <2>1, <2>2 DEF PumpHolds, KnownOnly
  <2>5. Progress'
    <3>1. \A j \in Jobs : Reached(j)' = Reached(j) /\ ~Slicing(j)'
      BY <1>1, <2>2 DEF Reached, Slicing
    <3>. QED BY <1>1, <2>2, <3>1, ProgressKept
  <2>6. Orphans' \subseteq Orphans
    <3>1. \A j \in Jobs : status[j] \in Active /\ InReach(j) => InReach(j)'
      BY <1>1, <1>3, <2>1 DEF InReach, NoJob, Jobs
    <3>. QED BY <1>1, <3>1 DEF Orphans
  <2>. QED BY <1>1, <2>3, <2>4, <2>5, <2>6, OrphansCounted
<1>. QED BY <1>2, <1>3

LEMMA PopHolds ==
  ASSUME PumpInv, PopJob
  PROVE  PumpInv'
<1>. USE DEF PumpInv
<1>1. /\ pump.at = "pop" /\ UNCHANGED <<status, saved, current, client, calls, faults>>
      /\ pump.job = NoJob /\ current = NoJob /\ queue \in Seq(Jobs)
  BY DEF PopJob, PumpHolds, PumpTypeOK
<1>2. CASE queue = <<>>
  <2>1. pump' = NotPumping /\ queue' = queue
    BY <1>2 DEF PopJob, Leaves
  <2>2. pump'.at = "out" /\ pump'.job = NoJob
    BY <2>1 DEF NotPumping
  <2>3. PumpTypeOK'
    <3>1. NotPumping \in [at : {"out", "pop", "popped", "slice", "write", "clear"},
                 job : Jobs \cup {NoJob}, done : 0..Total, n : 0..Step, goal : {"running"} \cup Ended]
      BY PumpAssumption DEF NotPumping
    <3>. QED BY <1>1, <2>1, <3>1 DEF PumpTypeOK
  <2>4. PumpHolds' /\ KnownOnly'
    BY <1>1, <2>1, <2>2 DEF PumpHolds, KnownOnly
  <2>5. Progress'
    <3>1. \A j \in Jobs : Reached(j)' = Reached(j) /\ ~Slicing(j)'
      BY <1>1, <2>2 DEF Reached, Slicing
    <3>. QED BY <1>1, <2>2, <3>1, ProgressKept
  <2>6. Orphans' \subseteq Orphans
    BY <1>1, <2>1, <2>2 DEF Orphans, InReach, NoJob, Jobs
  <2>. QED BY <1>1, <2>3, <2>4, <2>5, <2>6, OrphansCounted
<1>3. CASE queue # <<>>
  <2>1. /\ Head(queue) \in Jobs /\ Tail(queue) \in Seq(Jobs) /\ Len(queue) \in Nat /\ Len(queue) >= 1
        /\ Head(queue) = queue[1] /\ Len(Tail(queue)) = Len(queue) - 1
        /\ \A i \in 1..Len(Tail(queue)) : Tail(queue)[i] = queue[i + 1]
    BY <1>1, <1>3, QueueHead, LenProperties
  <2>2. DOMAIN queue = 1..Len(queue) /\ DOMAIN Tail(queue) = 1..(Len(queue) - 1)
    BY <1>1, <2>1, LenProperties
  <2>3. /\ queue' = Tail(queue)
        /\ pump' = IF status[Head(queue)] \in Active
                   THEN [pump EXCEPT !.at = "popped", !.job = Head(queue)] ELSE pump
    BY <1>3 DEF PopJob
  <2>4. \A i \in DOMAIN queue : i = 1 \/ (i - 1 \in DOMAIN queue' /\ queue'[i - 1] = queue[i])
    BY <2>1, <2>2, <2>3
  <2>5. \A i \in 1..Len(queue') : client[queue'[i]] # "new"
    BY <2>1, <2>3 DEF KnownOnly
  <2>6. client[Head(queue)] # "new"
    BY <2>1 DEF KnownOnly
  <2>7. CASE status[Head(queue)] \in Active
    <3>1. /\ pump'.at = "popped" /\ pump'.job = Head(queue) /\ pump'.done = pump.done
          /\ pump' = [pump EXCEPT !.at = "popped", !.job = Head(queue)]
      BY <2>3, <2>7 DEF PumpTypeOK
    <3>2. PumpTypeOK'
      BY <1>1, <2>1, <2>3, <3>1 DEF PumpTypeOK
    <3>3. PumpHolds'
      BY <1>1, <2>1, <3>1 DEF PumpHolds, NoJob, Jobs
    <3>4. KnownOnly'
      BY <1>1, <2>5, <2>6, <3>1 DEF KnownOnly
    <3>5. Progress'
      <4>1. \A j \in Jobs : Reached(j)' = Reached(j) /\ ~Slicing(j)'
        BY <1>1, <3>1 DEF Reached, Slicing
      <4>. QED BY <1>1, <3>1, <4>1, ProgressKept
    <3>6. Orphans' \subseteq Orphans
      <4>1. \A j \in Jobs : InReach(j) => InReach(j)'
        BY <1>1, <2>1, <2>4, <3>1 DEF InReach, NoJob, Jobs
      <4>. QED BY <1>1, <4>1 DEF Orphans
    <3>. QED BY <1>1, <3>2, <3>3, <3>4, <3>5, <3>6, OrphansCounted
  <2>8. CASE status[Head(queue)] \notin Active
    <3>1. pump' = pump
      BY <2>3, <2>8
    <3>2. PumpTypeOK'
      BY <1>1, <2>1, <2>3, <3>1 DEF PumpTypeOK
    <3>3. PumpHolds' /\ KnownOnly'
      BY <1>1, <2>5, <3>1 DEF PumpHolds, KnownOnly
    <3>4. Progress'
      <4>1. \A j \in Jobs : Reached(j)' = Reached(j) /\ ~Slicing(j)'
        BY <1>1, <3>1 DEF Reached, Slicing
      <4>. QED BY <1>1, <3>1, <4>1, ProgressKept
    <3>5. Orphans' \subseteq Orphans
      <4>1. \A j \in Jobs : status[j] \in Active /\ InReach(j) => InReach(j)'
        BY <1>1, <2>1, <2>4, <2>8, <3>1 DEF InReach
      <4>. QED BY <1>1, <4>1 DEF Orphans
    <3>. QED BY <1>1, <3>2, <3>3, <3>4, <3>5, OrphansCounted
  <2>. QED BY <2>7, <2>8
<1>. QED BY <1>2, <1>3

LEMMA PointHolds ==
  ASSUME PumpInv, PointAtJob
  PROVE  PumpInv'
<1>. USE DEF PumpInv
<1>1. /\ pump.at = "popped" /\ UNCHANGED <<status, saved, queue, client, calls, faults>>
      /\ pump.job \in Jobs /\ current = NoJob /\ current' = pump.job /\ pump' = Hold(pump.job)
  BY DEF PointAtJob, PumpHolds, PumpTypeOK
<1>2. pump'.at = "slice" /\ pump'.job = pump.job /\ pump'.done = saved[pump.job] /\ pump'.goal = "running"
  BY <1>1 DEF Hold
<1>3. PumpTypeOK'
  <2>1. Hold(pump.job) \in [at : {"out", "pop", "popped", "slice", "write", "clear"},
               job : Jobs \cup {NoJob}, done : 0..Total, n : 0..Step, goal : {"running"} \cup Ended]
    BY <1>1, PumpAssumption DEF Hold, PumpTypeOK
  <2>. QED BY <1>1, <2>1 DEF PumpTypeOK
<1>4. PumpHolds' /\ KnownOnly'
  BY <1>1, <1>2 DEF PumpHolds, KnownOnly, NoJob, Jobs
<1>5. Progress'
  <2>1. \A j \in Jobs : Reached(j)' = Reached(j) /\ (Slicing(j)' => saved[j] <= pump'.done)
    BY <1>1, <1>2 DEF Reached, Slicing, PumpTypeOK
  <2>. QED BY <1>1, <1>2, <2>1, ProgressKept
<1>6. Orphans' \subseteq Orphans
  <2>1. \A j \in Jobs : InReach(j) => InReach(j)'
    BY <1>1, <1>2 DEF InReach, NoJob, Jobs
  <2>. QED BY <1>1, <2>1 DEF Orphans
<1>. QED BY <1>1, <1>3, <1>4, <1>5, <1>6, OrphansCounted

LEMMA DownloadHolds ==
  ASSUME PumpInv, DownloadSymbol
  PROVE  PumpInv'
<1>. USE DEF PumpInv
<1>1. /\ pump.at = "slice" /\ UNCHANGED <<status, saved, queue, current, client, faults>>
      /\ pump.done < Total /\ pump.n < Step /\ pump.job \in Jobs /\ current = pump.job
      /\ calls' = [calls EXCEPT ![pump.job][pump.done + 1] = @ + 1]
      /\ pump' = [pump EXCEPT !.done = @ + 1, !.n = @ + 1]
      /\ pump.done \in Nat /\ pump.n \in Nat
  BY DEF DownloadSymbol, PumpHolds, PumpTypeOK
<1>2. /\ pump'.at = "slice" /\ pump'.job = pump.job /\ pump'.done = pump.done + 1
      /\ pump'.n = pump.n + 1 /\ pump'.goal = pump.goal
  BY <1>1 DEF PumpTypeOK
<1>3. pump.done + 1 \in 1..Total /\ pump.n + 1 \in 0..Step
  BY <1>1, PumpAssumption
<1>4. \A j \in Jobs : \A i \in 1..Total :
        calls'[j][i] = IF j = pump.job /\ i = pump.done + 1 THEN calls[j][i] + 1 ELSE calls[j][i]
  BY <1>1, <1>3 DEF PumpTypeOK
<1>5. PumpTypeOK'
  <2>1. calls' \in [Jobs -> [1..Total -> Nat]]
    <3>0. PICK row \in [1..Total -> Nat], at \in 1..Total : row = calls[pump.job] /\ at = pump.done + 1
      BY <1>1, <1>3 DEF PumpTypeOK
    <3>1. [row EXCEPT ![at] = @ + 1] \in [1..Total -> Nat]
      OBVIOUS
    <3>2. calls' = [calls EXCEPT ![pump.job] = [row EXCEPT ![at] = @ + 1]]
      BY <1>1, <3>0
    <3>. QED BY <3>1, <3>2 DEF PumpTypeOK
  <2>2. pump.done + 1 \in 0..Total
    BY <1>3
  <2>3. pump' \in [at : {"out", "pop", "popped", "slice", "write", "clear"},
               job : Jobs \cup {NoJob}, done : 0..Total, n : 0..Step, goal : {"running"} \cup Ended]
    BY <1>1, <1>3, <2>2 DEF PumpTypeOK
  <2>. QED BY <1>1, <2>1, <2>3 DEF PumpTypeOK
<1>6. PumpHolds' /\ KnownOnly'
  BY <1>1, <1>2 DEF PumpHolds, KnownOnly
<1>7. Progress'
  <2>1. \A j \in Jobs : (Slicing(j)' <=> j = pump.job) /\ (Slicing(j) <=> j = pump.job)
    BY <1>1, <1>2 DEF Slicing
  <2>2. \A j \in Jobs : Reached(j)' = IF j = pump.job THEN pump.done + 1 ELSE saved[j]
    BY <1>1, <1>2, <2>1 DEF Reached
  <2>3. \A j \in Jobs : Reached(j) = IF j = pump.job THEN pump.done ELSE saved[j]
    BY <2>1 DEF Reached
  <2>4. faults \in Nat /\ \A j \in Jobs : saved[j] \in Nat /\ \A i \in 1..Total : calls[j][i] \in Nat
    BY PumpAssumption DEF PumpTypeOK
  <2>5. ASSUME NEW j \in Jobs, NEW i \in 1..Total
        PROVE  IF i <= Reached(j)' THEN calls'[j][i] >= 1 /\ calls'[j][i] <= 1 + faults
               ELSE calls'[j][i] <= faults
    <3>1. IF i <= Reached(j) THEN calls[j][i] >= 1 /\ calls[j][i] <= 1 + faults
          ELSE calls[j][i] <= faults
      BY DEF Progress
    <3>2. CASE j = pump.job
      BY <1>1, <1>4, <2>2, <2>3, <2>4, <3>1, <3>2
    <3>3. CASE j # pump.job
      BY <1>4, <2>2, <2>3, <3>1, <3>3
    <3>. QED BY <3>2, <3>3
  <2>6. \A j \in Jobs : Slicing(j)' => saved[j] <= pump'.done
    BY <1>1, <1>2, <2>1, <2>4 DEF Progress
  <2>. QED BY <1>1, <1>2, <2>5, <2>6 DEF Progress
<1>8. Orphans' \subseteq Orphans
  BY <1>1, <1>2 DEF Orphans, InReach
<1>. QED BY <1>1, <1>5, <1>6, <1>7, <1>8, OrphansCounted

\* The slice is over, well or badly.
LEMMA SliceHolds ==
  ASSUME PumpInv, SymbolFails \/ SliceEnds
  PROVE  PumpInv'
<1>. USE DEF PumpInv
<1>1. PICK g \in {"running", "done", "failed"} :
        /\ pump.at = "slice" /\ UNCHANGED <<status, saved, queue, current, client, calls, faults>>
        /\ pump' = [pump EXCEPT !.at = "write", !.goal = g]
        /\ g = "done" => pump.done >= Total
  BY DEF SymbolFails, SliceEnds
<1>2. pump'.at = "write" /\ pump'.job = pump.job /\ pump'.done = pump.done /\ pump'.goal = g
  BY <1>1 DEF PumpTypeOK
<1>3. PumpTypeOK'
  BY <1>1 DEF PumpTypeOK, Ended
<1>4. PumpHolds' /\ KnownOnly'
  BY <1>1, <1>2 DEF PumpHolds, KnownOnly
<1>5. Progress'
  <2>1. \A j \in Jobs : Reached(j)' = Reached(j) /\ (Slicing(j)' => saved[j] <= pump'.done)
    BY <1>1, <1>2 DEF Reached, Slicing, Progress
  <2>2. g = "done" => pump.done = Total
    BY <1>1, PumpAssumption DEF PumpTypeOK
  <2>. QED BY <1>1, <1>2, <2>1, <2>2, ProgressKept
<1>6. Orphans' \subseteq Orphans
  BY <1>1, <1>2 DEF Orphans, InReach
<1>. QED BY <1>1, <1>3, <1>4, <1>5, <1>6, OrphansCounted

LEMMA WriteHolds ==
  ASSUME PumpInv, WriteStatus
  PROVE  PumpInv'
<1>. USE DEF PumpInv
<1>1. /\ pump.at = "write" /\ UNCHANGED <<queue, current, client, calls, faults>>
      /\ pump.job \in Jobs /\ current = pump.job
      /\ status' = [status EXCEPT ![pump.job] = pump.goal]
      /\ saved' = [saved EXCEPT ![pump.job] = pump.done]
      /\ IF pump.goal \in Ended THEN pump' = [pump EXCEPT !.at = "clear"] ELSE pump' = NotPumping
  BY DEF WriteStatus, Leaves, PumpHolds, PumpTypeOK
<1>2. /\ status'[pump.job] = pump.goal /\ saved'[pump.job] = pump.done
      /\ \A j \in Jobs : j # pump.job => status'[j] = status[j] /\ saved'[j] = saved[j]
  BY <1>1 DEF PumpTypeOK
<1>3. \/ pump.goal \in Ended /\ pump'.at = "clear" /\ pump'.job = pump.job
      \/ pump.goal \notin Ended /\ pump'.at = "out" /\ pump'.job = NoJob
  BY <1>1 DEF PumpTypeOK, NotPumping
<1>4. PumpTypeOK'
  <2>1. NotPumping \in [at : {"out", "pop", "popped", "slice", "write", "clear"},
               job : Jobs \cup {NoJob}, done : 0..Total, n : 0..Step, goal : {"running"} \cup Ended]
    BY PumpAssumption DEF NotPumping
  <2>2. pump' \in [at : {"out", "pop", "popped", "slice", "write", "clear"},
               job : Jobs \cup {NoJob}, done : 0..Total, n : 0..Step, goal : {"running"} \cup Ended]
    BY <1>1, <2>1, ZenonT(30) DEF PumpTypeOK
  <2>3. /\ status' \in [Jobs -> {"none"} \cup Active \cup Ended]
        /\ saved' \in [Jobs -> 0..Total]
    BY <1>1 DEF PumpTypeOK, Active
  <2>. QED BY <1>1, <2>2, <2>3 DEF PumpTypeOK
<1>5. PumpHolds' /\ KnownOnly'
  BY <1>1, <1>2, <1>3 DEF PumpHolds, KnownOnly, Ended, Active, NoJob
<1>6. Progress'
  <2>1. \A j \in Jobs : ~Slicing(j)' /\ (Slicing(j) <=> j = pump.job)
    BY <1>1, <1>3 DEF Slicing
  <2>2. \A j \in Jobs : Reached(j)' = Reached(j)
    BY <1>2, <2>1 DEF Reached
  <2>3. \A j \in Jobs : status'[j] = "done" => saved'[j] = Total
    BY <1>1, <1>2 DEF Progress
  <2>. QED BY <1>1, <1>3, <2>1, <2>2, <2>3 DEF Progress
<1>7. Orphans' \subseteq Orphans
  <2>1. \A j \in Jobs : InReach(j) => InReach(j)'
    BY <1>1 DEF InReach
  <2>2. \A j \in Jobs : ~InReach(j)' => j # pump.job
    BY <1>1 DEF InReach
  <2>. QED BY <1>1, <1>2, <2>1, <2>2 DEF Orphans
<1>. QED BY <1>1, <1>4, <1>5, <1>6, <1>7, OrphansCounted

LEMMA ClearHolds ==
  ASSUME PumpInv, ClearPointer
  PROVE  PumpInv'
<1>. USE DEF PumpInv
<1>1. /\ pump.at = "clear" /\ UNCHANGED <<status, saved, queue, client, calls, faults>>
      /\ pump.job \in Jobs /\ current = pump.job /\ status[pump.job] \notin Active
      /\ current' = NoJob /\ pump' = NotPumping
  BY DEF ClearPointer, Leaves, PumpHolds, PumpTypeOK
<1>2. pump'.at = "out" /\ pump'.job = NoJob
  BY <1>1 DEF NotPumping
<1>3. PumpTypeOK'
  <2>1. NotPumping \in [at : {"out", "pop", "popped", "slice", "write", "clear"},
               job : Jobs \cup {NoJob}, done : 0..Total, n : 0..Step, goal : {"running"} \cup Ended]
    BY PumpAssumption DEF NotPumping
  <2>. QED BY <1>1, <2>1 DEF PumpTypeOK
<1>4. PumpHolds' /\ KnownOnly'
  BY <1>1, <1>2 DEF PumpHolds, KnownOnly
<1>5. Progress'
  <2>1. \A j \in Jobs : Reached(j)' = Reached(j) /\ ~Slicing(j)'
    BY <1>1, <1>2 DEF Reached, Slicing
  <2>. QED BY <1>1, <1>2, <2>1, ProgressKept
<1>6. Orphans' \subseteq Orphans
  <2>1. \A j \in Jobs : status[j] \in Active /\ InReach(j) => InReach(j)'
    BY <1>1 DEF InReach
  <2>. QED BY <1>1, <2>1 DEF Orphans
<1>. QED BY <1>1, <1>3, <1>4, <1>5, <1>6, OrphansCounted

\* A fault costs the slice under way, and a job that was popped and not yet
\* pointed at.
LEMMA AbortHolds ==
  ASSUME PumpInv, PumpAborted
  PROVE  PumpInv'
<1>. USE DEF PumpInv
<1>1. /\ UNCHANGED <<status, saved, queue, current, client, calls>> /\ pump' = NotPumping
      /\ faults' = faults + 1 /\ faults' \in 0..MaxFaults /\ faults \in Nat
  BY PumpAssumption DEF PumpAborted, Leaves, PumpTypeOK
<1>2. pump'.at = "out" /\ pump'.job = NoJob
  BY <1>1 DEF NotPumping
<1>3. PumpTypeOK'
  <2>1. NotPumping \in [at : {"out", "pop", "popped", "slice", "write", "clear"},
               job : Jobs \cup {NoJob}, done : 0..Total, n : 0..Step, goal : {"running"} \cup Ended]
    BY PumpAssumption DEF NotPumping
  <2>. QED BY <1>1, <2>1 DEF PumpTypeOK
<1>4. PumpHolds' /\ KnownOnly'
  BY <1>1, <1>2 DEF PumpHolds, KnownOnly
<1>5. Progress'
  <2>1. \A j \in Jobs : Reached(j)' = saved[j] /\ ~Slicing(j)'
    BY <1>1, <1>2 DEF Reached, Slicing
  <2>2. ASSUME NEW j \in Jobs, NEW i \in 1..Total
        PROVE  IF i <= saved[j] THEN calls[j][i] >= 1 /\ calls[j][i] <= 1 + faults'
               ELSE calls[j][i] <= faults'
    <3>1. IF i <= Reached(j) THEN calls[j][i] >= 1 /\ calls[j][i] <= 1 + faults
          ELSE calls[j][i] <= faults
      BY DEF Progress
    <3>2. saved[j] \in Nat /\ pump.done \in Nat /\ calls[j][i] \in Nat
      BY PumpAssumption DEF PumpTypeOK
    <3>3. Reached(j) \in Nat /\ saved[j] <= Reached(j)
      BY <3>2 DEF Reached, Progress
    <3>. QED BY <1>1, <3>1, <3>2, <3>3
  <2>. QED BY <1>1, <1>2, <2>1, <2>2 DEF Progress
<1>6. Orphans' \subseteq Orphans \cup {pump.job}
  BY <1>1 DEF Orphans, InReach
<1>. QED BY <1>1, <1>3, <1>4, <1>5, <1>6, OrphansCounted

\* A fault somewhere else on the strategy thread costs the pump nothing.
LEMMA FaultHolds ==
  ASSUME PumpInv, RedisFault, UNCHANGED pump, PumpButFaults
  PROVE  PumpInv'
<1>. USE DEF PumpInv
<1>1. /\ UNCHANGED <<status, saved, queue, current, client, calls, pump>>
      /\ faults' = faults + 1 /\ faults' \in 0..MaxFaults /\ faults \in Nat
  BY PumpAssumption DEF RedisFault, PumpButFaults, PumpTypeOK
<1>2. PumpTypeOK' /\ PumpHolds' /\ KnownOnly'
  BY <1>1 DEF PumpTypeOK, PumpHolds, KnownOnly
<1>3. Progress'
  <2>1. \A j \in Jobs : Reached(j)' = Reached(j) /\ (Slicing(j)' <=> Slicing(j))
    BY <1>1 DEF Reached, Slicing
  <2>2. \A j \in Jobs : \A i \in 1..Total : calls[j][i] \in Nat
    BY DEF PumpTypeOK
  <2>3. \A j \in Jobs : \A i \in 1..Total :
          IF i <= Reached(j) THEN calls[j][i] >= 1 /\ calls[j][i] <= 1 + faults'
          ELSE calls[j][i] <= faults'
    BY <1>1, <2>2 DEF Progress
  <2>. QED BY <1>1, <2>1, <2>3 DEF Progress
<1>4. Orphans' \subseteq Orphans
  BY <1>1 DEF Orphans, InReach
<1>. QED BY <1>1, <1>2, <1>3, <1>4, OrphansCounted

LEMMA PumpStays == ASSUME PumpInv, UNCHANGED pumpVars PROVE PumpInv'
<1>1. UNCHANGED <<status, saved, queue, current, client, pump, calls, faults>>
  BY DEF pumpVars
<1>2. Orphans' = Orphans
  BY <1>1 DEF Orphans, InReach
<1>3. Progress'
  BY <1>1 DEF Progress, Reached, Slicing, PumpInv
<1>. QED BY <1>1, <1>2, <1>3 DEF PumpInv, PumpTypeOK, PumpHolds, KnownOnly, JobsAccounted

\* Every step of the strategy is one of the pump's, leaves the pump alone, or is
\* a fault.
LEMMA TickKeepsPump == PumpInv /\ [TickNext]_tickVars => PumpInv'
<1>. SUFFICES ASSUME PumpInv, [TickNext]_tickVars PROVE PumpInv'
  OBVIOUS
<1>1. CASE PumpIdle
  BY <1>1, PumpStays DEF PumpIdle
<1>2. CASE RedisFault /\ UNCHANGED pump /\ PumpButFaults
  BY <1>2, FaultHolds
<1>3. CASE LookAtCurrent
  BY <1>3, LookHolds
<1>4. CASE PumpStep
  BY <1>4, PopHolds, PointHolds, DownloadHolds, SliceHolds, WriteHolds, ClearHolds, AbortHolds
    DEF PumpStep
<1>5. CASE PumpAborted
  BY <1>5, AbortHolds
<1>6. CASE ClientStep
  BY <1>6, ClientHolds
<1>7. Load \/ InitStrategy \/ BeginTick \/ BeginRound \/ RunRound \/ TickApp => PumpIdle
  BY DEF Load, InitStrategy, BeginTick, BeginRound, RunRound, TickApp
<1>8. AbandonRound => PumpIdle \/ (RedisFault /\ UNCHANGED pump /\ PumpButFaults)
  BY DEF AbandonRound, RoundRaises
<1>9. InitRaises \/ DrainRaises => RedisFault /\ UNCHANGED pump /\ PumpButFaults
  BY DEF InitRaises, DrainRaises
<1>10. (BeginDownload => LookAtCurrent) /\ (RunDownload => PumpStep) /\ (Stop => PumpAborted)
  BY DEF BeginDownload, RunDownload, Stop
<1>11. Clients => ClientStep \/ PumpIdle
  BY DEF Clients, PumpIdle
<1>12. UNCHANGED tickVars => PumpIdle
  BY DEF tickVars, PumpIdle
<1>. QED BY <1>1, <1>2, <1>3, <1>4, <1>5, <1>6, <1>7, <1>8, <1>9, <1>10, <1>11, <1>12
      DEF TickNext, Strategy

\* However many jobs, symbols and faults: each fault costs at most the one job it
\* hits, a job that is done had every symbol downloaded, and none was downloaded
\* more often than a slice was interrupted (download_jobs.py, strategy.py).
THEOREM NoJobIsLost == TickSpec => []PumpAccounts
<1>1. TickInit => PumpInv
  BY PumpBegins DEF TickInit
<1>2. PumpInv => PumpAccounts
  <2>1. SUFFICES ASSUME PumpInv PROVE DoneIsDownloaded
    BY DEF PumpAccounts, PumpInv
  <2>2. ASSUME NEW j \in Jobs, NEW i \in 1..Total
        PROVE  calls[j][i] <= 1 + faults /\ (status[j] = "done" => calls[j][i] >= 1)
    <3>1. IF i <= Reached(j) THEN calls[j][i] >= 1 /\ calls[j][i] <= 1 + faults
          ELSE calls[j][i] <= faults
      BY <2>1 DEF PumpInv, Progress
    <3>2. faults \in Nat /\ calls[j][i] \in Nat /\ saved[j] \in Nat /\ pump.done \in Nat
      BY <2>1, PumpAssumption DEF PumpInv, PumpTypeOK
    <3>3. status[j] = "done" => i <= Reached(j)
      <4>1. saved[j] <= Reached(j) /\ Reached(j) \in Nat
        BY <2>1, <3>2 DEF PumpInv, Progress, Reached
      <4>2. status[j] = "done" => saved[j] = Total
        BY <2>1 DEF PumpInv, Progress
      <4>. QED BY <3>2, <4>1, <4>2
    <3>. QED BY <3>1, <3>2, <3>3
  <2>. QED BY <2>2 DEF DoneIsDownloaded
<1>. QED BY <1>1, <1>2, TickKeepsPump, PTL DEF TickSpec

=============================================================================
