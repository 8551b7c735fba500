------------------------------ MODULE WriteGate ------------------------------
(***************************************************************************)
(* The gate in front of every account write (trading/manager.py): it       *)
(* probes the terminal (bigqmt.py) and then reads the probe's result from  *)
(* the payload all requests share.  A probe pings the strategy, replaces   *)
(* the payload, looks up the terminal's mode in its log under the current  *)
(* request id and adds the mode to the payload; probes run concurrently.   *)
(*                                                                         *)
(* Status endpoints probe in the same way and are probers whose decision   *)
(* nobody acts on.  Log parsing is its verdict; a log that cannot be read  *)
(* or does not name the request id attests nothing, and a log that names   *)
(* it is taken to be up to date.                                           *)
(***************************************************************************)
EXTENDS Naturals, FiniteSets

CONSTANTS Probers,     \* requests that probe
          MaxSwitches  \* changes of the terminal's mode or of its permission

VARIABLES
  terminal, \* [mode, allow]: what the terminal would do with an order
  switches,
  probing,  \* where each prober is
  ponged,   \* its ping answer: allow_order_methods
  attested, \* the mode it found in the log
  payload,  \* ping_payload: [allow, mode]
  window,   \* states of the terminal since its ping was sent
  reach     \* states of the terminal since its ping was sent, and since the
            \* pings of the probes that were under way then

gateVars == <<terminal, switches, probing, ponged, attested, payload, window, reach>>

Modes == {"trading", "simulation"}

GateInit ==
  /\ terminal \in [mode : Modes, allow : BOOLEAN]
  /\ switches = 0
  /\ probing = [p \in Probers |-> "idle"]
  /\ ponged = [p \in Probers |-> FALSE]
  /\ attested = [p \in Probers |-> "unknown"]
  /\ payload = [allow |-> FALSE, mode |-> "unset"]
  /\ window = [p \in Probers |-> {}]
  /\ reach = [p \in Probers |-> {}]

MidProbe == {"pinging", "ponged", "adopted", "attested"}
InWindow(p) == probing[p] \in MidProbe \union {"deciding", "allowed"}

\* The operator switches the model to simulation or back, or restarts it
\* with another rpc_allow_order_methods.
Switch ==
  /\ switches < MaxSwitches /\ switches' = switches + 1
  /\ terminal' \in [mode : Modes, allow : BOOLEAN] \ {terminal}
  /\ LET Grown(w) == [p \in Probers |-> IF InWindow(p) THEN w[p] \union {terminal'} ELSE w[p]]
     IN window' = Grown(window) /\ reach' = Grown(reach)
  /\ UNCHANGED <<probing, ponged, attested, payload>>

Ping(p) ==
  /\ probing[p] = "idle"
  /\ probing' = [probing EXCEPT ![p] = "pinging"]
  /\ window' = [window EXCEPT ![p] = {terminal}]
  /\ reach' = [reach EXCEPT ![p] = {terminal} \union
                 UNION {window[q] : q \in {x \in Probers : probing[x] \in MidProbe}}]
  /\ UNCHANGED <<terminal, switches, ponged, attested, payload>>

\* Mutant: a failed probe is no blocker.
PingFailsOpen(p) ==
  /\ probing[p] = "pinging"
  /\ probing' = [probing EXCEPT ![p] = "deciding"]
  /\ UNCHANGED <<terminal, switches, ponged, attested, payload, window, reach>>

\* No answer, no pong, or the answer of another account: bigqmt_rpc_unavailable.
PingFails(p) ==
  /\ probing[p] = "pinging"
  /\ probing' = [probing EXCEPT ![p] = "blocked"]
  /\ UNCHANGED <<terminal, switches, ponged, attested, payload, window, reach>>

Pong(p) ==
  /\ probing[p] = "pinging"
  /\ probing' = [probing EXCEPT ![p] = "ponged"]
  /\ ponged' = [ponged EXCEPT ![p] = terminal.allow]
  /\ UNCHANGED <<terminal, switches, attested, payload, window, reach>>

\* self.ping_payload = dict(payload): the mode is not in it yet.
Adopt(p) ==
  /\ probing[p] = "ponged"
  /\ probing' = [probing EXCEPT ![p] = "adopted"]
  /\ payload' = [allow |-> ponged[p], mode |-> "unset"]
  /\ UNCHANGED <<terminal, switches, ponged, attested, window, reach>>

\* _attest_terminal_trade_mode, outside any lock.
Attest(p) ==
  /\ probing[p] = "adopted"
  /\ probing' = [probing EXCEPT ![p] = "attested"]
  /\ attested' \in {[attested EXCEPT ![p] = m] : m \in {terminal.mode, "unknown"}}
  /\ UNCHANGED <<terminal, switches, ponged, payload, window, reach>>

\* The mode goes into the payload that is there now, maybe of another probe.
RecordMode(p) ==
  /\ probing[p] = "attested"
  /\ probing' = [probing EXCEPT ![p] = "deciding"]
  /\ payload' = [payload EXCEPT !.mode = attested[p]]
  /\ UNCHANGED <<terminal, switches, ponged, attested, window, reach>>

\* write_blockers reads the payload twice.
ReadAllow(p) ==
  /\ probing[p] = "deciding"
  /\ probing' = [probing EXCEPT ![p] = IF payload.allow THEN "allowed" ELSE "blocked"]
  /\ UNCHANGED <<terminal, switches, ponged, attested, payload, window, reach>>

ReadMode(p) ==
  /\ probing[p] = "allowed"
  /\ probing' = [probing EXCEPT ![p] = IF payload.mode = "trading" THEN "passed" ELSE "blocked"]
  /\ UNCHANGED <<terminal, switches, ponged, attested, payload, window, reach>>

\* The next request of this thread.
NextProbe(p) ==
  /\ probing[p] \in {"passed", "blocked"}
  /\ probing' = [probing EXCEPT ![p] = "idle"]
  /\ ponged' = [ponged EXCEPT ![p] = FALSE]
  /\ attested' = [attested EXCEPT ![p] = "unknown"]
  /\ window' = [window EXCEPT ![p] = {}]
  /\ reach' = [reach EXCEPT ![p] = {}]
  /\ UNCHANGED <<terminal, switches, payload>>

GateNext ==
  \/ Switch
  \/ \E p \in Probers :
       \/ Ping(p) \/ PingFails(p) \/ Pong(p) \/ Adopt(p) \/ Attest(p)
       \/ RecordMode(p) \/ ReadAllow(p) \/ ReadMode(p) \/ NextProbe(p)

-----------------------------------------------------------------------------
\* A write passes the gate only on permission and trading mode that the terminal
\* had since the ping of the write's own probe, or since the ping of a probe that
\* was under way then, whose older answer may have been written over its own: of
\* what was the case before, nothing decides, however the probes interleave.
PassedWasTrading ==
  \A p \in Probers : probing[p] = "passed" =>
    /\ \E t \in reach[p] : t.mode = "trading"
    /\ \E t \in reach[p] : t.allow

\* Not so: that the write's own probe saw both.  The payload of a slower probe
\* decides in its place.
OwnProbeDecides ==
  \A p \in Probers : probing[p] = "passed" =>
    /\ \E t \in window[p] : t.mode = "trading"
    /\ \E t \in window[p] : t.allow

=============================================================================
