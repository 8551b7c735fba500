----------------------------- MODULE StrategyTick -----------------------------
(***************************************************************************)
(* The strategy inside Big QMT (bigqmt_signal_trader_strategy.py).  QMT    *)
(* calls it on one thread: the script is loaded, init() builds the service, *)
(* and every tick (adjust) drains RPC requests, refreshes the full-tick    *)
(* snapshots, pumps one slice of the download jobs and ticks the           *)
(* application.  Redis clients act between any two steps.                  *)
(*                                                                         *)
(* The work of the phases is in FullTickCache and DownloadPump; the drain's *)
(* is RpcService's and appears here as its possible exception.             *)
(***************************************************************************)
EXTENDS DownloadPump, FullTickCache

VARIABLES
  host,   \* where the strategy thread stands
  svc,    \* the module's _rpc_service
  plan    \* refresh rounds this tick still has to run

hostVars == <<host, svc, plan>>
tickVars == <<pumpVars, cacheVars, hostVars>>

TickInit ==
  /\ PumpInit /\ CacheInit
  /\ host = "down" /\ svc = "none" /\ plan = {}

RedisFault == faults < MaxFaults /\ faults' = faults + 1
PumpIdle == UNCHANGED pumpVars
PumpButFaults == UNCHANGED <<status, saved, queue, current, client, calls>>

-----------------------------------------------------------------------------
(* Loading and init.                                                       *)

\* The entry script is executed: reset_app stops and forgets the service and
\* the throttles of an earlier load of the module.
Load ==
  /\ host = "down" /\ host' = "loaded"
  /\ svc' = "none"
  /\ due' = Kinds /\ pulled' = {}
  /\ PumpIdle /\ UNCHANGED <<demand, recent, cache, round, plan>>

\* _start_rpc_service: a service that is already there is returned as it is.
StartedService == IF svc = "none" THEN "started" ELSE svc

InitStrategy ==
  /\ host = "loaded" /\ host' = "idle"
  /\ svc' = StartedService
  /\ PumpIdle /\ UNCHANGED <<cacheVars, plan>>

\* start() raises out of init, after the service became the module's.
InitRaises ==
  /\ host = "loaded" /\ host' = "down"
  /\ svc = "none" /\ svc' \in {"none", "unstarted"}
  /\ RedisFault /\ UNCHANGED <<pump, cacheVars, plan>> /\ PumpButFaults

-----------------------------------------------------------------------------
(* One tick.                                                               *)

\* The drain succeeds, and _refresh_full_tick_cache decides once which rounds
\* are due.
BeginTick ==
  /\ host = "idle" /\ host' = "rounds"
  /\ plan' = due
  /\ PumpIdle /\ UNCHANGED <<cacheVars, svc>>

\* An exception of the drain leaves adjust.
DrainRaises ==
  /\ host = "idle"
  /\ RedisFault /\ UNCHANGED <<pump, cacheVars, hostVars>> /\ PumpButFaults

NextKind == IF "symbol" \in plan THEN "symbol" ELSE "market"

\* The timestamp of a kind advances before its round.
BeginRound ==
  /\ host = "rounds" /\ round.at = "out" /\ plan # {}
  /\ round' = [NoRound EXCEPT !.kind = NextKind, !.at = "read"]
  /\ plan' = plan \ {NextKind}
  /\ due' = due \ {NextKind}
  /\ pulled' = pulled \cup {NextKind}
  /\ PumpIdle /\ UNCHANGED <<demand, recent, cache, host, svc>>

RunRound ==
  /\ host = "rounds"
  /\ ReadDemands \/ Refresh \/ RoundEnds \/ \E d \in Demands : SweepDemand(d)
  /\ PumpIdle /\ UNCHANGED hostVars

\* Symbol rounds may fail without limit, market rounds are among the faults.
RoundRaises ==
  /\ host = "rounds" /\ RoundFails
  /\ IF round.kind = "symbol" THEN PumpIdle
     ELSE RedisFault /\ UNCHANGED pump /\ PumpButFaults

\* Mutant: one try around both rounds.
AbandonRounds == RoundRaises /\ plan' = {} /\ UNCHANGED <<host, svc>>

\* Each round has its own try.
AbandonRound == RoundRaises /\ UNCHANGED hostVars

BeginDownload ==
  /\ host = "rounds" /\ round.at = "out" /\ plan = {}
  /\ host' = "download"
  /\ LookAtCurrent
  /\ UNCHANGED <<cacheVars, svc, plan>>

RunDownload ==
  /\ host = "download" /\ PumpStep
  /\ UNCHANGED <<cacheVars, hostVars>>

\* tick_app catches what the application raises (and is skipped before the
\* last bar); its work is SignalTrading's.
TickApp ==
  /\ host = "download" /\ pump.at = "out"
  /\ host' = "idle"
  /\ PumpIdle /\ UNCHANGED <<cacheVars, svc, plan>>

\* The process dies, or the user stops the strategy between two ticks and the
\* module stays loaded.
Stop ==
  /\ host # "down" /\ host' = "down"
  /\ PumpAborted
  /\ svc' \in IF host = "idle" THEN {"none", svc} ELSE {"none"}
  /\ plan' = {} /\ round' = NoRound
  /\ UNCHANGED <<demand, recent, cache, due, pulled>>

Strategy ==
  \/ Load \/ InitStrategy \/ BeginTick \/ BeginRound
  \/ RunRound \/ AbandonRound \/ BeginDownload \/ RunDownload \/ TickApp

Clients ==
  \/ ClientStep /\ UNCHANGED <<cacheVars, hostVars>>
  \/ CacheClientStep /\ UNCHANGED <<pumpVars, hostVars>>

TickNext == Strategy \/ InitRaises \/ DrainRaises \/ Stop \/ Clients

\* The strategy thread is scheduled, and the clock runs.
TickSpec == /\ TickInit /\ [][TickNext]_tickVars
            /\ WF_tickVars(Strategy)
            /\ WF_tickVars(IntervalPasses("market") /\ UNCHANGED <<pumpVars, hostVars>>)

-----------------------------------------------------------------------------
TickTypeOK ==
  /\ PumpTypeOK /\ CacheTypeOK
  /\ host \in {"down", "loaded", "idle", "rounds", "download"}
  /\ svc \in {"none", "unstarted", "started"}
  /\ plan \subseteq Kinds

(* A whole-market demand that its reader keeps alive is served, however    *)
(* often symbol rounds fail ("a symbol-refresh error must not starve the   *)
(* market refresh").                                                       *)
MarketServed ==
  \A d \in Markets : demand[d] = "live" ~> (Answer(d) = "data" \/ demand[d] # "live")

(* A job the client was told is queued ends, unless its key expired or the *)
(* fault between LPOP and SET orphaned it.                                 *)
JobsEnd ==
  \A j \in Jobs : client[j] = "waiting" ~>
                    (status[j] \notin Active \/ j \in Orphans)

=============================================================================
