----------------------------- MODULE Components -----------------------------
(***************************************************************************)
(* The parts of the bridge and of the strategy that share no state with the*)
(* rest of the models: the three fan-outs of the bridge's event loop, sector*)
(* downloads, the write gate, cancels and batches, the runtime's clients,  *)
(* the history probe, telemetry, short minute windows, execution events and*)
(* the installer.  No action of one reads or writes a variable of another, *)
(* so each behaviour exercises one of them.                                *)
(***************************************************************************)
EXTENDS TradeEvents, QuoteHubs, SectorDownload, WriteGate, OrderCancel, HistoryProbe,
        Telemetry, MinuteSubscriptions, ExecPublish, RuntimeInstall, OrderBatch, RuntimeClients

VARIABLE part   \* the part this behaviour is about

vars == <<part, tradeVars, hubVars, sectorVars, gateVars, cancelVars, probeVars, teleVars,
          minuteVars, execVars, installVars, batchVars, clientVars>>

Parts == {"trade", "whole", "realtime", "sector", "gate", "cancel", "probe", "telemetry",
          "minute", "exec", "install", "batch", "clients"}

\* A part that does not run starts in one of its initial states.
Init ==
  /\ part \in Parts
  /\ TradeInit /\ HubInit /\ SectorInit /\ ProbeInit /\ TeleInit /\ ExecInit
  /\ GateInit /\ CancelInit /\ MinuteInit /\ InstallInit
  /\ BatchInit /\ ClientsInit
  /\ part # "gate" => terminal.mode = "trading" /\ terminal.allow
  /\ part # "cancel" => order = "live" /\ wanted = [c \in Cancels |-> "single"]
  /\ part # "minute" => stored = {}
  /\ part # "install" => disk["package"] = 0

Next ==
  \/ /\ part = "trade" /\ TradeNext
     /\ UNCHANGED <<part, hubVars, sectorVars, gateVars, cancelVars, probeVars,
                    teleVars, minuteVars, execVars, installVars, batchVars, clientVars>>
  \/ /\ part = "whole" /\ WholeNext
     /\ UNCHANGED <<part, tradeVars, sectorVars, gateVars, cancelVars, probeVars,
                    teleVars, minuteVars, execVars, installVars, batchVars, clientVars>>
  \/ /\ part = "realtime" /\ RealNext
     /\ UNCHANGED <<part, tradeVars, sectorVars, gateVars, cancelVars, probeVars,
                    teleVars, minuteVars, execVars, installVars, batchVars, clientVars>>
  \/ /\ part = "sector" /\ SectorNext
     /\ UNCHANGED <<part, tradeVars, hubVars, gateVars, cancelVars, probeVars,
                    teleVars, minuteVars, execVars, installVars, batchVars, clientVars>>
  \/ /\ part = "gate" /\ GateNext
     /\ UNCHANGED <<part, tradeVars, hubVars, sectorVars, cancelVars, probeVars,
                    teleVars, minuteVars, execVars, installVars, batchVars, clientVars>>
  \/ /\ part = "cancel" /\ CancelNext
     /\ UNCHANGED <<part, tradeVars, hubVars, sectorVars, gateVars, probeVars,
                    teleVars, minuteVars, execVars, installVars, batchVars, clientVars>>
  \/ /\ part = "probe" /\ ProbeNext
     /\ UNCHANGED <<part, tradeVars, hubVars, sectorVars, gateVars, cancelVars,
                    teleVars, minuteVars, execVars, installVars, batchVars, clientVars>>
  \/ /\ part = "telemetry" /\ TeleNext
     /\ UNCHANGED <<part, tradeVars, hubVars, sectorVars, gateVars, cancelVars,
                    probeVars, minuteVars, execVars, installVars, batchVars, clientVars>>
  \/ /\ part = "minute" /\ MinuteNext
     /\ UNCHANGED <<part, tradeVars, hubVars, sectorVars, gateVars, cancelVars,
                    probeVars, teleVars, execVars, installVars, batchVars, clientVars>>
  \/ /\ part = "exec" /\ ExecNext
     /\ UNCHANGED <<part, tradeVars, hubVars, sectorVars, gateVars, cancelVars,
                    probeVars, teleVars, minuteVars, installVars, batchVars, clientVars>>
  \/ /\ part = "install" /\ InstallNext
     /\ UNCHANGED <<part, tradeVars, hubVars, sectorVars, gateVars, cancelVars,
                    probeVars, teleVars, minuteVars, execVars, batchVars, clientVars>>
  \/ /\ part = "batch" /\ BatchNext
     /\ UNCHANGED <<part, tradeVars, hubVars, sectorVars, gateVars, cancelVars,
                    probeVars, teleVars, minuteVars, execVars, installVars, clientVars>>
  \/ /\ part = "clients" /\ ClientsNext
     /\ UNCHANGED <<part, tradeVars, hubVars, sectorVars, gateVars, cancelVars,
                    probeVars, teleVars, minuteVars, execVars, installVars, batchVars>>

Spec == Init /\ [][Next]_vars

\* Batches differ in their items alone.
Symmetry == Permutations(Batches)

=============================================================================
