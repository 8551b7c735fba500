-------------------------- MODULE MCSignalTrading --------------------------
(* Instances of SignalTrading for TLC. *)
EXTENDS SignalTrading, TLC

CONSTANTS c1, c2, s1, s2

MCConsumers == {c1, c2}
MCSignals == {s1, s2}

\* Signal s1 is pushed twice; the payload of the last entry does not parse.
MCSignalOf == <<s1, s2, s1, s2>>

\* One entry of each signal.
MCSignalOfOnce == <<s1, s2>>

\* Every signal has a remark of its own.
MCIntent == [s \in MCSignals |-> s]

MCSymmetry == Permutations(MCConsumers)

=============================================================================
