------------------------------ MODULE MCPoller ------------------------------
(* Small instances of Poller for TLC. *)
EXTENDS Poller

\* The poll interval of the temperature is a tenth of its cooldown (30 s and
\* 300 s); here it is a third.
Cooldowns == [TEMP_WARN |-> 3, TEMP_CRITICAL |-> 3, CPU_HIGH |-> 3]

EverySecond == [p \in Pollers |-> 1]
=============================================================================
