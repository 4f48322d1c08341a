--------------------------- MODULE MCHealthMonitor --------------------------
(* A small instance of HealthMonitor for TLC: two checks, one of which uses *)
(* a threshold of two, the other of one.                                    *)
EXTENDS HealthMonitor, FiniteSets

Thresholds == [redis |-> 2, web |-> 1]

\* A service on an address of an interface, and one on localhost.
ConfigOf(type, address, own) ==
  [type |-> type, address |-> address, unit |-> own, container |-> FALSE, interface |-> own]
Services == [redis |-> ConfigOf("redis", "own4", TRUE), web |-> ConfigOf("http", "localhost", FALSE)]

Reached(sockets, path, reply) ==
  [process |-> "active", iface |-> "up", owner |-> "interface",
   sockets |-> sockets, path |-> path, reply |-> reply]
States == [redis |-> {Reached({"0.0.0.0"}, "clear", "good"), Reached({"127.0.0.1"}, "clear", "good")},
           web   |-> {Reached({"::1"}, "clear", "good"), Reached({"own6"}, "clear", "good")}]

\* For every configuration, with at most two listeners on an undisturbed host or
\* none on any host: the diagnosis of a failed probe, made while the host is as
\* the probe found it, explains it.
ASSUME EveryFailureExplained ==
  \A hc \in HealthCheckConfig,
     h \in {g \in Host : IF g.process = "active" /\ g.iface = "up"
                         THEN Cardinality(g.sockets) <= 2 ELSE g.sockets = {}} :
    Check(hc, h) # "healthy" => /\ Check(hc, h) \in Causes
                                /\ Explains(hc, h, Diagnose(hc, h, Check(hc, h)))

Cooldowns == [SSH_BRUTEFORCE |-> 300]
=============================================================================
