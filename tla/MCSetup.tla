------------------------------ MODULE MCSetup -------------------------------
(* A small instance of Setup for TLC: one or two keys of each kind, three    *)
(* types of health checks, and files an owner may have.                      *)
EXTENDS Setup

\* With a status that means nothing for its type.
OneCheck(name, interval) ==
  [name |-> name, type |-> "redis", text |-> [address |-> "host:port", password |-> "secret"],
   num |-> [interval |-> interval, expect_status |-> 200]]

\* config.toml.example filled in: credentials, whole numbers, a switch, and a
\* health check.
Filled == Toml([Tables EXCEPT
  !.telegram = "own", !.monitor = [ssh |-> FALSE], !.pollers = [cpu |-> Num("int", 30)],
  !.thresholds = [temp |-> Num("int", 60)], !.cooldowns = [SUDO_USED |-> Num("int", 5)],
  !.health_checks = <<OneCheck("a", 60)>>])

\* Two health checks of one name, one of them with a bad interval.
Doubled == Toml([Tables EXCEPT !.health_checks = <<OneCheck("a", 60), OneCheck("a", 4)>>])

Files == {Absent, Filled, Doubled}

Starts == {[etc |-> Absent, local |-> Absent], [etc |-> Filled, local |-> Absent],
           [etc |-> Absent, local |-> Filled]}

\* The answer that removes the override in Filled.
DefaultCooldowns == [SUDO_USED |-> 60]

\* New checks and changes of name, type and fields, good and bad.
Answers ==
  {[name |-> "a", type |-> "http", address |-> "url"],
   [name |-> "b", type |-> "systemd", unit |-> "u"],
   [type |-> "redis", address |-> "host:port", password |-> "secret"],
   [type |-> "http"],
   [interval |-> 4]}

Services ==
  ("pidex.conf" :> [name |-> "pidex", events |-> {"RUNNING"}, valid |-> TRUE]) @@
  ("new.conf"   :> [name |-> "pidex", events |-> {"RUNNING", "FAILED"}, valid |-> TRUE]) @@
  ("bad.conf"   :> [name |-> "ssh", events |-> {"LOGIN"}, valid |-> TRUE])

Globs == {<<"*">>}
=============================================================================
