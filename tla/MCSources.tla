----------------------------- MODULE MCSources ------------------------------
(* A small instance of Sources for TLC.  Either the journal is read or the   *)
(* two others are: they share nothing but the bus.                           *)
EXTENDS Sources

SomeConfigs == {{"ssh", "sudo", "systemd", "custom"}, {"docker", "network"}}

Denied(ip) == [NoLine EXCEPT !.ident = "sshd", !.kind = "denied", !.about = ip]

SomeLines ==
  {Denied("ip1"), Denied("ip2"), Denied("ip3"),
   \* the two lines of a unit that fails at its start, one with the unit's name
   [NoLine EXCEPT !.ident = "systemd", !.subject = "web", !.kind = "failed", !.about = "Web", !.detail = "result"],
   [NoLine EXCEPT !.ident = "systemd", !.kind = "failed", !.about = "web"],
   [NoLine EXCEPT !.ident = "kernel"],
   \* a custom service that logs a message of its own
   [NoLine EXCEPT !.unit = "web", !.kind = "sudo", !.matches = {"READY"}]}

WatchList == <<{"web"}>>
CustomServices == <<[name |-> "web", events |-> <<"READY">>]>>

ContainerPatterns == <<{"db"}>>
Containers == {[type |-> "container", action |-> "die", name |-> "db"],
               [type |-> "container", action |-> "die", name |-> "job"],
               [type |-> "image", action |-> "pull", name |-> "db"]}
Links == {[type |-> "NEWLINK", operstate |-> 6, name |-> "eth0"],
          [type |-> "NEWLINK", operstate |-> 2, name |-> "eth0"],
          [type |-> "DELLINK", operstate |-> 2, name |-> "eth0"]}
=============================================================================
