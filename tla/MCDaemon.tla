------------------------------ MODULE MCDaemon ------------------------------
(* A small instance of Daemon for TLC: health checks of two services, with a *)
(* cooldown on HEALTH_DOWN, and the journal with one unit.                   *)
EXTENDS Daemon

Cooldowns == [DOWN |-> 1]

Down(s, cause) == [source |-> s, type |-> "DOWN", text |-> cause]

Seen == {Down("redis", 1), Down("redis", 2), Down("web", 1)} \union
        {[source |-> "systemd", type |-> t, text |-> 1] : t \in {"FAILED", "STARTED"}}
=============================================================================
