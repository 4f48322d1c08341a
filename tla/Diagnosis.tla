----------------------------- MODULE Diagnosis -----------------------------
(***************************************************************************)
(* What a probe of internal/health/check.go says of a service, and what    *)
(* the diagnosis of diagnose.go, proc.go and docker.go then adds, as       *)
(* operators on the configuration of the check and the state of the host.  *)
(*                                                                         *)
(* A configuration hc: its type, the kind of its address, and whether a    *)
(* unit, a container and an interface are given.  A host h, as far as one  *)
(* check sees it: what systemctl or Docker say of the unit or container,   *)
(* the state of the interface, who has the address, the addresses on which *)
(* /proc/net/tcp and tcp6 show a listener, what packets to it meet on      *)
(* their way, and what is answered.                                        *)
(***************************************************************************)
EXTENDS Naturals, Sequences

NetworkTypes == {"http", "tcp", "redis"}

Loopback == {"127.0.0.1", "::1"}
Own      == {"own4", "own6"}      \* an address of this host, while it has it
IPv6     == {"::1", "own6"}

\* "localhost" is a name of two addresses; "remote" an address, and "name" a
\* name, elsewhere.
HealthCheckConfig ==
  {hc \in [type : NetworkTypes \union {"systemd", "docker", "command", "interface"},
           address : {"localhost", "remote", "name"} \union Loopback \union Own,
           unit : BOOLEAN, container : BOOLEAN, interface : BOOLEAN] :
     /\ hc.type = "systemd" => hc.unit
     /\ hc.type = "docker" => hc.container
     /\ hc.type = "interface" => hc.interface}

\* Sockets that accept connections to any address; of tcp6 both kinds show as
\* "[::]", whether they accept IPv4 too or not.
Unspecified == {"0.0.0.0", "::", "::v6only"}

\* A process that is "mute" or "late" is one that systemctl or Docker give an
\* error for, or no answer in time.  A packet filter drops, refuses or rejects
\* ("unreachable", also when there is no route); a redirection, such as
\* Docker's to a container, needs no listener here.
Host ==
  [process : {"active", "starting", "failed", "mute", "late"},
   iface : {"up", "no IPv4", "down", "gone"},
   owner : {"interface", "another", "none"},
   sockets : SUBSET (Loopback \union Own \union Unspecified \union {"remote"}),
   path : {"clear", "dropped", "refused", "unreachable", "redirected", "no name"},
   reply : {"good", "wrong", "broken", "late"}]

\* The addresses a connection is tried to; an own address that is gone may be
\* another host's.
Tried(hc, h) ==
  CASE hc.address = "localhost"                    -> Loopback
    [] hc.address \in Own /\ h.owner = "none"      -> {"remote"}
    [] hc.address \in Own \union Loopback          -> {hc.address}
    [] hc.address \in {"remote", "name"}           -> {"remote"}

\* The sockets that accept a connection to an address.
Accepting(a) ==
  {a} \union (IF a = "remote" THEN {}
             ELSE IF a \in IPv6 THEN {"::", "::v6only"} ELSE {"0.0.0.0", "::"})

\* "connected", or the error of the connection.
Dial(hc, h) ==
  CASE h.path = "dropped"                           -> "timeout"
    [] h.path = "refused"                           -> "connection refused"
    [] h.path = "unreachable"                       -> "unreachable"
    [] h.path = "redirected"                        -> "connected"
    [] h.path = "no name" /\ hc.address = "name"    -> "no such host"
    [] h.path = "clear" \/ (h.path = "no name" /\ hc.address # "name") ->
         IF \E a \in Tried(hc, h) : Accepting(a) \intersect h.sockets # {}
         THEN "connected" ELSE "connection refused"

\* What a service that was reached comes to.
Answered(hc, h) ==
  CASE hc.type = "tcp" \/ h.reply = "good"     -> "healthy"
    [] hc.type # "tcp" /\ h.reply = "late"     -> "timeout"
    [] hc.type # "tcp" /\ h.reply = "broken"   -> "connection broken"
    [] hc.type = "http" /\ h.reply = "wrong"   -> "HTTP status"
    [] hc.type = "redis" /\ h.reply = "wrong"  -> "AUTH or PING failed"

CommandResult(h) ==
  CASE h.reply = "good"   -> "healthy"
    [] h.reply = "late"   -> "timeout"
    [] h.reply = "wrong"  -> "exit code"
    [] h.reply = "broken" -> "query failed"

\* A unit or container that is being started is not active yet.
ProcessState(h) ==
  CASE h.process = "active"                  -> "healthy"
    [] h.process = "late"                    -> "timeout"
    [] h.process = "mute"                    -> "query failed"
    [] h.process \in {"starting", "failed"}  -> "not active"

InterfaceState(h) ==
  CASE h.iface = "gone"    -> "interface not found"
    [] h.iface = "down"    -> "interface is down"
    [] h.iface = "no IPv4" -> "interface has no address"
    [] h.iface = "up"      -> "healthy"

\* "healthy", or the cause as describeErr words it ("unreachable" for the host,
\* the network or the address, "connection broken" for reset or closed,
\* "query failed" for a command, systemctl or Docker that gives an error).
Check(hc, h) ==
  CASE hc.type \in NetworkTypes ->
         IF Dial(hc, h) = "connected" THEN Answered(hc, h) ELSE Dial(hc, h)
    [] hc.type = "command"              -> CommandResult(h)
    [] hc.type = "interface"            -> InterfaceState(h)
    [] hc.type \in {"systemd", "docker"} -> ProcessState(h)

Causes == {"timeout", "connection refused", "unreachable", "no such host",
           "connection broken", "HTTP status", "AUTH or PING failed", "exit code",
           "query failed", "not active",
           "interface not found", "interface is down", "interface has no address"}
-----------------------------------------------------------------------------
(* Diagnose: a sequence of findings. *)

\* What a finding is about, and what it says.
Finding ==
  ({"error"} \X Causes)
  \union ({"unit", "container"} \X {"active", "starting", "failed", "query failed"})
  \union ({"interface"} \X {"up", "no IPv4", "down", "gone"})
  \union ({"address"} \X {"on another interface", "not assigned"})
  \union ({"port"} \X {"nothing is listening", "is listening", "listening elsewhere only"})
  \union ({"logs"} \X {"unit", "container"})

When(condition, finding) == IF condition THEN <<finding>> ELSE <<>>

\* systemctl and Docker are asked again, and may fail again or only now.
Queried(h) == IF h.process \in {"mute", "late"} THEN "query failed" ELSE h.process

unitFinding(h)      == <<"unit", Queried(h)>>
containerFinding(h) == <<"container", Queried(h)>>

\* The address the diagnosis looks for, if it can tell.
targetAddr(hc) ==
  IF hc.type \notin NetworkTypes \/ hc.address = "name" THEN "invalid"
  ELSE IF hc.address = "localhost" THEN "127.0.0.1" ELSE hc.address

\* On this host, or expected to be.
Local(hc, h) ==
  LET ip == targetAddr(hc) IN
  \/ ip \in Loopback
  \/ ip \in Own /\ h.owner # "none"
  \/ ip \in Own \union {"remote"} /\ hc.interface

appendAddressFindings(hc, h) ==
  LET ip == targetAddr(hc) IN
  When(hc.interface, <<"interface", h.iface>>)
  \o When(hc.interface /\ ip \in Own /\ h.owner = "another", <<"address", "on another interface">>)
  \o When(hc.interface /\ (ip = "remote" \/ (ip \in Own /\ h.owner = "none")),
          <<"address", "not assigned">>)

\* Of this host, in /proc/net/tcp and tcp6.
listeningSockets(h) == h.sockets \ {"remote"}

\* Every unspecified address matches, whichever family it is of.
listenerFinding(target, sockets) ==
  CASE sockets = {} -> "nothing is listening"
    [] ({target} \union Unspecified) \intersect sockets # {} -> "is listening"
    [] OTHER -> "listening elsewhere only"

Diagnose(hc, h, err) ==
  <<<<"error", err>>>>
  \o When(hc.unit, unitFinding(h))
  \o When(hc.container, containerFinding(h))
  \o appendAddressFindings(hc, h)
  \o When(Local(hc, h), <<"port", listenerFinding(targetAddr(hc), listeningSockets(h))>>)
  \o When(hc.unit \/ hc.container, <<"logs", IF hc.unit THEN "unit" ELSE "container">>)
-----------------------------------------------------------------------------
Says(f, topic, what) == \E i \in DOMAIN f : f[i] = <<topic, what>>

\* The service is meant to be on this host, and nothing stands between.
Here(hc, h) ==
  /\ hc.type \in NetworkTypes
  /\ hc.address \in {"localhost"} \union Loopback \union Own
  /\ hc.address \in Own => h.owner # "none"
  /\ h.path = "clear"

\* A listener on every address, but not of the family of the target.
OtherFamily(hc, h) ==
  IF targetAddr(hc) \in IPv6 THEN "0.0.0.0" \in h.sockets ELSE "::v6only" \in h.sockets

(* The findings f do not contradict the error of the probe, and explain it   *)
(* where the host can tell.  A connection to this host that was refused is   *)
(* explained by the port, unless the port is open to the other family of     *)
(* addresses; a service that did answer is not said to listen nowhere or     *)
(* elsewhere (for localhost the diagnosis looks at 127.0.0.1 only, the probe *)
(* also at ::1); a missing address is named, whatever the error; and a unit, *)
(* container or interface is in the very state the probe found.  A packet    *)
(* filter or a redirection is not looked for: then the port may say anything.*)
Explains(hc, h, f) ==
  LET err == f[1][2]
      answered == {"timeout", "connection broken", "HTTP status", "AUTH or PING failed"}
  IN  /\ Here(hc, h) /\ err = "connection refused" =>
           \/ Says(f, "port", "nothing is listening")
           \/ Says(f, "port", "listening elsewhere only")
           \/ Says(f, "port", "is listening") /\ OtherFamily(hc, h)
      /\ Here(hc, h) /\ err \in answered =>
           /\ ~ Says(f, "port", "nothing is listening")
           /\ hc.address # "localhost" => ~ Says(f, "port", "listening elsewhere only")
      /\ hc.type \in NetworkTypes /\ hc.address \in Own /\ hc.interface =>
           (h.owner = "none" <=> Says(f, "address", "not assigned"))
      /\ err = "not active" =>
           \E kind \in {"unit", "container"}, state \in {"starting", "failed"} :
             Says(f, kind, state)
      /\ err = "interface not found" => Says(f, "interface", "gone")
      /\ err = "interface is down" => Says(f, "interface", "down")
      /\ err = "interface has no address" => Says(f, "interface", "no IPv4")

=============================================================================
