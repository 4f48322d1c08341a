------------------------------ MODULE Parsers -------------------------------
(***************************************************************************)
(* The parsers of internal/parser and of the sources: what a line of the   *)
(* journal, an event of Docker or a message of netlink makes of the        *)
(* parser's memory, and the event it yields, if any.                       *)
(*                                                                         *)
(* A line is what the code reads of it: ident, for SYSLOG_IDENTIFIER and   *)
(* _COMM; unit, the service that logged it, or ""; subject, the UNIT field *)
(* systemd adds, or ""; kind, the pattern its message matches, with the    *)
(* address or unit it is about and the detail; and the custom patterns it  *)
(* matches.  Severities, titles and time stamps play no part.              *)
(***************************************************************************)
EXTENDS Integers, SequencesExt

CONSTANTS Threshold, Window, MaxIPs,   \* 3 failures in 30 seconds; 1000 addresses
          DedupWindow,                 \* 10 seconds
          Units,                       \* the units that are services
          Watch,                       \* what each pattern of the watch list matches
          ContainerWatch,              \* the same for containers
          Services                     \* custom services: name, and events in order

ASSUME ParsersAssumption ==
  /\ {Threshold, Window, MaxIPs, DedupWindow} \subseteq Nat \ {0}
  /\ \A i \in DOMAIN Watch : Watch[i] \subseteq Units

NoEvent == [source |-> "", type |-> "", about |-> "", detail |-> ""]
Event(source, type, about) == [source |-> source, type |-> type, about |-> about, detail |-> ""]
-----------------------------------------------------------------------------
(* ssh.go: the tracker is ips, the times of the failures of each address,  *)
(* and keys, the addresses in the order in which they came in.             *)

NewTracker == [ips |-> [ip \in {} |-> <<>>], keys |-> <<>>]

\* Mutated: the address that makes room stays among the keys' times.
EvictKeyOnly(t) ==
  IF Len(t.keys) < MaxIPs THEN t ELSE [t EXCEPT !.keys = Tail(@)]

\* Room for one more address.
Evict(t) ==
  IF Cardinality(DOMAIN t.ips) < MaxIPs THEN t
  ELSE [ips |-> [ip \in DOMAIN t.ips \ {t.keys[1]} |-> t.ips[ip]], keys |-> Tail(t.keys)]

\* Mutated: a failure counts for as long as its address is kept.
ActiveForever(times, now) == Append(times, now)

\* The failures within the window, one after the other, and the one of now.
Active(times, now) ==
  LET kept[i \in 0..Len(times)] ==
        IF i = 0 THEN <<>>
        ELSE IF times[i] > now - Window THEN Append(kept[i - 1], times[i]) ELSE kept[i - 1]
  IN Append(kept[Len(times)], now)

\* The tracker after a failure of ip.
Track(t, ip, now) ==
  LET room == IF ip \in DOMAIN t.ips THEN t ELSE Evict(t)
      old  == IF ip \in DOMAIN t.ips THEN t.ips[ip] ELSE <<>>
  IN [ips  |-> [k \in DOMAIN room.ips \union {ip} |->
                  IF k = ip THEN Active(old, now) ELSE room.ips[k]],
      keys |-> IF ip \in DOMAIN t.ips THEN t.keys ELSE Append(room.keys, ip)]

isBruteforce(tracker, ip) == Len(tracker.ips[ip]) >= Threshold

FromSshd(line) == line.ident \in {"sshd", "sshd-session"}

ParseSSH(line, tracker) ==
  IF ~FromSshd(line) THEN NoEvent ELSE
  CASE line.kind = "accepted" -> Event("ssh", "SSH_LOGIN", line.about)
    [] line.kind = "disconnected" -> Event("ssh", "SSH_LOGOUT", line.about)
    [] line.kind = "denied" /\ isBruteforce(tracker, line.about) ->
         Event("ssh", "SSH_BRUTEFORCE", line.about)
    [] OTHER -> NoEvent

ParseSudo(line) == IF line.ident = "sudo" /\ line.kind = "sudo"
                   THEN Event("sudo", "SUDO_USED", line.about) ELSE NoEvent
-----------------------------------------------------------------------------
(* systemd.go: lastFailure is when a unit was last reported as failed.     *)

isWatched(unit) == Watch = <<>> \/ \E i \in DOMAIN Watch : unit \in Watch[i]

\* The unit a line is about: its UNIT field, if there is one.
Subject(line) == IF line.subject # "" THEN line.subject ELSE line.about

SystemdKinds == [started |-> "SERVICE_STARTED", stopped |-> "SERVICE_STOPPED",
                 restarted |-> "SERVICE_RESTARTED", failed |-> "SERVICE_FAILED"]

\* A line logged by any service is looked at, not only those of systemd.
Considered(line) ==
  /\ line.ident = "systemd" \/ line.unit # ""
  /\ line.kind \in DOMAIN SystemdKinds
  /\ Subject(line) \in Units
  /\ isWatched(Subject(line))

recentlyFailed(lastFailure, unit, now) ==
  unit \in DOMAIN lastFailure /\ now - lastFailure[unit] < DedupWindow

\* Mutated: the line with the result is not remembered.
markFailedNot(lastFailure, unit, now) == lastFailure

markFailed(lastFailure, unit, now) ==
  LET Recent == {u \in DOMAIN lastFailure : now - lastFailure[u] < DedupWindow} IN
  [u \in Recent \union {unit} |-> IF u = unit THEN now ELSE lastFailure[u]]

\* Of a failure the line with the result counts; "Failed to start" after it is
\* the same failure.
Suppressed(line, lastFailure, now) ==
  line.detail = "" /\ recentlyFailed(lastFailure, Subject(line), now)

IsFailure(line) == Considered(line) /\ line.kind = "failed"

ParseSystemd(line, lastFailure, now) ==
  IF ~Considered(line) \/ (line.kind = "failed" /\ Suppressed(line, lastFailure, now))
  THEN NoEvent
  ELSE [Event("systemd", SystemdKinds[line.kind], Subject(line)) EXCEPT !.detail = line.detail]
-----------------------------------------------------------------------------
\* custom.go: the first service of the line's name, and its first event whose
\* pattern matches.
ParseCustom(line) ==
  LET ident == IF line.ident # "" THEN line.ident ELSE line.unit
      named == SelectSeq(Services, LAMBDA s : s.name = ident /\ s.events # <<>>)
      hits  == IF named = <<>> THEN <<>>
               ELSE SelectSeq(Head(named).events, LAMBDA e : e \in line.matches)
  IN IF hits = <<>> THEN NoEvent ELSE Event(ident, Head(hits), "")

\* journal.go: what is handed to the parsers at all.
isRelevant(line) ==
  \/ line.ident \in {"sshd", "sshd-session", "sudo", "systemd"}
  \/ \E i \in DOMAIN Services : Services[i].name = line.ident
  \/ line.unit # ""
-----------------------------------------------------------------------------
(* docker.go and network.go. *)

DockerKinds == [start |-> "CONTAINER_STARTED", stop |-> "CONTAINER_STOPPED",
                die |-> "CONTAINER_DIED", restart |-> "CONTAINER_RESTARTED"]

matchContainer(name) ==
  ContainerWatch = <<>> \/ \E i \in DOMAIN ContainerWatch : name \in ContainerWatch[i]

parseEvent(e) ==
  IF e.type = "container" /\ e.action \in DOMAIN DockerKinds /\ matchContainer(e.name)
  THEN Event("docker", DockerKinds[e.action], e.name) ELSE NoEvent

\* The state of a link is one byte, of which the code makes a string: no
\* character for zero, else the one of that code.
cString(byte) == IF byte = 0 THEN <<>> ELSE <<byte>>
UP   == <<85, 80>>
DOWN == <<68, 79, 87, 78>>

parseLink(msg) ==
  CASE msg.type = "DELLINK" -> Event("network", "INTERFACE_DOWN", msg.name)
    [] msg.type = "NEWLINK" /\ cString(msg.operstate) = UP -> Event("network", "INTERFACE_UP", msg.name)
    [] msg.type = "NEWLINK" /\ cString(msg.operstate) = DOWN -> Event("network", "INTERFACE_DOWN", msg.name)
    [] OTHER -> NoEvent
=============================================================================
