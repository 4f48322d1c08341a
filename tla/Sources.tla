------------------------------ MODULE Sources -------------------------------
(***************************************************************************)
(* The goroutines of internal/source: the reader of the journal with its   *)
(* parsers, the reader of Docker's events, which connects again when the   *)
(* stream breaks, and the reader of netlink.  The configuration says which *)
(* are started (cmdRun).  Publish may wait for room in the bus, so it is a *)
(* step of its own; what is behind the bus is in module Daemon.            *)
(*                                                                         *)
(* Time is a clock in seconds.  The parsers read it when they get a line,  *)
(* not when the line was logged.                                           *)
(***************************************************************************)
EXTENDS Parsers

CONSTANTS Configs,        \* sets of sources, and of parsers, that may be started
          Lines,          \* lines the journal may have
          DockerEvents, LinkMessages,
          MaxLines, MaxTime   \* bounds

VARIABLES
  started,      \* the sources and parsers that run
  now, cancelled,
  journal,      \* lines written and not yet read
  written,      \* how many were written
  jpc, line, todo, jevent,        \* the journal reader: its line, parsers left, event
  tracker, lastFailure,           \* the memory of the parsers
  dockerUp, dpc, devent,          \* Docker, and the reader of its events
  net,                            \* the reader of netlink reads; its last message and event
  \* History, read by the properties only:
  attempts,     \* the failed logins the ssh parser has seen
  alerted       \* when each unit was last reported as failed

jVars == <<journal, written, jpc, line, todo, jevent, tracker, lastFailure, attempts, alerted>>
dVars == <<dockerUp, dpc, devent>>
vars == <<started, now, cancelled, jVars, dVars, net>>

NoLine == [ident |-> "", unit |-> "", subject |-> "", kind |-> "none",
           about |-> "", detail |-> "", matches |-> {}]
NoMessage == [type |-> "none", operstate |-> 0, name |-> ""]

\* The parsers in the order in which cmdRun registers them.
Registered == SelectSeq(<<"ssh", "sudo", "systemd", "custom">>, LAMBDA p : p \in started)

Init ==
  /\ started \in Configs
  /\ now = 0 /\ cancelled = FALSE
  /\ journal = <<>> /\ written = 0
  /\ jpc = IF Registered = <<>> THEN "ended" ELSE "reading"
  /\ line = NoLine /\ todo = <<>> /\ jevent = NoEvent
  /\ tracker = NewTracker /\ lastFailure = [u \in {} |-> 0]
  /\ dockerUp \in IF "docker" \in started THEN BOOLEAN ELSE {FALSE}
  /\ dpc = IF "docker" \in started THEN "connecting" ELSE "stopped"
  /\ devent = NoEvent
  /\ net \in [reading : IF "network" \in started THEN BOOLEAN ELSE {FALSE},
              msg : {NoMessage}, event : {NoEvent}]
  /\ attempts = <<>> /\ alerted = [u \in {} |-> 0]
-----------------------------------------------------------------------------
(* The journal. *)

Write ==
  /\ jpc # "ended" /\ journal = <<>> /\ written < MaxLines
  /\ \E l \in Lines : journal' = <<l>>
  /\ written' = written + 1
  /\ UNCHANGED <<started, now, cancelled, jpc, line, todo, jevent, tracker, lastFailure,
                 attempts, alerted, dVars, net>>

\* The next line; one of no parser's concern is skipped.
ReadLine ==
  /\ jpc = "reading" /\ journal # <<>>
  /\ journal' = Tail(journal)
  /\ IF isRelevant(Head(journal))
     THEN jpc' = "parsing" /\ line' = Head(journal) /\ todo' = Registered
     ELSE UNCHANGED <<jpc, line, todo>>
  /\ UNCHANGED <<started, now, cancelled, written, jevent, tracker, lastFailure,
                 attempts, alerted, dVars, net>>

\* The next parser gets the line.
Parse ==
  LET p == Head(todo)
      denied == p = "ssh" /\ FromSshd(line) /\ line.kind = "denied"
      tracked == IF denied THEN Track(tracker, line.about, now) ELSE tracker
      e == CASE p = "ssh"     -> ParseSSH(line, tracked)
             [] p = "sudo"    -> ParseSudo(line)
             [] p = "systemd" -> ParseSystemd(line, lastFailure, now)
             [] p = "custom"  -> ParseCustom(line)
      failed == p = "systemd" /\ e # NoEvent /\ line.kind = "failed"
  IN /\ jpc = "parsing" /\ todo # <<>>
     /\ todo' = Tail(todo)
     /\ tracker' = tracked
     /\ lastFailure' = IF failed THEN markFailed(lastFailure, Subject(line), now) ELSE lastFailure
     /\ jevent' = e
     /\ jpc' = IF e = NoEvent THEN "parsing" ELSE "publishing"
     /\ attempts' = IF denied THEN Append(attempts, [ip |-> line.about, at |-> now]) ELSE attempts
     /\ alerted' = IF failed THEN [u \in DOMAIN alerted \union {Subject(line)} |->
                                     IF u = Subject(line) THEN now ELSE alerted[u]]
                   ELSE alerted
     /\ UNCHANGED <<started, now, cancelled, journal, written, line, dVars, net>>

PublishJournal ==
  /\ jpc = "publishing"
  /\ jpc' = "parsing" /\ jevent' = NoEvent
  /\ UNCHANGED <<started, now, cancelled, journal, written, line, todo, tracker, lastFailure,
                 attempts, alerted, dVars, net>>

\* The context is looked at after the parsers only.
LineDone ==
  /\ jpc = "parsing" /\ todo = <<>>
  /\ jpc' = IF cancelled THEN "ended" ELSE "reading"
  /\ line' = NoLine
  /\ UNCHANGED <<started, now, cancelled, journal, written, todo, jevent, tracker, lastFailure,
                 attempts, alerted, dVars, net>>

\* journalctl ends, killed by the context or by itself, or a line is longer
\* than the buffer.  Nothing starts the reader again.
JournalEnds ==
  /\ jpc = "reading"
  /\ jpc' = "ended" /\ journal' = <<>>
  /\ UNCHANGED <<started, now, cancelled, written, line, todo, jevent, tracker, lastFailure,
                 attempts, alerted, dVars, net>>
-----------------------------------------------------------------------------
(* Docker. *)

Docker(newPc, e) ==
  /\ dpc' = newPc /\ devent' = e
  /\ UNCHANGED <<started, now, cancelled, jVars, dockerUp, net>>

DockerConnect == dpc = "connecting" /\ Docker(IF dockerUp THEN "streaming" ELSE "waiting", NoEvent)

\* An event of the stream.  Events while the reader is not connected are lost.
DockerDecode ==
  /\ dpc = "streaming" /\ dockerUp
  /\ \E raw \in DockerEvents :
       LET e == parseEvent(raw) IN
       IF e = NoEvent THEN Docker(IF cancelled THEN "stopped" ELSE "streaming", NoEvent)
       ELSE Docker("publishing", e)

DockerPublish ==
  dpc = "publishing" /\ Docker(IF cancelled THEN "stopped" ELSE "streaming", NoEvent)

\* The stream breaks when Docker goes away, or for no such reason.
DockerBroken == dpc = "streaming" /\ Docker("waiting", NoEvent)

\* Mutated: a broken stream ends the reader.
DockerGivesUp == dpc = "waiting" /\ Docker("stopped", NoEvent)

\* Five seconds later, or at once when the context is cancelled.
DockerRetry ==
  /\ dpc = "waiting"
  /\ \/ Docker("connecting", NoEvent)
     \/ cancelled /\ Docker("stopped", NoEvent)

DockerChange ==
  /\ "docker" \in started
  /\ dockerUp' = ~dockerUp
  /\ UNCHANGED <<started, now, cancelled, jVars, dpc, devent, net>>

DockerStep == DockerConnect \/ DockerPublish \/ DockerRetry \/ (~dockerUp /\ DockerBroken)
-----------------------------------------------------------------------------
\* A link message is received, and its event published.  The context is looked
\* at between two reads only, and a read may yield several messages.  (Without
\* a socket there is no reader from the start.)
NetworkReceive ==
  /\ net.reading
  /\ \E msg \in LinkMessages, more \in IF cancelled THEN BOOLEAN ELSE {TRUE} :
       net' = [reading |-> more, msg |-> msg, event |-> parseLink(msg)]
  /\ UNCHANGED <<started, now, cancelled, jVars, dVars>>

Tick ==
  /\ now < MaxTime /\ now' = now + 1
  /\ UNCHANGED <<started, cancelled, jVars, dVars, net>>

Cancel ==
  /\ ~cancelled /\ cancelled' = TRUE
  /\ UNCHANGED <<started, now, jVars, dVars, net>>

Next ==
  \/ Write \/ ReadLine \/ Parse \/ PublishJournal \/ LineDone \/ JournalEnds
  \/ DockerConnect \/ DockerDecode \/ DockerPublish \/ DockerBroken \/ DockerRetry \/ DockerChange
  \/ NetworkReceive \/ Tick \/ Cancel

Spec == Init /\ [][Next]_vars

\* The reader of Docker's events goes on: a dial and a timer end, the bus has
\* room again, and the stream of a Docker that is gone ends.
FairSpec == Spec /\ WF_vars(DockerStep)
-----------------------------------------------------------------------------
\* The tracker holds the same addresses in both its parts, each once, and no
\* more than there is room for (ssh.go deletes by the one and adds to both).
TypeOK ==
  /\ jpc \in {"reading", "parsing", "publishing", "ended"}
  /\ dpc \in {"connecting", "streaming", "publishing", "waiting", "stopped"}
  /\ ToSet(tracker.keys) = DOMAIN tracker.ips
  /\ IsInjective(tracker.keys)
  /\ Len(tracker.keys) <= MaxIPs
  /\ \A ip \in DOMAIN tracker.ips : tracker.ips[ip] # <<>>
  /\ \A u \in DOMAIN lastFailure : u \in Units /\ lastFailure[u] \in 0..now

\* The failures of the last address within the window, this one included.
Recent(h) == Cardinality({i \in DOMAIN h : h[i].ip = Last(h).ip /\ h[i].at > now - Window})

Addresses(h) == {h[i].ip : i \in DOMAIN h}

\* The third failure of an address within the window raises the alarm, a
\* failure before it never does; and none is missed unless there were more
\* addresses than the tracker has room for (ssh.go, isBruteforce).
BruteforceExact ==
  [][attempts' # attempts =>
       LET alarm == jevent'.type = "SSH_BRUTEFORCE" IN
       /\ alarm => Recent(attempts') >= Threshold
       /\ Recent(attempts') >= Threshold /\ Cardinality(Addresses(attempts')) <= MaxIPs => alarm]_vars

\* A failing unit that is watched is reported for every result and every
\* failed dependency, and for a "Failed to start" exactly when it was not
\* reported within the ten seconds before: a failure that logs both lines is
\* one alert, and no lasting failure goes unreported for longer (systemd.go).
FailureReportedOnce ==
  [][jpc = "parsing" /\ todo # <<>> /\ todo' # todo /\ Head(todo) = "systemd" /\ IsFailure(line) =>
       LET u == Subject(line)
           recent == u \in DOMAIN alerted /\ now - alerted[u] < DedupWindow
       IN jevent'.type = "SERVICE_FAILED" <=> line.detail # "" \/ ~recent]_vars

\* Once Docker stays up, its reader is connected to it again and again, until
\* the daemon shuts down.
DockerReconnects ==
  "docker" \in started /\ <>[]dockerUp => <>cancelled \/ []<>(dpc \in {"streaming", "publishing"})

\* docs/decisions.md: "Network interface up/down events".  A link that goes up
\* or down is reported (operational states IF_OPER_DOWN, 2, and IF_OPER_UP, 6).
LinkChangesReported ==
  net.msg.type = "NEWLINK" /\ net.msg.operstate \in {2, 6} => net.event # NoEvent
=============================================================================
