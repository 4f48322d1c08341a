------------------------------- MODULE Daemon -------------------------------
(***************************************************************************)
(* pidex run: the goroutines cmdRun starts (cmd/pidex/main.go), the event  *)
(* bus between them (internal/core/bus.go), the dispatcher that filters    *)
(* events and hands them to the notifier (internal/core/dispatcher.go),    *)
(* and the shutdown, in which main takes over from the dispatcher.         *)
(*                                                                         *)
(* The notifier is seen from the outside: Send takes an alert and returns  *)
(* some time later, having delivered, refused or queued it (AlertChannel,  *)
(* which QueueNotifier implements, says what becomes of it).               *)
(* Producers, the goroutines of sources, pollers and health checks, appear  *)
(* only by what they publish.                                              *)
(***************************************************************************)
EXTENDS Suppression, Sequences, FiniteSets

CONSTANTS Reports,       \* the events that sources, pollers and checks publish
          BusSize,       \* buffer of the bus, 64 in cmdRun
          MaxEvents,     \* bound on the number of events
          MaxTime        \* bound on the clock

ASSUME DaemonAssumption ==
  /\ BusSize \in Nat \ {0}
  /\ MaxEvents \in Nat
  /\ MaxTime \in Nat

\* An event is its three fields.  The source "shutdown" is main's own: it is one
\* of reservedServiceNames (setup.go), so no custom service can have it either.
ASSUME ReportsAssumption ==
  \A e \in Reports : /\ e = [source |-> e.source, type |-> e.type, text |-> e.text]
                      /\ e.source # "shutdown"

VARIABLES
  main,          \* where cmdRun is
  bus,           \* the buffered channel
  runner,        \* the two that run process: the dispatcher, and main at the end
  cooledUntil,   \* CooldownManager
  lastKeys,      \* DedupManager
  now,           \* seconds
  \* History, read by the properties only:
  published,     \* events put on the bus
  shutdownNo,    \* the number of the shutdown event among them
  log,           \* what was handed to the notifier
  suppressed,    \* events the filters stopped, by number
  lastSeen       \* the last event of each source that was filtered

filterVars  == <<cooledUntil, lastKeys>>
historyVars == <<published, shutdownNo, log, suppressed, lastSeen>>
vars == <<main, bus, runner, filterVars, now, historyVars>>

NoEvent         == [source |-> "none", type |-> "none", text |-> 0]
DaemonStart     == [source |-> "daemon", type |-> "DAEMON_START", text |-> 0]
ShutdownStarted == [source |-> "shutdown", type |-> "SHUTDOWN_STARTED", text |-> 0]

Events == Reports \union {DaemonStart, ShutdownStarted}

Nothing == [no |-> 0, event |-> NoEvent]
Runners == {"dispatcher", "main"}

\* The contexts: main cancels the one of the producers when a signal arrives,
\* and the one of the dispatcher after the grace period.
Cancelled == main \notin {"starting", "serving"}

\* Mutated: one context for all.
DispCancelledEarly == Cancelled

DispCancelled == main \in {"joining", "draining", "stopped"}

Init ==
  /\ main = "starting"
  /\ bus = <<>>
  /\ runner = [r \in Runners |-> [at |-> "idle", item |-> Nothing]]
  /\ cooledUntil = NoEntries
  /\ lastKeys = NoEntries
  /\ now = 0
  /\ published = 0
  /\ shutdownNo = 0
  /\ log = <<>>
  /\ suppressed = {}
  /\ lastSeen = NoEntries
-----------------------------------------------------------------------------
(* The bus. *)

\* Mutated: a list that grows.
PublishAlways(e) ==
  /\ published' = published + 1
  /\ bus' = Append(bus, [no |-> published + 1, event |-> e])

\* Publish blocks while the buffer is full.
Publish(e) ==
  /\ Len(bus) < BusSize
  /\ published' = published + 1
  /\ bus' = Append(bus, [no |-> published + 1, event |-> e])

\* A producer publishes what it has seen; while the bus is full it is stuck.  The
\* cancelled context does not stop it at once: it looks at its context between
\* two events, or when its system call returns.
ProducerPublish(e) ==
  /\ main # "stopped"
  /\ published < MaxEvents
  /\ Publish(e)
  /\ UNCHANGED <<main, runner, filterVars, now, shutdownNo, log, suppressed, lastSeen>>
-----------------------------------------------------------------------------
(* process, run by the dispatcher and, once it is done, by main. *)

Receive(r) ==
  /\ runner[r].at = "idle"
  /\ r = "main" => main = "draining"
  /\ bus # <<>>
  /\ runner' = [runner EXCEPT ![r] = [at |-> "received", item |-> Head(bus)]]
  /\ bus' = Tail(bus)
  /\ UNCHANGED <<main, filterVars, now, historyVars>>

\* The event in hand is stopped by a filter.
Suppress(r) ==
  LET e == runner[r].item.event IN
  /\ runner[r].at = "received"
  /\ ~IsAllowed(cooledUntil, e, now) \/ ~IsNew(lastKeys, e)
  /\ runner' = [runner EXCEPT ![r] = [at |-> "idle", item |-> Nothing]]
  /\ suppressed' = suppressed \union {runner[r].item.no}
  /\ lastSeen' = Put(lastSeen, e.source, e)
  /\ UNCHANGED <<main, bus, filterVars, now, published,
                 shutdownNo, log>>

\* The event in hand passes; Send is called.
Forward(r) ==
  LET e == runner[r].item.event IN
  /\ runner[r].at = "received"
  /\ IsAllowed(cooledUntil, e, now) /\ IsNew(lastKeys, e)
  /\ cooledUntil' = RecordCooldown(cooledUntil, e, now)
  /\ lastKeys' = RecordKey(lastKeys, e)
  /\ log' = Append(log, [no |-> runner[r].item.no, event |-> e, at |-> now])
  /\ lastSeen' = Put(lastSeen, e.source, e)
  /\ runner' = [runner EXCEPT ![r].at = "sending"]
  /\ UNCHANGED <<main, bus, now, published, shutdownNo, suppressed>>

\* Send returns; its error, if any, is only logged.
Sent(r) ==
  /\ runner[r].at = "sending"
  /\ runner' = [runner EXCEPT ![r] = [at |-> "idle", item |-> Nothing]]
  /\ UNCHANGED <<main, bus, filterVars, now, historyVars>>

\* The dispatcher sees its context cancelled, whatever the bus still holds.
DispatcherDone ==
  /\ DispCancelled
  /\ runner["dispatcher"].at = "idle"
  /\ runner' = [runner EXCEPT !["dispatcher"].at = "done"]
  /\ UNCHANGED <<main, bus, filterVars, now, historyVars>>

Process(r) == Receive(r) \/ Suppress(r) \/ Forward(r) \/ Sent(r)
-----------------------------------------------------------------------------
(* main. *)

Started ==
  /\ main = "starting"
  /\ Publish(DaemonStart)
  /\ main' = "serving"
  /\ UNCHANGED <<runner, filterVars, now, shutdownNo,
                 log, suppressed, lastSeen>>

Signal ==
  /\ main = "serving"
  /\ main' = "signalled"
  /\ UNCHANGED <<bus, runner, filterVars, now, historyVars>>

AnnounceShutdown ==
  /\ main = "signalled"
  /\ Publish(ShutdownStarted)
  /\ shutdownNo' = published + 1
  /\ main' = "grace"
  /\ UNCHANGED <<runner, filterVars, now, log, suppressed,
                 lastSeen>>

\* 200 ms later main cancels the dispatcher.
GraceEnds ==
  /\ main = "grace"
  /\ main' = "joining"
  /\ UNCHANGED <<bus, runner, filterVars, now, historyVars>>

\* Mutated: main does not wait for the dispatcher.
JoinNot ==
  /\ main = "joining"
  /\ main' = "draining"
  /\ UNCHANGED <<bus, runner, filterVars, now, historyVars>>

Join ==
  /\ main = "joining"
  /\ runner["dispatcher"].at = "done"
  /\ main' = "draining"
  /\ UNCHANGED <<bus, runner, filterVars, now, historyVars>>

\* Mutated: main leaves without DrainPending.
ExitUndrained ==
  /\ main = "draining"
  /\ runner["main"].at = "idle"
  /\ main' = "stopped"
  /\ UNCHANGED <<bus, runner, filterVars, now, historyVars>>

\* DrainPending finds the bus empty; main returns and the process ends, with
\* whatever the flusher and the producers were doing.
Exit ==
  /\ main = "draining"
  /\ runner["main"].at = "idle"
  /\ bus = <<>>
  /\ main' = "stopped"
  /\ UNCHANGED <<bus, runner, filterVars, now, historyVars>>
-----------------------------------------------------------------------------
\* Time is counted while a cooldown runs; nothing else depends on it.
Tick ==
  /\ main # "stopped" /\ now < MaxTime
  /\ \E k \in DOMAIN cooledUntil : now <= cooledUntil[k]
  /\ now' = now + 1
  /\ UNCHANGED <<main, bus, runner, filterVars, historyVars>>

RunnerStep   == main # "stopped" /\ (DispatcherDone \/ \E r \in Runners : Process(r))
MainStep     == Started \/ AnnounceShutdown \/ GraceEnds \/ Join \/ Exit

\* The process is gone.
Stopped == main = "stopped" /\ UNCHANGED vars

Next == (\E e \in Reports : ProducerPublish(e)) \/ RunnerStep \/ MainStep \/ Signal \/ Tick \/ Stopped

Spec == Init /\ [][Next]_vars

\* Goroutines that can run do, and Send returns (SendReturns of QueueNotifier).
Fairness == WF_vars(RunnerStep) /\ WF_vars(MainStep)

FairSpec == Spec /\ Fairness
-----------------------------------------------------------------------------
Item == [no : Nat, event : Events]

TypeOK ==
  /\ main \in {"starting", "serving", "signalled", "grace", "joining", "draining",
               "stopped"}
  /\ bus \in Seq(Item)
  /\ Len(bus) <= BusSize
  /\ runner \in [Runners -> [at : {"idle", "received", "sending", "done"},
                            item : Item \union {Nothing}]]
  /\ \A k \in DOMAIN cooledUntil : cooledUntil[k] \in Nat
  /\ now \in Nat
  /\ published \in Nat /\ shutdownNo \in Nat
  /\ log \in Seq([no : Nat, event : Events, at : Nat])
  /\ suppressed \subseteq Nat

\* Alerts are handed to the notifier in the order in which they were published,
\* also while main takes over from the dispatcher.
HandedInOrder ==
  \A i, j \in DOMAIN log : i < j => log[i].no < log[j].no

\* main.go: "the dispatcher keeps running until the shutdown event has been
\* delivered or queued".  At the end everything published up to the shutdown
\* event has been through the filters, the shutdown alert has been handed to
\* the notifier, and no call of Send is cut short.
ShutdownHandled ==
  main = "stopped" =>
    /\ 1..shutdownNo \subseteq suppressed \union {log[k].no : k \in DOMAIN log}
    /\ \E k \in DOMAIN log : log[k].no = shutdownNo
    /\ \A r \in Runners : runner[r].at \in {"idle", "done"}

\* An alert is suppressed only for an alert that was handed over: the same one
\* as the last of its source, or one of its source and type within the cooldown.
SuppressedForReason ==
  [][\A n \in suppressed' \ suppressed : \E r \in Runners : \E k \in DOMAIN log :
       LET e == runner[r].item.event IN
       /\ runner[r].item.no = n
       /\ log[k].event.source = e.source
       /\ \/ log[k].event.type = e.type /\ now <= log[k].at + Cooldown(e.type)
                                        /\ Cooldown(e.type) > 0
          \/ log[k].event = e
             /\ \A m \in DOMAIN log : m > k => log[m].event.source # e.source]_vars

\* Two alerts of one source and type are handed over only with more than the
\* cooldown between them.
CooldownsKept ==
  \A i, j \in DOMAIN log :
    /\ i < j
    /\ log[i].event.source = log[j].event.source
    /\ log[i].event.type = log[j].event.type
    /\ Cooldown(log[i].event.type) > 0
    => log[j].at > log[i].at + Cooldown(log[i].event.type)

\* Where no cooldown applies the receiver is up to date: the last alert of a
\* source that was handed over says what its last event said.  Deduplication
\* alone never hides a change (decisions.md, ADR-007).
LastWord ==
  \A s \in DOMAIN lastSeen :
    (\A e \in Events : e.source = s => Cooldown(e.type) = 0) =>
      \E k \in DOMAIN log :
        /\ log[k].event = lastSeen[s]
        /\ \A m \in DOMAIN log : m > k => log[m].event.source # s

\* A signal ends the process, however full the bus is and however many
\* producers are waiting to publish.
ShutdownCompletes == main = "signalled" ~> main = "stopped"
=============================================================================
