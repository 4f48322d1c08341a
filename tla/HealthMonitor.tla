--------------------------- MODULE HealthMonitor ---------------------------
(***************************************************************************)
(* The health checks of internal/health/monitor.go, one goroutine for each *)
(* check, and what of their alerts gets past the bus and the filters of    *)
(* the dispatcher.  A goroutine probes, feeds the result to its tracker,   *)
(* diagnoses and publishes when the tracker says so, and sleeps.           *)
(*                                                                         *)
(* What the checks probe changes as it likes, also between a probe and its *)
(* diagnosis (Diagnosis says what each of them finds).  Time is not        *)
(* modelled: intervals, timeouts and the downtime in a message change      *)
(* nothing below.  The process may end at any moment and be started again: *)
(* trackers, bus and filters are in memory only.                           *)
(***************************************************************************)
EXTENDS Suppression, Diagnosis

CONSTANTS Checks,        \* the names of the checks; ValidateHealthChecks: unique
          Failures,      \* the configured number of failures of each
          Configs,       \* the configuration of each
          Hosts,         \* the states of the host each may find
          BusSize,
          MaxRestarts    \* how often the process ends and is started again

Default == 3             \* DefaultHealthFailures

ASSUME HealthAssumption ==
  /\ Failures \in [Checks -> Nat]
  /\ Configs \in [Checks -> HealthCheckConfig]
  /\ \A c \in Checks : Hosts[c] \subseteq Host
  /\ BusSize \in Nat \ {0}
  /\ MaxRestarts \in Nat
  \* No cooldown is configured for the two event types (there is none by default).
  /\ DOMAIN Duration \intersect {"HEALTH_DOWN", "HEALTH_RECOVERED"} = {}

VARIABLES
  cancelled,     \* the context of the monitor
  host,          \* the state of the host for each check
  at,            \* where the goroutine of a check is
  tracker,       \* its tracker: state and consecutive failures
  diagnosis,     \* the error of the failed probe, then what the diagnosis found
  bus,           \* the event bus
  lastKeys,      \* DedupManager
  cooledUntil,   \* CooldownManager
  restarts,      \* restarts so far
  \* History, read by the properties only:
  moved,         \* the host changed between the probe and its diagnosis
  recent,        \* the last results of a check, as many as its threshold
  shown,         \* the last alert of a check handed to the notifier
  forgotten      \* a HEALTH_DOWN was shown before the last restart, nothing since

outVars == <<bus, lastKeys, cooledUntil, shown, forgotten>>
vars == <<cancelled, host, moved, at, tracker, diagnosis, recent, restarts, outVars>>

\* The probe of c would find it healthy.
Works(c) == Check(Configs[c], host[c]) = "healthy"

\* WithDefaults: zero means the default.  newTracker's own minimum of one can
\* not matter then.
Threshold(c) == IF Failures[c] = 0 THEN Default ELSE Failures[c]

Init ==
  /\ cancelled = FALSE
  /\ host \in {f \in [Checks -> UNION {Hosts[c] : c \in Checks}] : \A c \in Checks : f[c] \in Hosts[c]}
  /\ moved = [c \in Checks |-> FALSE]
  /\ at = [c \in Checks |-> "probing"]
  /\ tracker = [c \in Checks |-> [state |-> "unknown", consecutive |-> 0]]
  /\ diagnosis = [c \in Checks |-> <<>>]
  /\ bus = <<>>
  /\ lastKeys = NoEntries
  /\ cooledUntil = NoEntries
  /\ recent = [c \in Checks |-> <<>>]
  /\ restarts = 0
  /\ shown = [c \in Checks |-> "none"]
  /\ forgotten = [c \in Checks |-> FALSE]
-----------------------------------------------------------------------------
(* The tracker. *)

\* Mutated: a success leaves the count.
ObserveKeepsCount(t, healthy, threshold) ==
  IF healthy THEN [t EXCEPT !.state = "healthy"]
  ELSE [state |-> IF t.state = "down" \/ t.consecutive + 1 >= threshold
                  THEN "down" ELSE "failing",
        consecutive |-> IF t.consecutive < threshold THEN t.consecutive + 1
                        ELSE t.consecutive]

\* The tracker after a result.  Failures are counted up to the threshold only:
\* beyond it the number is not looked at.
Observe(t, healthy, threshold) ==
  IF healthy THEN [state |-> "healthy", consecutive |-> 0]
  ELSE [state |-> IF t.state = "down" \/ t.consecutive + 1 >= threshold
                  THEN "down" ELSE "failing",
        consecutive |-> IF t.consecutive < threshold THEN t.consecutive + 1
                        ELSE t.consecutive]

\* Mutated: every failure while down is an alert.
TransitionEveryFailure(old, new) ==
  CASE new.state = "down" -> "WentDown"
    [] old.state = "down" /\ new.state # "down" -> "Recovered"
    [] OTHER -> "NoAlert"

Transition(old, new) ==
  CASE old.state # "down" /\ new.state = "down" -> "WentDown"
    [] old.state = "down" /\ new.state # "down" -> "Recovered"
    [] OTHER -> "NoAlert"
-----------------------------------------------------------------------------
(* runCheck. *)

\* Mutated: the context is not looked at after a call.
NeverInterrupted == FALSE

\* ctx.Err() # nil, asked after each call that takes time.
Interrupted == cancelled

\* The last n elements of s with x appended.
Window(s, x, n) == LET all == Append(s, x) IN
                   IF Len(all) > n THEN Tail(all) ELSE all

\* The probe ends.  A cancelled context makes it fail, whatever the service does,
\* so the result is not used.
Probe(c) ==
  LET healthy == Works(c) /\ ~cancelled
      err == IF cancelled THEN "context canceled" ELSE Check(Configs[c], host[c])
      t == Observe(tracker[c], healthy, Threshold(c))
  IN
  /\ at[c] = "probing"
  /\ IF Interrupted
     THEN at' = [at EXCEPT ![c] = "stopped"] /\ UNCHANGED <<tracker, diagnosis, recent>>
     ELSE /\ tracker' = [tracker EXCEPT ![c] = t]
          /\ at' = [at EXCEPT ![c] = CASE Transition(tracker[c], t) = "WentDown"  -> "diagnosing"
                                       [] Transition(tracker[c], t) = "Recovered" -> "publishing"
                                       [] OTHER -> "sleeping"]
          /\ diagnosis' = [diagnosis EXCEPT ![c] =
               IF Transition(tracker[c], t) = "WentDown" THEN <<<<"error", err>>>> ELSE <<>>]
          /\ recent' = [recent EXCEPT ![c] = Window(@, healthy, Threshold(c))]
  /\ UNCHANGED <<cancelled, host, moved, restarts, outVars>>

\* Mutated: the error is asked for once more.
DiagnoseAgain(c) ==
  /\ at[c] = "diagnosing"
  /\ IF Interrupted
     THEN at' = [at EXCEPT ![c] = "stopped"] /\ UNCHANGED diagnosis
     ELSE /\ at' = [at EXCEPT ![c] = "publishing"]
          /\ diagnosis' = [diagnosis EXCEPT ![c] =
                             Diagnose(Configs[c], host[c], Check(Configs[c], host[c]))]
  /\ UNCHANGED <<cancelled, host, moved, tracker, recent, restarts, outVars>>

\* Diagnose takes its time; the service may be up again by now.
DiagnoseCheck(c) ==
  /\ at[c] = "diagnosing"
  /\ IF Interrupted
     THEN at' = [at EXCEPT ![c] = "stopped"] /\ UNCHANGED diagnosis
     ELSE LET err == Head(diagnosis[c])[2] IN
          /\ at' = [at EXCEPT ![c] = "publishing"]
          /\ diagnosis' = [diagnosis EXCEPT ![c] = Diagnose(Configs[c], host[c], err)]
  /\ UNCHANGED <<cancelled, host, moved, tracker, recent, restarts, outVars>>

\* The event of the transition just made.
Alert(c) ==
  IF tracker[c].state = "down"
  THEN [source |-> c, type |-> "HEALTH_DOWN", text |-> diagnosis[c]]
  ELSE [source |-> c, type |-> "HEALTH_RECOVERED", text |-> <<>>]

\* After Publish: the findings are not used again.
Published(c) ==
  /\ at' = [at EXCEPT ![c] = "sleeping"]
  /\ diagnosis' = [diagnosis EXCEPT ![c] = <<>>]
  /\ moved' = [moved EXCEPT ![c] = FALSE]
  /\ UNCHANGED <<cancelled, host, tracker, recent, restarts,
                 lastKeys, cooledUntil, shown, forgotten>>

\* Mutated: the bus has no bound.
PublishAlways(c) ==
  /\ at[c] = "publishing"
  /\ bus' = Append(bus, Alert(c))
  /\ Published(c)

\* Mutated: a full bus is not waited for.
PublishOrDrop(c) ==
  /\ at[c] = "publishing"
  /\ bus' = IF Len(bus) < BusSize THEN Append(bus, Alert(c)) ELSE bus
  /\ Published(c)

\* Publish waits for room in the bus.
Publish(c) ==
  /\ at[c] = "publishing"
  /\ Len(bus) < BusSize
  /\ bus' = Append(bus, Alert(c))
  /\ Published(c)

\* The interval is over, or the context is cancelled.
Wake(c) ==
  /\ at[c] = "sleeping"
  /\ \/ at' = [at EXCEPT ![c] = "probing"]
     \/ cancelled /\ at' = [at EXCEPT ![c] = "stopped"]
  /\ UNCHANGED <<cancelled, host, moved, tracker, diagnosis, recent, restarts, outVars>>

RunCheck(c) == Probe(c) \/ DiagnoseCheck(c) \/ Publish(c) \/ Wake(c)
-----------------------------------------------------------------------------
\* The dispatcher's process for the event at the head of the bus (Daemon has
\* its steps).
Dispatch ==
  LET e == Head(bus) IN
  /\ bus # <<>>
  /\ bus' = Tail(bus)
  /\ IF IsAllowed(cooledUntil, e, 0) /\ IsNew(lastKeys, e)
     THEN /\ cooledUntil' = RecordCooldown(cooledUntil, e, 0)
          /\ lastKeys' = RecordKey(lastKeys, e)
          /\ shown' = [shown EXCEPT ![e.source] = e.type]
          /\ forgotten' = [forgotten EXCEPT ![e.source] = FALSE]
     ELSE UNCHANGED <<cooledUntil, lastKeys, shown, forgotten>>
  /\ UNCHANGED <<cancelled, host, moved, at, tracker, diagnosis, recent, restarts>>

\* The host changes: a service fails or comes back, an address is lost.
Change(c) ==
  /\ \E h \in Hosts[c] \ {host[c]} : host' = [host EXCEPT ![c] = h]
  /\ moved' = [moved EXCEPT ![c] = @ \/ at[c] \in {"diagnosing", "publishing"}]
  /\ UNCHANGED <<cancelled, at, tracker, diagnosis, recent, restarts, outVars>>

Cancel ==
  /\ ~cancelled
  /\ cancelled' = TRUE
  /\ UNCHANGED <<host, moved, at, tracker, diagnosis, recent, restarts, outVars>>

\* The process ends, whatever it is doing, and systemd or the owner starts it
\* again.  What the owner was told stays told.
Restart ==
  /\ restarts < MaxRestarts
  /\ restarts' = restarts + 1
  /\ cancelled' = FALSE
  /\ at' = [c \in Checks |-> "probing"]
  /\ tracker' = [c \in Checks |-> [state |-> "unknown", consecutive |-> 0]]
  /\ diagnosis' = [c \in Checks |-> <<>>]
  /\ moved' = [c \in Checks |-> FALSE]
  /\ bus' = <<>>
  /\ lastKeys' = NoEntries
  /\ cooledUntil' = NoEntries
  /\ recent' = [c \in Checks |-> <<>>]
  /\ forgotten' = [c \in Checks |-> shown[c] = "HEALTH_DOWN"]
  /\ UNCHANGED <<host, shown>>

Next == (\E c \in Checks : RunCheck(c) \/ Change(c)) \/ Dispatch \/ Cancel \/ Restart

Spec == Init /\ [][Next]_vars

\* Every goroutine keeps running: timers fire, probes and diagnoses have a
\* timeout, the dispatcher takes events off the bus.
Fairness == (\A c \in Checks : WF_vars(RunCheck(c))) /\ WF_vars(Dispatch)

\* A publisher that waits for room gets it: the senders of a channel queue up.
FairSpec == Spec /\ Fairness /\ \A c \in Checks : SF_vars(Publish(c))
-----------------------------------------------------------------------------
TypeOK ==
  /\ cancelled \in BOOLEAN
  /\ \A c \in Checks : host[c] \in Hosts[c]
  /\ moved \in [Checks -> BOOLEAN]
  /\ at \in [Checks -> {"probing", "diagnosing", "publishing", "sleeping", "stopped"}]
  /\ \A c \in Checks :
       /\ tracker[c].state \in {"unknown", "healthy", "failing", "down"}
       /\ tracker[c].consecutive \in 0..Threshold(c)
       /\ recent[c] \in Seq(BOOLEAN)
  /\ \A c \in Checks : diagnosis[c] \in Seq(Finding)
  /\ Len(bus) <= BusSize
  /\ restarts \in 0..MaxRestarts
  /\ shown \in [Checks -> {"none", "HEALTH_DOWN", "HEALTH_RECOVERED"}]
  /\ forgotten \in [Checks -> BOOLEAN]

\* A check is down exactly when its last results, as many as its threshold, were
\* failures; fewer in a row never bring it down (monitor.go, tracker).
DownAfterThreshold ==
  \A c \in Checks :
    tracker[c].state = "down" <=>
      /\ Len(recent[c]) = Threshold(c)
      /\ \A i \in DOMAIN recent[c] : ~recent[c][i]

\* The dispatcher takes an alert of c off the bus.
Handed(c) == bus # <<>> /\ bus' = Tail(bus) /\ Head(bus).source = c /\ restarts' = restarts

\* README.md: "After failures consecutive failures a single CRITICAL alert is
\* sent; the next success sends RECOVERED".  What reaches the notifier
\* alternates for each check, from HEALTH_DOWN; only a restart during an outage
\* may break it, by a second HEALTH_DOWN.
AlertsAlternate ==
  [][\A c \in Checks : shown'[c] # shown[c] \/ Handed(c) =>
       \/ shown[c] \in {"none", "HEALTH_RECOVERED"} /\ shown'[c] = "HEALTH_DOWN"
       \/ /\ shown[c] = "HEALTH_DOWN"
          /\ shown'[c] = IF forgotten[c] THEN "HEALTH_DOWN" ELSE "HEALTH_RECOVERED"]_vars

\* The diagnosis in an alert belongs to the failure it reports: it begins with
\* the error of the probe that took the check down, which is an error of the
\* service, never that of a probe the shutdown cut short; and what the host says
\* after that explains the error and does not contradict it, unless the host
\* changed since the probe (README.md: "the raw error ... which address the port
\* is actually listening on").
AlertExplains ==
  \A c \in Checks :
    at[c] = "publishing" /\ tracker[c].state = "down" =>
      /\ diagnosis[c] # <<>> /\ Head(diagnosis[c])[2] \in Causes
      /\ ~moved[c] => Explains(Configs[c], host[c], diagnosis[c])

InBus(c) == \E i \in DOMAIN bus : bus[i].source = c

\* What the owner was last told is what the tracker knows: no alert of a check
\* is suppressed, be it a duplicate of an earlier outage or another check's.
\* A shutdown may cut an alert short.  After a restart the tracker knows
\* nothing of an outage that was shown: if the service is back, nobody is told.
OwnerKnows ==
  \A c \in Checks :
    at[c] \in {"probing", "sleeping"} /\ ~InBus(c) =>
      (tracker[c].state = "down" <=> shown[c] = "HEALTH_DOWN" /\ ~forgotten[c])

\* A lasting outage is reported, even if the process ended while its alert was
\* in the bus or was shown before; so is a lasting recovery, unless the process ended after the
\* outage was shown.  Only a shutdown prevents either.
OutageReported ==
  \A c \in Checks :
    /\ <>[](~Works(c)) => <>[]cancelled \/ <>[](shown[c] = "HEALTH_DOWN" /\ ~forgotten[c])
    /\ <>[](Works(c))  => <>[]cancelled \/ <>[](shown[c] = "HEALTH_DOWN" => forgotten[c])

\* After the cancellation every goroutine of the monitor ends, so that
\* Monitor.Run returns; unless the process ends before.
MonitorStops == cancelled ~> ~cancelled \/ \A c \in Checks : at[c] = "stopped"
=============================================================================
