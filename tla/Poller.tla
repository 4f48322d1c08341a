------------------------------- MODULE Poller -------------------------------
(***************************************************************************)
(* The pollers of internal/poller (CPU, RAM, disk, temperature), one       *)
(* goroutine each, and what of their alerts gets past the bus and the      *)
(* filters of the dispatcher.  The three copies of the state machine       *)
(* (BasePoller.check, checkDisk, checkTemp) are the same one.              *)
(*                                                                         *)
(* A reading is what it compares to: below both levels, above the warning  *)
(* level, above both, or above the critical level only, which happens when *)
(* the configured critical level is the lower one; nothing validates them. *)
(***************************************************************************)
EXTENDS Suppression, Sequences

CONSTANTS Pollers,       \* the sources, e.g. "cpu", "temperature"
          Interval,      \* seconds between two polls, by source
          BusSize,
          MaxAge         \* bound on the seconds the history counts

ASSUME PollerAssumption ==
  /\ Interval \in [Pollers -> Nat]
  /\ BusSize \in Nat \ {0}
  /\ MaxAge \in Nat

VARIABLES
  cancelled,     \* the context of the pollers
  reading,       \* what a poll would read now
  state,         \* the state of each poller
  at,            \* where its goroutine is
  wait,          \* seconds until it polls again
  bus, cooledUntil, lastKeys, now,
  \* History, read by the properties only:
  shown,         \* the severity of the last alert of a source that was handed over
  age,           \* seconds since the last warning of a source was
  gap            \* seconds between the last two warnings of a source

filterVars  == <<cooledUntil, lastKeys>>
historyVars == <<shown, age, gap>>
vars == <<cancelled, reading, state, at, wait, bus, filterVars, now, historyVars>>

Readings == {"low", "high", "critical", "inverted", "error"}
\* What readValue returns.  The CPU poller takes counters it cannot read for
\* zeros, and the difference to the last ones for an idle CPU.
Value(p) == IF p = "cpu" /\ reading[p] = "error" THEN "low" ELSE reading[p]

AboveWarn(r) == r \in {"high", "critical"}
AboveCritical(r) == r \in {"critical", "inverted"}

Init ==
  /\ cancelled = FALSE
  /\ reading \in [Pollers -> Readings]
  /\ state = [p \in Pollers |-> "ok"]
  /\ at = [p \in Pollers |-> "waiting"]
  /\ wait = [p \in Pollers |-> 0]
  /\ bus = <<>>
  /\ cooledUntil = NoEntries
  /\ lastKeys = NoEntries
  /\ now = 0
  /\ shown = [p \in Pollers |-> "none"]
  /\ age = [p \in Pollers |-> MaxAge]
  /\ gap = [p \in Pollers |-> MaxAge]
-----------------------------------------------------------------------------
\* Mutated: a warning ends below the critical level.
NextStateBelowCritical(s, r) ==
  IF r = "error" THEN s ELSE
  CASE s = "ok" /\ AboveWarn(r) -> "warn"
    [] s = "warn" /\ AboveCritical(r) -> "critical"
    [] s \in {"warn", "critical"} /\ ~AboveCritical(r) -> "ok"
    [] OTHER -> s

\* Mutated: two levels at once.
NextStateJump(s, r) ==
  IF r = "error" THEN s ELSE
  CASE s # "critical" /\ AboveCritical(r) -> "critical"
    [] s = "ok" /\ AboveWarn(r) /\ ~AboveCritical(r) -> "warn"
    [] s \in {"warn", "critical"} /\ ~AboveWarn(r) -> "ok"
    [] OTHER -> s

\* check: one level at a time upwards, and down only from below the warning level.
NextState(s, r) ==
  IF r = "error" THEN s ELSE
  CASE s = "ok" /\ AboveWarn(r) -> "warn"
    [] s = "warn" /\ AboveCritical(r) -> "critical"
    [] s = "warn" /\ ~AboveCritical(r) /\ ~AboveWarn(r) -> "ok"
    [] s = "critical" /\ ~AboveWarn(r) -> "ok"
    [] OTHER -> s

\* The severity of the alert with which a poller enters a state.
Severity(s) == CASE s = "ok" -> "RECOVERED"
                 [] s = "warn" -> "WARNING"
                 [] s = "critical" -> "CRITICAL"

\* Mutated: the names that constants.go has for the alerts of the temperature.
EventTypeNamed(p, severity) ==
  CASE severity = "WARNING" -> "TEMP_WARN"
    [] severity = "CRITICAL" -> "TEMP_CRITICAL"
    [] severity = "RECOVERED" -> "TEMP_RECOVERED"

EventType(p, severity) == p \o "_" \o severity

\* Alerts of different severities have different types.
ASSUME NamesAssumption ==
  \A p \in Pollers : \A s, t \in {"WARNING", "CRITICAL", "RECOVERED"} :
    EventType(p, s) = EventType(p, t) => s = t

\* makeEvent.  The text is the value, rounded: here all values of a severity
\* read the same, which is when the duplicate filter suppresses the most.
Event(p) ==
  [source |-> p, type |-> EventType(p, Severity(state[p])), text |-> "value"]

\* The poller's goroutine reads the value and, when its state changes, has an
\* alert to publish.
Poll(p) ==
  /\ at[p] = "waiting" /\ wait[p] = 0
  /\ state' = [state EXCEPT ![p] = NextState(@, Value(p))]
  /\ at' = [at EXCEPT ![p] = IF state'[p] = state[p] THEN "waiting" ELSE "publishing"]
  /\ wait' = [wait EXCEPT ![p] = Interval[p]]
  /\ UNCHANGED <<cancelled, reading, bus, filterVars, now, historyVars>>

\* Publish waits for room; the interval starts after it.
Publish(p) ==
  /\ at[p] = "publishing"
  /\ Len(bus) < BusSize
  /\ bus' = Append(bus, [event |-> Event(p), severity |-> Severity(state[p])])
  /\ at' = [at EXCEPT ![p] = "waiting"]
  /\ wait' = [wait EXCEPT ![p] = Interval[p]]
  /\ UNCHANGED <<cancelled, reading, state, filterVars, now, historyVars>>

\* The context is looked at only while the poller waits for its next poll.
Stop(p) ==
  /\ cancelled
  /\ at[p] = "waiting"
  /\ at' = [at EXCEPT ![p] = "stopped"]
  /\ UNCHANGED <<cancelled, reading, state, wait, bus, filterVars, now, historyVars>>

RunPoller(p) == Poll(p) \/ Publish(p) \/ Stop(p)
-----------------------------------------------------------------------------
\* The dispatcher's process for the event at the head of the bus (Daemon has
\* its steps), and what the history makes of it.
Dispatch ==
  LET e == Head(bus).event
      s == Head(bus).severity
      p == e.source
  IN
  /\ bus # <<>>
  /\ bus' = Tail(bus)
  /\ IF IsAllowed(cooledUntil, e, now) /\ IsNew(lastKeys, e)
     THEN /\ cooledUntil' = RecordCooldown(cooledUntil, e, now)
          /\ lastKeys' = RecordKey(lastKeys, e)
          /\ shown' = [shown EXCEPT ![p] = s]
          /\ age' = [age EXCEPT ![p] = IF s = "WARNING" THEN 0 ELSE @]
          /\ gap' = [gap EXCEPT ![p] = IF s = "WARNING" THEN age[p] ELSE @]
     ELSE UNCHANGED <<filterVars, historyVars>>
  /\ UNCHANGED <<cancelled, reading, state, at, wait, now>>

\* A second passes.  The clock is counted while a cooldown runs; nothing else
\* reads it.
Tick ==
  /\ wait' = [p \in Pollers |-> IF wait[p] = 0 THEN 0 ELSE wait[p] - 1]
  /\ now' = IF \E k \in DOMAIN cooledUntil : now <= cooledUntil[k] THEN now + 1 ELSE now
  /\ age' = [p \in Pollers |-> IF age[p] = MaxAge THEN MaxAge ELSE age[p] + 1]
  /\ UNCHANGED <<cancelled, reading, state, at, bus, filterVars, shown, gap>>

\* The measured value changes, or can no longer be read.
Change(p) ==
  /\ \E r \in Readings \ {reading[p]} : reading' = [reading EXCEPT ![p] = r]
  /\ UNCHANGED <<cancelled, state, at, wait, bus, filterVars, now, historyVars>>

Cancel ==
  /\ ~cancelled
  /\ cancelled' = TRUE
  /\ UNCHANGED <<reading, state, at, wait, bus, filterVars, now, historyVars>>

Next == (\E p \in Pollers : RunPoller(p) \/ Change(p)) \/ Dispatch \/ Tick \/ Cancel

Spec == Init /\ [][Next]_vars

\* Goroutines keep running, timers fire, and a publisher that waits for room
\* gets it in its turn.
Fairness == /\ \A p \in Pollers : WF_vars(RunPoller(p)) /\ SF_vars(Publish(p))
            /\ WF_vars(Dispatch) /\ WF_vars(Tick)

FairSpec == Spec /\ Fairness
-----------------------------------------------------------------------------
InBus(p) == \E i \in DOMAIN bus : bus[i].event.source = p

\* What the owner was last told of a source is the poller's state: neither filter
\* hides a change of level, and none gets lost in the bus.
LevelShown ==
  \A p \in Pollers : at[p] # "publishing" /\ ~InBus(p) =>
    \/ shown[p] = "none" /\ state[p] = "ok"
    \/ shown[p] = Severity(state[p])

\* Alerts of a source follow each other as levels do: CRITICAL only after WARNING,
\* WARNING only at the start or after RECOVERED.
LevelsInOrder ==
  [][\A p \in Pollers :
       shown'[p] # shown[p] =>
         <<shown[p], shown'[p]>> \in {<<"none", "WARNING">>, <<"RECOVERED", "WARNING">>,
           <<"WARNING", "CRITICAL">>, <<"WARNING", "RECOVERED">>, <<"CRITICAL", "RECOVERED">>}]_vars

\* A level that lasts is reported, unless the daemon shuts down.
LastingLevelReported ==
  \A p \in Pollers :
    /\ <>[](reading[p] = "critical" /\ ~cancelled) => <>[](shown[p] = "CRITICAL")
    /\ <>[](reading[p] = "high" /\ ~cancelled) => <>[](shown[p] \in {"WARNING", "CRITICAL"})
    /\ <>[](reading[p] = "low" /\ ~cancelled) => <>[](shown[p] \in {"none", "RECOVERED"})

\* config.toml.example and constants.go: TEMP_WARN has a cooldown.  Two warnings
\* of the temperature are further apart than that.
TempWarnCooled == gap["temperature"] > Duration["TEMP_WARN"]
=============================================================================
