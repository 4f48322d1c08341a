# PiDex in TLA+

PiDex (Go) is a daemon for a Raspberry Pi that watches a host and sends alerts to
Telegram. These modules model what makes it more than a loop around an HTTP call: the
goroutines that share an event bus, the filters that decide what is sent, an alert
queue that survives outages and restarts, the health checks, the readers of journal,
Docker and netlink, the shutdown, and the commands that edit the configuration and
replace the installation under it.

Paths are relative to the repository. `PROJECT.json` maps each definition to the lines
it models and lists the runs, mutants, hazards and theorems.

## 1. Inventory

| Component | State | Operations | Talks to | Hard part |
|---|---|---|---|---|
| Offline queue: `internal/queue/queue.go`, `notifier.go` | entries with ids, drop counter, `queue.jsonl`; `sendMu` | `Push`, `Front`, `Remove`, `Dropped`, `ResetDropped`, `Open`; `Send`, `Run`, `Flush` | dispatcher calls `Send`; a goroutine runs `Flush`; calls the Telegram notifier | two goroutines, a lock not taken on every path, the file, restarts, lost answers, the cap |
| Event bus: `internal/core/bus.go` | channel with 64 slots | `Publish`, `Subscribe` | every producer; dispatcher, at the end `main` | blocks when full |
| Dispatcher and filters: `internal/core/dispatcher.go`, `cooldowns.go`, `dedup.go` | deadlines by source and type; last key by source | `Run`, `process`, `DrainPending`; `IsAllowed`/`Record`, `IsNew`/`Record` | bus, notifier | check and record are two calls; boundary of a cooldown |
| Daemon: `cmd/pidex/main.go` | two contexts, `dispDone` | start, signal, shutdown | everything | hand-over of the bus from the dispatcher to `main` |
| Health monitor: `internal/health/monitor.go` | a tracker for each check | `observe`, `runCheck` | probes, diagnosis, bus | thresholds, one alert for each outage, cancellation in a probe |
| Probes, diagnosis: `internal/health/check.go`, `diagnose.go`, `proc.go`, `docker.go` | none | `Check`, `Diagnose` | network, `/proc`, Docker | several sources of truth, read one after the other, that must not contradict each other |
| Pollers: `internal/poller` | state of the hysteresis; last CPU counters | `check` | bus | two levels, event types and cooldowns, a wait for room on the bus |
| Telegram notifier: `internal/notifier/telegram.go` | none | `Send`, formatting | Telegram | three attempts, permanent errors, Retry-After, truncation |
| Parsers: `internal/parser` | brute force attempts by address; last failure by unit | one function for each kind of entry | journal source | windows, eviction, order of two log lines |
| Sources: `internal/source` | a connection | `Run` | journalctl, Docker, netlink; bus | reconnection, end of a stream, cancellation |
| Configuration: `internal/config` | `config.toml` | `LoadConfig`, `SaveConfig`, `WithDefaults`, `Validate` | daemon, setup | round trip, crash while saving |
| Setup: `cmd/pidex/setup.go`, `setup_health.go` | edited configuration | menus | configuration, systemctl | long interactive sequences |
| Update, uninstall: `cmd/pidex/update.go`, `units.go`, `uninstall.go` | installed files | download, rename, restart | GitHub, systemd | a failure between two files |
| `pidex-shutdown`, `pidex test`, `deploy/` | none | send one message; install | | |

What makes each of them correct:

* **Queue.** An alert handed to `Send` does not vanish; alerts arrive in order; repeats
  and announced drop counts have an explanation; both goroutines make progress.
* **Bus, dispatcher, daemon.** Alerts reach the notifier in the order of publication;
  the shutdown alert reaches it before the process ends; a signal ends the process;
  an alert is suppressed only for the reason the filter names.
* **Health monitor.** Down exactly after the threshold; one alert for an outage; what
  the owner was last told is what the tracker knows; a lasting outage is reported.
* **Pollers.** What the owner was last told of a source is its poller's state; levels
  are told in order; a lasting level is reported; warnings keep their cooldown.
* **Diagnosis.** What an alert says of the host explains the error of the probe.
* **Telegram.** Every alert fits, wherever it is cut; what `Send` returns is true.
* **Parsers, sources.** The brute-force alarm is exact; one failure of a unit is one
  alert; a reader survives what it reads from, except where the code gives up.
* **Configuration, setup.** What the wizard shows is what the daemon starts with; no
  dialog, fault or crash keeps the daemon from coming up, and none costs what was entered.
* **Update, uninstall.** Binaries are whole at any moment; what the command says is true
  of every file; only a command that did not end leaves parts of two releases.

The hazards, each at its line with the properties that cover it, are in `PROJECT.json`.

## 2. Modules

```
            AlertChannel  <==implements==  QueueNotifier --> Queue
                 :                              ^
       (says what Send promises)                |
                 :                              |
              Daemon --> Suppression <-- HealthMonitor, Poller
                                              |
   Setup --> Config    Sources --> Parsers    Diagnosis        Telegram        Update

   QueueNotifierProofs   DaemonProofs   HealthProofs   PollerProofs   SourcesProofs
   SetupProofs   TelegramProofs   UpdateProofs                   (about the module of the name)
```

`Telegram` is one call of the inner notifier whose outcomes `QueueNotifier` takes as a
choice; `Sources` are the producers of `Daemon` in detail; `Config` is what `Setup`
writes and the daemon loads. MC modules (`MC` and the name) hold the instances.

### Queue

`queue.go` as operators on a record: entries with their `seq`, `nextSeq`, `dropped`.
A method holds `q.mu` throughout and is one step, so one operator. `Image` is what
`persistLocked` writes, `Open` what a restart makes of it: ids start again from one. The
bytes of the file, and the lines `Open` skips because they do not parse, are left out;
`writeAtomic` writes another file and renames it, so `queue.jsonl` is the old or the new
image. A missing file is the image of the empty queue.

### QueueNotifier

`notifier.go`: the sender (the dispatcher in `Send`) and the flusher (`Run`, `Flush`).
The steps are the points between which another goroutine can run: each call of a queue
method, each lock, each call of the inner notifier. `sender` and `flusher` are the
program counters.

| Code | Action |
|---|---|
| `Send`: first `Len`, lock, second `Len`, `inner.Send`, `enqueue` | `SendCheck`, `SendLock`, `SendRecheck`, `SendDirect`, `SendPush` |
| `Flush`: `Len`, `Dropped`, lock, `Dropped`, summary, `ResetDropped` | `FlushCheckLen`, `FlushCheckDropped`, `FlushLock`, `FlushReadDropped`, `FlushSummary`, `FlushReset` |
| `Flush`: `Front`, `inner.Send`, `Remove`, return | `FlushFront`, `FlushSend`, `FlushRemove`, `FlushReturn` (part of the step that returns) |
| end of the process, `cmdRun` up to `go qn.Run` | `Crash`, `Restart` |

An event is the number under which it was handed over. The outcomes of the inner
notifier are: taken; refused for now; taken with the answer lost; refused for good
(`IsPermanent`). Writing or reading the file can fail. `Budget` bounds how often each
fault happens; the variables after `faults` are history for the properties.

### AlertChannel

What the queue promises without files, locks and goroutines: alerts accepted one at a
time, first deliveries in order, one is forgotten only if refused or if `Cap` younger
ones are pending, the end of the process takes the one in the hands of `Send`. The run
`queue_channel` checks `QueueNotifier => AlertChannel` under the mapping at the end of
`QueueNotifier`: pending is what is in the queue (in the file while the process is
down), in the flusher's hands or in `Send`, and has not been taken. The definitions of
this module model a promise, not lines of code, so none is in the map.

### Suppression

`CooldownManager` and `DedupManager` as operators on the map they keep. An event is its
source, type and text. `UpdateDuration` and `Reset` are not called by the daemon.

### Daemon

`cmdRun` from the bus to the return. `main` is its position; both contexts follow from
it. `runner` holds the two goroutines that can be in `process`: the dispatcher, and
`main` in `DrainPending`. `process` is three steps: receive, filter and record, and the
return of `Send`. Filtering is one step although it is four calls: one runner uses the
filters at a time, which `HandedInOrder` checks by its consequence (the mutant in which
`main` does not wait breaks it). `Send` takes any time; that it returns is `SendReturns`
of `QueueNotifier`. Producers are whatever publishes, at any time up to the end: a
cancelled producer may still publish what it has. A signal before `signal.Notify` kills
the process and is not modelled.

### Diagnosis

`Check` gives, for the configuration of a check and the state of the host, the cause as
`describeErr` words it; `Diagnose` the findings in the order of `diagnose.go`, each with
its condition (`targetAddr`, whether the address is of this host, who owns it, on which
addresses the port is listened on). Addresses of both families are kept apart, and so
are the sockets 0.0.0.0, `::`, and `::` for IPv6 only: `Accepting` says which of them take a
connection (the kernel), `listenerFinding` which of them count for the diagnosis. What
packets meet on their way (`path`: a filter that drops or refuses, no route, a
redirection, a name nobody knows) decides with the sockets what `Dial` comes to: a dropped
packet is a timeout. A connection that was made may be answered well, badly, late or be
broken. `systemctl` and Docker may give an error or no answer, to the probe and to the
diagnosis (`Queried`). `Explains` relates error and findings. The wording, the log lines,
the parsing of `/proc` and a table of sockets that cannot be read are left out.

### HealthMonitor

One goroutine per check (`runCheck`): probe, `observe`, diagnose, publish, sleep; with
the real filters behind a bounded bus. The host changes at any moment, so the service
can be back, or fail otherwise, when the diagnosis is made. A cancelled context makes a
probe fail, whatever the service does. `Restart` ends the process at
any point and starts it with empty trackers, bus and filters, while what the owner was
told stays told. Failures are counted only up to the threshold (the code looks no
further), which makes the state space finite without a bound on time.

### Poller

The state machine of `BasePoller.check`, which `checkDisk` and `checkTemp` repeat, one
goroutine for each source, and their alerts through the bus and the real filters. A
reading is what it compares to, one of them for levels that are configured upside down
(nothing validates them); it may change between a poll and the alert. `Poll` changes the
state, `Publish` waits for room with the state already changed, and the interval starts
after it. The CPU poller takes counters it cannot read for an idle CPU (`Value`).

### Parsers and Sources

`Parsers` has each parser as an operator on a line and on the parser's memory; a line is
the pattern it matches and what the code takes from it. `Sources` has the three readers
and the order in which parsers get a line, with the clock the parsers read. `Publish` is
a step of its own, at which a reader may wait. The reader of the journal ends for good
when journalctl ends or a line is too long for its buffer; the reader of Docker waits and
connects again; the reader of netlink looks at the context only before it blocks, so it
handles one more read after a cancellation, which is why `Daemon` lets producers publish
until the process has ended.

| Code | Action |
|---|---|
| `JournalSource.Run`: scan, each parser, `Publish`, select, end of the scan | `ReadLine`, `Parse`, `PublishJournal`, `LineDone`, `JournalEnds` |
| `DockerSource.Run`: request, decode, `Publish`, error, wait | `DockerConnect`, `DockerDecode`, `DockerPublish`, `DockerBroken`, `DockerRetry` |
| `NetworkSource.Run`: receive, parse, publish | `NetworkReceive` |

### Telegram

One `Send`. A text is a sequence of symbols that escape to one, four or two bytes, so a
cut can fall inside an entity or a character. Telegram is external: it takes a text
whose entities and characters are whole and that is short enough, for a chat it knows,
and rejects others for good. Each attempt is one action with the time it took and the
wait after it. `Outcome` maps the end of the call to the outcomes of `QueueNotifier`.

### Config and Setup

`Config` is `ConfigFromMap`, `ConfigToMap`, `LoadConfig`, `WithDefaults` and `Validate`
as operators; a number keeps the form it was written in, because the code takes a number
only in the form it expects. `CutOff` is what a write that is cut off may leave of a file
and still parses: the encoder writes the sections one after the other with a line for
each key, so a cut at the end of a line loses what follows, also within the last service
or health check, and one inside a number leaves its first digits. Any other cut does not
parse, and `LoadConfig` then takes the defaults. `Setup` has an action for each dialog that
changes something, which ends in `saveConfig`: `openConfig` (create or truncate),
`writeConfig`, `chownConfig` (a new file is given to the daemon's group), `consume` (what the
dialog removes after the save). Each of the first three may fail, `End` may come between any
two steps, also in the middle of the write, and `HandEdit` may replace the file under the
wizard. `readable` is whether the daemon, which is not root, may read the file: one that was
created and not given to its group is to the daemon like one that does not parse
(`DaemonFile`).

### Update

`cmdUpdate` and `cmdUninstall`, a step for each file and each command; `uninstall` disables
two services and removes four files, in the order of the code, and goes on when one of
these calls fails (`kept` has the files it could not remove). A file is the number of the
release it is from; `self` is the release whose binary runs the command, because the units
that are installed are the ones compiled into it. `undone` is that a command has changed
files and did not end, or ended with files left or the units not read again.

## 3. Runs

| Run | Instance | Checks |
|---|---|---|
| `queue_faults` | cap 2, 4 alerts, one fault of every kind | `TypeOK`, `NothingVanishes`, `RepeatsExplained`, `NotOverAnnounced`, `FrontStaysInFront`, `OrderKept` |
| `queue_channel` | cap 2, 4 alerts, two ends of the process, no disk faults, fairness | `ImplementsChannel`, `EveryAlertSettles`, `DropsAnnounced`, `SendReturns` |
| `queue_drop_race` | cap 2, 5 alerts, transient errors only | `EveryDropReported` is violated |
| `daemon` | bus of 2, 4 events besides the daemon's own, 2 units of time | `TypeOK`, `HandedInOrder`, `ShutdownHandled`, `CooldownsKept`, `LastWord`, `SuppressedForReason`, `ShutdownCompletes` |
| `health_monitor` | two checks, thresholds 2 and 1, bus of 1, two restarts, no bound on time | `TypeOK`, `DownAfterThreshold`, `OwnerKnows`, `AlertExplains`, `AlertsAlternate`, `OutageReported`, `MonitorStops` |
| `poller` | two sources polled every second, bus of 1, no bound on time | `LevelShown`, `LevelsInOrder`, `LastingLevelReported` |
| `poller_cooldown` | the temperature alone, a cooldown of 3 s | `TempWarnCooled` is violated |
| `setup` | three dialogs, one fault or hand edit, one or two keys of a kind, three types of checks | `TypeOK`, `EditsReachDaemon`, `DaemonComesUp`, `HiddenByFaultOnly`, `CredentialsLost` |
| `sources` | five journal lines, clock 0 to 3, room for two of three addresses, windows of 2 | `TypeOK`, `BruteforceExact`, `FailureReportedOnce`, `DockerReconnects` |
| `sources_links` | the same | `LinkChangesReported` is violated |
| `telegram` | messages up to three symbols, limit 30 bytes | `TextAccepted`, `ResultHonest` |
| `update` | three releases, three failures or interruptions | `SaysWhatItDid`, `WholeUnlessUndone` |

**Bounds.** A cap of two with four alerts is the smallest instance in which the cap
discards an entry while it is being sent and one that is not; five alerts are needed to
lose a drop between the summary and the reset. One fault of each kind allows every pair
and triple of different faults; two ends of the process allow a restart from a file
written by a restarted process. A bus of two lets it be full with the shutdown event
waiting; four events let it happen with a duplicate and a cooldown before. Two time
units cross the deadline of a one-second cooldown, the clock stops while no cooldown
runs. In `health_monitor` and `poller` a bus of one makes one goroutine wait for the
other; without running cooldowns the clock of `poller` stands still, so its state space is
finite. `poller_cooldown` counts four seconds of history, one more than the cooldown.

Two restarts of `health_monitor` let an outage be forgotten, reported again and
forgotten once more. Its run also evaluates `EveryFailureExplained`: for every
configuration, on a host with up to two listening sockets (none, if unit or interface are
not up), the findings explain the error of the probe; `FailureExplained` proves it for
all hosts; the two checks of the state space are a pair whose failures differ. In `setup`, three
dialogs are one to create something, one to change it and one to save over it; one fault
falls at every point of every save, and a write is cut at every point that `CutOff` knows. In `sources`, five lines are three failures of one
address with two of others between them, which evicts the first from a tracker for two;
a clock to 3 crosses both windows. Journal and the two other readers are checked in
turn: they share only the bus. In `telegram`, the limit leaves room for all of a message,
for a part of it, for less than the ellipsis, and for nothing; with three symbols the cut
falls before, in and after each kind of symbol, also after a lone semicolon. In `update`,
three releases allow one to appear during an update, three failures an update that fails
and whose repetition fails. The counters of faults, lines, dialogs and
time are the only bounds.

**What `queue_drop_race` shows.** `Flush` reads the counter, sends the summary and
resets the counter. A `Send` that finds the queue non-empty does not take `sendMu`, so
its push can overflow the queue while the summary is on its way, and the reset wipes
that drop: nobody is told, although README.md says that dropped entries are "reported
once". Two properties say what does hold. `NotOverAnnounced`: too few may be announced, never
too many. `DropsAnnounced`: the drops that are counted while the flusher is not between a
summary and its reset are all announced, through outages and restarts, unless Telegram
refuses a summary for good (with a disk that can be written).

**What `poller_cooldown` shows.** A poller names its events after source and severity
(`temperature_WARNING`), `constants.go` and `config.toml.example` give cooldowns to
`TEMP_WARN` and the like, and no event has that name. A temperature around its warning
level is reported at every swing, two polls apart. The filters do not hide a level
either (`LevelShown`); with the names of `constants.go`, the mutant of that property, they
would: after a recovery the next warning is suppressed and the owner believes all is well.

**What `sources_links` shows.** The state of a link is one byte (2 is down, 6 is up). The
code makes a string of that byte and compares it with `UP` and `DOWN`: no link that goes
up or down is reported, only one that is removed.

**What passing runs say in their exceptions.** Each of these is stated by a property,
which allows it and nothing else:

* After a restart, an outage shown before is reported again if it lasts, and its end is
  never reported: the trackers are not persisted (`OwnerKnows`, `AlertsAlternate`).
* For `localhost` the diagnosis looks at 127.0.0.1 only, the probe tries ::1 as well, so
  an answer that is bad on ::1 is accompanied by "listening elsewhere only" (`Explains`).
* The diagnosis takes a socket on every address of *either* family for a listener on the
  address of the check. A service on an IPv6 address whose port is open on 0.0.0.0 only
  refuses the connection, and the alert says that the port is listening, where
  docs/spec-v2.md:90 asks for "a different address" (`Explains`, `OtherFamily`).
* An address is forgotten by the tracker of logins when a thousand others came in,
  whatever it does meanwhile (`BruteforceExact`).
* An unknown chat (400) drops alerts for good, whereas a wrong token (401, 404) keeps
  them queued for ever (`ResultHonest`, `Rejected`).
* Any save of the wizard drops the `[telegram]` section, whatever the dialog was about
  (`CredentialsLost`), and a reset removes the credentials from the env file although its
  save failed. The file of a registered service is removed from custom.d after a failed save
  too, though docs/custom-services.md:138 has "saved into `/etc/pidex/config.toml` and removed
  from the staging directory" (`consume`).
* A wizard that is ended while it writes a configuration file it has just created leaves it
  `root:root` 0640. The next save finds it, does not give it to the group, and says "Wrote",
  but the daemon runs on the defaults, because it may not read the file: README.md:110 has it as
  640 `root:pidex` (`HiddenByFaultOnly`, `EditsReachDaemon`).
* A write that is cut off inside a health check can leave one without its type, and the
  daemon ends on it at every start, as on an invalid one written by hand. A cut anywhere
  else leaves a configuration the daemon starts with (`DaemonComesUp`).
* After an update the unit files are those of the release before, whose binary wrote them,
  though README.md:26 of the project has "Update binaries and systemd units to the latest
  release"; `SaysWhatItDid` asks only that they are whole and of one release.
* After an update that was interrupted, the next one says "up to date", because it compares
  the version of `pidex` only. An uninstall that is stopped, or cannot remove a file, may
  leave one binary without the other (`SaysWhatItDid`, `WholeUnlessUndone`).

And seen while modelling, where the model has what the code does and no property is about it:
the wizard's switches for SSH, CPU and RAM change nothing (`Known`; `setup.go` asks for
`MonitorSsh` and knows `MonitorSSH`); thresholds written as integers and intervals written
as floats are ignored, intervals of zero or less are taken (`Overlay`); `LoadConfig` looks
at `./config` first, `resolvePaths` at `/etc/pidex` (`Start`); the cooldown of brute-force
alerts is by source and type, so one address hides the others (`CooldownKey`); a line any
service logs is parsed as if systemd had (`Considered`); a container that is starting
counts as a failure (`ProcessState`).

**Fairness.** A runnable goroutine runs (`WF` on the sender, the flusher, the
dispatcher, `main`, each check and each poller): timers fire again and again, every network call has a
timeout, systemd restarts the daemon (`Restart=on-failure`). `SF` on `Publish` of a check or
poller:
blocked senders of a Go channel are served first in, first out, so a publisher gets the
next free slot. `WF` on the steps of Docker's reader that need nothing from outside: a dial
has an end, its timer fires, the bus gets room (`LastWord` and `SendReturns` are why), and a
stream whose daemon is gone ends. Nothing is assumed of the arrival of alerts, signals or faults; the
liveness of the queue holds because faults are finitely many.

**Mutants.** Each property of a passing run has a mutant, an operator before the
definition it replaces, that TLC finds violating it: a missing removal, the wrong end of
the queue, a missing unlock, `>=` for `>`, a missing join, and so on.

## 4. Proofs

Theorems hold for every value of the constants that the named assumptions allow: every
cap, bus size, number of alerts, checks, pollers and releases, every budget of faults.

| Module | Theorem | States |
|---|---|---|
| `QueueNotifierProofs` | `TypeCorrect`, `FrontTheorem` (on `ShapeInvariant`) | `TypeOK` and the cap, `FrontStaysInFront` |
| | `OrderTheorem` (on `OrderInvariant`), `NothingVanishesTheorem`, `RepeatTheorem`, `AnnounceTheorem` | `OrderKept`, `NothingVanishes`, `RepeatsExplained`, `NotOverAnnounced` |
| | `ChannelTheorem` | `ImplementsChannel`: the refinement, step by step |
| `DaemonProofs` | `TypeCorrect`, `OrderTheorem`, `ShutdownTheorem`, `CooldownTheorem`, `LastWordTheorem`, `SuppressionTheorem` | `TypeOK`, `HandedInOrder`, `ShutdownHandled`, `CooldownsKept`, `LastWord`, `SuppressedForReason` |
| `HealthProofs` | `TypeCorrect`, `ThresholdTheorem`, `ExplainTheorem` (on `FailureExplained`), `OwnerTheorem`, `AlternationTheorem` | `TypeOK`, `DownAfterThreshold`, `AlertExplains`, `OwnerKnows`, `AlertsAlternate` |
| `PollerProofs` | `LevelTheorem`, `OrderTheorem` | `LevelShown`, `LevelsInOrder` |
| `SourcesProofs` | `TypeCorrect`, `BruteforceTheorem` (on `TraceInvariant`), `FailureTheorem` (on `FailureInvariant`) | `TypeOK`, `BruteforceExact`, `FailureReportedOnce` |
| `SetupProofs` | `TypeCorrect`, `SettingsTheorem`, `DaemonTheorem`, `ReadableTheorem`, `CredentialsTheorem` | `TypeOK`, `EditsReachDaemon`, `DaemonComesUp`, `HiddenByFaultOnly`, `CredentialsLost` |
| `TelegramProofs` | `ResultTheorem`, `TextTheorem` | `ResultHonest`, `TextAccepted` |
| `UpdateProofs` | `SaysTheorem`, `WholeTheorem` | `SaysWhatItDid`, `WholeUnlessUndone` |

**The queue.** `FrontStaysInFront` is not inductive. `Shape` is, given types: (1) who
holds `sendMu` follows from the positions of the two goroutines, and a direct send
happens on an empty queue (`LockInv`); (2) queue and file are sorted by event and by id,
below `Top`, the newest alert not in the hands of `Send` (`QueueInv`, `FileInv`); (3) the
flusher's front is no younger than anything queued, and an entry has its id exactly if
it is the same alert (`FrontInv`). (3) survives `Push` because ids and events grow, and
trimming because it takes from the old end. For order, `OrderInvariant` adds that what
has been taken is not younger than anything that can still be taken for the first time,
and that the file holds nothing that memory has discarded, as long as every write
succeeded. An alert sent directly is the newest there is and everything before it has
left the queue; an alert sent by the flusher is the oldest queued.

For `NothingVanishes`, the invariant `Account` adds to the claim itself (`Accounted`) that
the alert in the flusher's hands is still queued or was discarded by the cap until it is
taken or refused (`InHand`), so that removing it loses nothing, and that each end of the
process loses at most one alert and needs a restart (`LossInv`). One lemma says when a step
keeps it: whatever was unsettled must be unsettled still, or settled; each action is then
shown to be such a step.

For `RepeatsExplained`, `Owed` is the alerts Telegram has taken that may still be sent
again; what is owed and what was repeated together never exceed the lost answers and the
ends of the process (`RepeatInv`), and a step that adds to the one takes from the other or
from the faults. For `NotOverAnnounced`, what the cap discarded is older than everything
queued (`CapInv`), so each discard is a new one and can be counted, and the counter is not
below what `Flush` has read (`SnapInv`): only the flusher resets it.

**The refinement.** A lemma for each step of `AlertChannel` says what the notifier must do
to make it (`IsAccept` to `IsResume`), and each action of the notifier is shown to be one of
them. Where a step discards an alert of the cap, `Forget` needs `Cap` younger pending ones:
they are the entries of the queue, counted in `QueueCardinality`. The disk is trusted: an
image that could not be written brings alerts back that were settled, or loses pending
ones, and the channel allows neither. The hypothesis `[](faults["disk"] = 0)` says so; TLC's run
gives the disk no faults.

**The daemon.** One of the two runners at most has an event in hand (`OneRunner`), because
`main` drains only after the join. The events in the bus have consecutive numbers after
those taken off it, and each of those was handed over, suppressed or is in hand (`Flow`);
so order and completeness need no count of steps. `ShutdownInv` says which number is the
shutdown event's. The filters remember alerts of the log and no others (`FilterInv`): a
deadline belongs to a logged alert, the key of a source to its last one. From this follow
the three properties of suppression.

**Health checks.** `FailureExplained` is about `Check` and `Diagnose` alone, for all
configurations and hosts, any set of sockets included, by the source that decides each
cause: where a probe was refused, no socket that accepts a connection to the address is
there, so none matches but those on every address of the other family. The count of the tracker
is the number of failures at the end of its window (`CountInv`). For what the owner knows,
the alerts of one check in the bus alternate; the first differs from what the owner was
told, the last is what the tracker says, but for an alert not yet published (`BusInv`);
and the duplicate filter remembers no alert that was not shown (`HealthFilterInv`).

**Pollers.** The same chain of alerts, from the one shown over those on the bus to the
state, each following the one before (`LevelInv`), and a duplicate filter that remembers the
last alert shown.

**Sources.** `TrackerOK` says that the two parts of the tracker agree, which eviction needs
to take the same address from both. The times the tracker keeps of an address are traced
back to failures, another one for each (`Traces`); as long as there was room for every
address there was, no failure within the window is without its time. The alarm counts
times, the property failures, and the trace is a bijection between the two. What the
loop over the old times keeps (`ActiveResult`) is by induction over the list.
`FailureInv` says that the memory of the systemd parser is what was reported, and that what
it has forgotten is too old to suppress anything.

**Setup.** Most of it is about `Config`, without states. What the loop over the services
of a file takes are the usable ones, and a list of usable ones stays as it is
(`UsableOfResult`, by induction over the list). A health check whose numbers are set is
written and read back unchanged (`ThroughResult`), a valid one as a valid one; a list of
checks is valid exactly if each is and no two have one name (`ValidList`), which adding,
replacing and removing one keep. From these, `RoundTrip`: any configuration the program can
have comes back from the file with its settings. The invariant `Inv` then says that the
configuration in memory is such a one (`WizardOK`), that the file of the last save holds it
as long as the save counts (`SavedOK`), and that all files have valid checks unless a hand
wrote others or a write was cut off inside one (`LegalOK`). For the latter, what `CutOff`
leaves of a file is decoded like any other (`CutDecoded`), and its checks, if none is cut, are
the first ones of a valid list, which are valid (`PrefixValid`, `CutValid`): so a save that
fails at any point loses settings, but keeps the daemon down in that one case only.
Whether the daemon may read the file needs the steps of one
save only (`HiddenInv`). The proof of `RoundTrip` found the two
exceptions that `EditsReachDaemon` makes, both of a health check written by hand: a status
given to a check that is not `http` is not written back, which means nothing, and a negative
status of an `http` check comes back as 200, which `Validate` would have refused.

**Telegram.** `CallInv` bounds the time by the attempts made and says that a text that was
taken is one Telegram accepts: a call cannot end with a permanent error after it.
`TextTheorem` is by induction over the message. The induction theorems of the library take
an operator, which no prover here can instantiate; the module derives one that takes a set
(`SeqInductionSet`) from well-foundedness, and with it what `FlattenSeq` does when a
sequence is appended. So escaping adds the bytes of one symbol at a time, what was escaped is
whole (`EscapeWhole`), and its first bytes are the first symbols escaped (`EscapeBeginning`). If
the text is too long, some symbol crosses the limit; for each kind of symbol the cut is moved
back to where its bytes begin, and no further (`CutResult`).

**Update.** `ProgressInv` is what a command has done by the time it has come so far, down to
the file (of an uninstall: each file it has come to is gone or among those it could not
remove), `SettledInv` looks one boot ahead at the unit files on the disk, `SaidInv`
carries the result until the next command.

**Assumptions.** Of the constants: `MaxAssumption` (`Open` replaces a cap of zero or less),
`BudgetAssumption`, `DurationAssumption`, `DaemonAssumption` and `ReportsAssumption` (a producer's event
has a source, a type and a text, and its source is not `shutdown`, which is reserved), `HealthAssumption` (no cooldown
for the types of health alerts, as in `constants.go`), `PollerAssumption` and
`NamesAssumption` (the event types a poller builds for different severities differ, a fact
about strings the provers do not have), `ParsersAssumption`, `SetupAssumption` (what the decoder makes of any file: arrays, whole numbers
in a health check; `Example` is a file of custom.d; no credentials are empty),
`TelegramAssumption`, `UpdateAssumption`; TLC evaluates all of them.
The theorems about pollers have the hypothesis `NoPollerCooldown`: none of their event types
has a cooldown. It holds for every name in `constants.go` and `config.toml.example`; an owner who wrote
`temperature_WARNING` there would lose `LevelShown`, as its mutant shows.

**Only model-checked.** All liveness (`EveryAlertSettles`, `DropsAnnounced`, `SendReturns`,
`ShutdownCompletes`, `OutageReported`, `MonitorStops`, `LastingLevelReported`,
`DockerReconnects`): fairness and `ENABLED` are beyond the prover. Every invariant and every
other action property that a passing run checks is proved. That the three violated
properties are violated is TLC's finding; a proof has nothing to add to a counterexample.

## 5. Not modelled

* `pidex test` and `pidex-shutdown` send messages with the modelled notifier and keep no
  state; the installation scripts run once, and their result is where `Setup` and `Update`
  begin.
* How a reading is computed from `/proc`, `statfs` and the thermal zone; regular
  expressions; the wire formats of netlink, Docker, Redis and TOML; wording. Where such a
  format decides something (the byte of a link's state, the bytes of a cut text, the form
  of a number), it is modelled by what it does.
* A composition of `Daemon` and `QueueNotifier` in one state space. They meet in `Send`
  only, which `QueueNotifier` shows to return and to keep order, and which is what
  `Daemon` assumes of it; `HealthMonitor` has the restarts, where the two would add to
  each other.
* Of files that are cut off: numbers have up to five digits, the headers of an HTTP check are
  there or not, and the order of keys in a section that is a parameter of the model is left
  open, which allows more files than the encoder makes.
* Loss of power before written data reaches the disk. The queue syncs its file and
  directory; the configuration, the env file, the binaries and the units are not synced,
  and their models take a write that returned as done.

## 6. Plan

*Done:* `Queue`, `QueueNotifier`, `AlertChannel`; `Suppression`, `Daemon`; `HealthMonitor`
and `Diagnosis`; `Poller`; `Telegram`; `Parsers`, `Sources`; `Config`, `Setup`; `Update`; the
proofs above.

*Left:* a bound on how many drops one summary can hide (`EveryDropReported` is violated, by
how much is not stated); the refinement of `AlertChannel` with disk faults, for a channel that
may bring settled alerts back.
