------------------------------ MODULE Update -------------------------------
(***************************************************************************)
(* pidex update and pidex uninstall (cmd/pidex/update.go, units.go,        *)
(* uninstall.go): one command after the other changes the files of an      *)
(* installation, while releases are published, anything it calls may fail, *)
(* and the command or the host may be stopped between any two steps.       *)
(*                                                                         *)
(* A binary or a unit file is the number of the release it is from.  The   *)
(* unit files of a release are compiled into its pidex.                    *)
(***************************************************************************)
EXTENDS Naturals, Sequences

CONSTANTS MaxRelease,   \* releases that are published
          MaxFailures   \* how many calls fail or commands are stopped

ASSUME UpdateAssumption == MaxRelease \in Nat \ {0} /\ MaxFailures \in Nat

Binaries == <<"pidex", "pidex-shutdown">>
Services == <<"pidex.service", "pidex-shutdown.service">>
Units    == {"pidex.service", "pidex-shutdown.service"}
Removed  == Binaries \o Services   \* what uninstall removes, in its order
Releases == 1 .. MaxRelease

None == 0              \* no file
Torn == MaxRelease + 1 \* a file of which only a part was written

VARIABLES
  latest,    \* the latest release on GitHub
  bin,       \* /usr/local/bin, by name
  units,     \* /etc/systemd/system, by name
  loaded,    \* the units systemd has read, by name
  enabled,   \* the units systemd starts by itself
  daemon,    \* the release the daemon runs; None: it does not run
  granted,   \* groups and file modes are as the daemon needs them
  temp,      \* a temporary file of the download: None, Torn or a release
  command,   \* where the command is
  self,      \* the release of the binary that runs the command
  target,    \* rel.TagName
  next,      \* the binary, the service or the file that is next
  written,   \* units written so far
  said,      \* the last line the last command printed
  failures,  \* failures so far
  kept,      \* files the last uninstall could not remove (history)
  undone     \* an update or an uninstall changed files and did not end, or
             \* it ended with files left or units not read (history)

files == <<bin, units, loaded, granted, enabled>>
progress == <<self, target, next, written>>
vars == <<latest, files, daemon, temp, command, progress, said, failures,
          kept, undone>>

All(names, v) == [n \in names |-> v]

Init ==
  /\ latest = 1
  /\ bin = All({Binaries[1], Binaries[2]}, 1)
  /\ units = All(Units, 1)
  /\ loaded = units
  /\ enabled \in SUBSET Units
  /\ daemon \in {None, 1}
  /\ granted \in BOOLEAN
  /\ temp = None
  /\ command = "none"
  /\ self = 1 /\ target = 1 /\ next = 1 /\ written = {}
  /\ said = "nothing"
  /\ failures = 0
  /\ kept = {}
  /\ undone = FALSE

Release ==
  /\ latest < MaxRelease
  /\ latest' = latest + 1
  /\ UNCHANGED <<files, daemon, temp, command, progress, said, failures, undone, kept>>

\* os.Exit: the command ends and says what it says last.
Exit(line) == command' = "none" /\ said' = line

Fail == failures < MaxFailures /\ failures' = failures + 1
-----------------------------------------------------------------------------
(* pidex update. *)

UpdateStart ==
  /\ command = "none"
  /\ bin["pidex"] \in Releases
  /\ command' = "check"
  /\ self' = bin["pidex"]
  /\ said' = "nothing"
  /\ UNCHANGED <<latest, files, daemon, temp, target, next, written, failures, undone, kept>>

\* The latest release is asked for once; its tag is used from here on.
CheckRelease ==
  /\ command = "check"
  /\ \/ /\ latest = self
        /\ Exit("up to date")
        /\ UNCHANGED <<progress, failures>>
     \/ /\ latest # self
        /\ command' = "download"
        /\ target' = latest
        /\ next' = 1
        /\ UNCHANGED <<self, written, said, failures>>
     \/ Fail /\ Exit("failed") /\ UNCHANGED progress
  /\ UNCHANGED <<latest, files, daemon, temp, undone, kept>>

\* downloadBinary: the answer is 200 and the temporary file is there.
CreateTemp ==
  /\ command = "download" /\ next <= Len(Binaries)
  /\ \/ command' = "copy" /\ temp' = Torn /\ UNCHANGED <<said, failures>>
     \/ Fail /\ Exit("failed") /\ temp' = None
  /\ UNCHANGED <<latest, files, daemon, progress, undone, kept>>

\* The same, writing to the binary itself ...
CopyInPlace ==
  /\ command = "copy"
  /\ bin' = [bin EXCEPT ![Binaries[next]] = Torn]
  /\ temp' = target
  /\ command' = "rename"
  /\ UNCHANGED <<latest, units, loaded, granted, enabled, daemon, progress, said, failures, undone, kept>>

\* ... or with the address of the latest release for that of the tag.
CopyLatest ==
  /\ command = "copy"
  /\ command' = "rename" /\ temp' = latest
  /\ UNCHANGED <<latest, files, daemon, progress, said, failures, undone, kept>>

\* The body is copied to it; on an error it is removed ...
CopyBody ==
  /\ command = "copy"
  /\ \/ command' = "rename" /\ temp' = target /\ UNCHANGED <<said, failures>>
     \/ Fail /\ Exit("failed") /\ temp' = None
  /\ UNCHANGED <<latest, files, daemon, progress, undone, kept>>

\* ... and it takes the place of the binary.
Rename ==
  /\ command = "rename"
  /\ \/ /\ bin' = [bin EXCEPT ![Binaries[next]] = temp]
        /\ temp' = None
        /\ next' = next + 1
        /\ command' = IF next = Len(Binaries) THEN "groups" ELSE "download"
        /\ undone' = TRUE
        /\ UNCHANGED <<said, failures>>
     \/ Fail /\ Exit("failed") /\ temp' = None /\ UNCHANGED <<bin, next, undone>>
  /\ UNCHANGED <<latest, units, loaded, granted, enabled, daemon, self, target, written, kept>>

\* ensureGroups and ensureCustomDir: the errors of their commands are ignored.
EnsureGroups ==
  /\ command = "groups"
  /\ \/ granted' = TRUE /\ UNCHANGED failures
     \/ Fail /\ UNCHANGED granted
  /\ command' = "units"
  /\ written' = {}
  /\ UNCHANGED <<latest, bin, units, loaded, enabled, daemon, temp,
                 self, target, next, said, undone, kept>>

\* installUnits, in the order of a map: any.  WriteFile empties the file, then
\* writes it.
TruncateUnit(u) ==
  /\ command = "units" /\ u \notin written
  /\ \/ units' = [units EXCEPT ![u] = Torn] /\ command' = u /\ UNCHANGED <<said, failures>>
     \/ Fail /\ Exit("failed") /\ UNCHANGED units
  /\ UNCHANGED <<latest, bin, loaded, granted, enabled, daemon, temp, progress, undone, kept>>

WriteUnit(u) ==
  /\ command = u
  /\ \/ /\ units' = [units EXCEPT ![u] = self]
        /\ command' = "units"
        /\ written' = written \union {u}
        /\ UNCHANGED <<said, failures>>
     \/ Fail /\ Exit("failed") /\ UNCHANGED <<units, written>>
  /\ UNCHANGED <<latest, bin, loaded, granted, enabled, daemon, temp, self, target, next, undone, kept>>

DaemonReload ==
  /\ command = "units" /\ written = Units
  /\ \/ loaded' = units /\ command' = "restart" /\ UNCHANGED <<said, failures>>
     \/ Fail /\ Exit("failed") /\ UNCHANGED loaded
  /\ UNCHANGED <<latest, bin, units, granted, enabled, daemon, temp, progress, undone, kept>>

\* systemctl restart: the unit systemd has read starts the binary in place.
RestartDaemon ==
  /\ command = "restart"
  /\ \/ /\ daemon' = bin["pidex"]
        /\ Exit("updated")
        /\ undone' = FALSE
        /\ UNCHANGED failures
     \/ Fail /\ Exit("failed") /\ daemon' \in {daemon, None} /\ UNCHANGED undone
  /\ UNCHANGED <<latest, files, temp, progress, kept>>
-----------------------------------------------------------------------------
(* pidex uninstall: every error is ignored. *)

UninstallStart ==
  /\ command = "none"
  /\ bin["pidex"] \in Releases
  /\ command' = "disable"
  /\ self' = bin["pidex"]
  /\ next' = 1
  /\ said' = "nothing"
  /\ kept' = {}
  /\ UNCHANGED <<latest, files, daemon, temp, target, written, failures, undone>>

\* systemctl disable --now: neither, only the first or both are done.
Disable ==
  /\ command = "disable"
  /\ LET stopped == IF Services[next] = "pidex.service" THEN None ELSE daemon
     IN  \/ /\ enabled' = enabled \ {Services[next]}
            /\ daemon' = stopped
            /\ UNCHANGED failures
         \/ /\ Fail
            /\ enabled' \in {enabled, enabled \ {Services[next]}}
            /\ UNCHANGED daemon
  /\ IF next = Len(Services)
       THEN command' = "remove" /\ next' = 1
       ELSE next' = next + 1 /\ UNCHANGED command
  /\ UNCHANGED <<latest, bin, units, loaded, granted, temp,
                 self, target, written, said, kept, undone>>

\* os.Remove of one file.
RemoveFile ==
  /\ command = "remove"
  /\ LET file == Removed[next]
     IN  \/ /\ bin' = [b \in DOMAIN bin |-> IF b = file THEN None ELSE bin[b]]
            /\ units' = [u \in Units |-> IF u = file THEN None ELSE units[u]]
            /\ undone' = TRUE
            /\ UNCHANGED <<kept, failures>>
         \/ /\ Fail
            /\ kept' = kept \union {file}
            /\ UNCHANGED <<bin, units, undone>>
  /\ next' = next + 1
  /\ command' = IF next = Len(Removed) THEN "forget" ELSE "remove"
  /\ UNCHANGED <<latest, loaded, granted, enabled, daemon, temp,
                 self, target, written, said>>

\* The user pidex, with its groups, is removed if the owner says so.  (The same
\* question for /etc/pidex: configuration and queue are not part of this model.)
Uninstalled ==
  /\ command = "forget"
  /\ granted' \in {granted, FALSE}
  /\ \/ loaded' = units /\ UNCHANGED failures
     \/ Fail /\ UNCHANGED loaded
  /\ undone' = (undone /\ (kept # {} \/ loaded' # units))
  /\ Exit("uninstalled")
  /\ UNCHANGED <<latest, bin, units, enabled, daemon, temp, progress, kept>>
-----------------------------------------------------------------------------
(* The command is interrupted; the host goes down, and systemd reads the     *)
(* units and starts the daemon if it can.                                    *)
Interrupt ==
  /\ command # "none"
  /\ Fail
  /\ Exit("nothing")
  /\ UNCHANGED <<latest, files, daemon, temp, progress, kept, undone>>

Startable(read) == read["pidex.service"] \in Releases /\ bin["pidex"] \in Releases

Reboot ==
  /\ IF command = "none" THEN UNCHANGED failures ELSE Fail
  /\ Exit("nothing")
  /\ loaded' = units
  /\ daemon' = IF "pidex.service" \in enabled /\ Startable(units)
                 THEN bin["pidex"] ELSE None
  /\ UNCHANGED <<latest, bin, units, granted, enabled, temp, progress, kept, undone>>

Next ==
  \/ Release
  \/ UpdateStart \/ CheckRelease \/ CreateTemp \/ CopyBody \/ Rename
  \/ EnsureGroups
  \/ \E u \in Units : TruncateUnit(u) \/ WriteUnit(u)
  \/ DaemonReload \/ RestartDaemon
  \/ UninstallStart \/ Disable \/ RemoveFile \/ Uninstalled
  \/ Interrupt \/ Reboot

Spec == Init /\ [][Next]_vars
-----------------------------------------------------------------------------
(* When the update says that it updated, both binaries and the daemon are of *)
(* one release, the one it had found, whatever was published meanwhile, and  *)
(* the unit files are whole, of one release (that whose binary ran the       *)
(* update), and those systemd has read.  When pidex says it is up to date,   *)
(* that is true of pidex; of the other binary and the units only if no       *)
(* command was left undone.  When it says that it is uninstalled, a file     *)
(* that is still there is one whose removal failed, none that it did not     *)
(* come to.                                                                  *)
SaysWhatItDid ==
  /\ said = "updated" =>
       /\ bin = All(DOMAIN bin, target)
       /\ daemon = target
       /\ self # target
       /\ loaded = units
       /\ \E r \in Releases : units = All(Units, r)
  /\ said = "up to date" =>
       /\ bin["pidex"] = self
       /\ ~ undone => bin = All(DOMAIN bin, self) /\ Startable(loaded)
  /\ said = "uninstalled" =>
       /\ \A b \in DOMAIN bin : bin[b] # None => b \in kept
       /\ \A u \in Units : units[u] # None => u \in kept

(* At any moment, wherever a command failed or was stopped, a binary in      *)
(* /usr/local/bin is a whole one of a release.  That the two are not of the  *)
(* same release, that one is there without the other, or that a unit file is *)
(* missing or not whole (and the daemon not started at the next boot), is    *)
(* left only by an update or an uninstall that did not end, or by an         *)
(* uninstall that could not remove every file or reload systemd.             *)
WholeUnlessUndone ==
  /\ \A b \in DOMAIN bin : bin[b] \in Releases \union {None}
  /\ ~ undone =>
       /\ bin["pidex"] = bin["pidex-shutdown"]
       /\ \A u \in Units : units[u] # Torn /\ loaded[u] # Torn
       /\ bin["pidex"] # None => Startable(loaded)

=============================================================================
