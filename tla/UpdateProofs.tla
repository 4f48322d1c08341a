--------------------------- MODULE UpdateProofs ----------------------------
(***************************************************************************)
(* Proofs about Update, for any number of releases and of failures: what   *)
(* pidex update and pidex uninstall say they did is done, and what a       *)
(* failed, interrupted or killed command may leave behind.                 *)
(*                                                                         *)
(* The inductive invariant has four parts: the types, what a command has   *)
(* done by the time it has come so far (ProgressInv), what holds whenever  *)
(* no command is left half done (SettledInv), and what the last command    *)
(* said (SaidInv).  SettledInv looks one boot ahead: it asks of the unit   *)
(* files on the disk what WholeUnlessUndone asks of those systemd has read. *)
(***************************************************************************)
EXTENDS Update, TLAPS

Names == {"pidex", "pidex-shutdown"}

\* Where an update is once it has downloaded everything.
Installing == {"groups", "units", "restart"} \union Units

Commands == {"none", "check", "download", "copy", "rename",
             "disable", "remove", "forget"} \union Installing

Versions == Releases \union {None, Torn}

Typed ==
  /\ latest \in Releases
  /\ bin \in [Names -> Releases \union {None}]
  /\ units \in [Units -> Versions]
  /\ loaded \in [Units -> Versions]
  /\ command \in Commands
  /\ self \in Releases /\ target \in Releases
  /\ next \in 1 .. 5
  /\ written \subseteq Units
  /\ undone \in BOOLEAN

\* A file is there no more, or it could not be removed.
BinGone(b)  == bin[b] # None => b \in kept
UnitGone(u) == units[u] # None => u \in kept

\* What a command that has come so far has done, and what it has left.
ProgressInv ==
  /\ command = "check" => bin["pidex"] = self
  /\ command \in {"download", "copy", "rename"} =>
       /\ target # self
       /\ next = 1 \/ (next = 2 /\ bin["pidex"] = target /\ undone)
  /\ command = "rename" => temp = target
  /\ command \in Installing =>
       /\ target # self
       /\ bin["pidex"] = target /\ bin["pidex-shutdown"] = target
       /\ undone
  /\ command \in {"units"} \union Units => \A u \in written : units[u] = self
  /\ command = "restart" => \A u \in Units : units[u] = self /\ loaded[u] = self
  /\ command = "disable" => next \in {1, 2}
  /\ command = "remove" =>
       /\ next \in 1 .. 4
       /\ next > 1 => BinGone("pidex")
       /\ next > 2 => BinGone("pidex-shutdown")
       /\ next > 3 => UnitGone("pidex.service")
  /\ command = "forget" =>
       /\ \A b \in Names : BinGone(b)
       /\ \A u \in Units : UnitGone(u)

\* What every command that ended, and every one that failed before it changed
\* a file, leaves: the next boot, which reads the units again, included.
SettledInv ==
  ~ undone =>
    /\ bin["pidex"] = bin["pidex-shutdown"]
    /\ \A u \in Units : units[u] # Torn /\ loaded[u] # Torn
    /\ bin["pidex"] # None => Startable(loaded) /\ Startable(units)

\* A command in progress has not said anything yet, and nothing but the next
\* command or a boot changes what the last one spoke of.
SaidInv ==
  /\ command # "none" => said = "nothing"
  /\ said = "updated" =>
       /\ \A b \in Names : bin[b] = target
       /\ daemon = target
       /\ \A u \in Units : units[u] = self /\ loaded[u] = self
       /\ self # target
  /\ said = "up to date" => bin["pidex"] = self
  /\ said = "uninstalled" =>
       /\ \A b \in Names : BinGone(b)
       /\ \A u \in Units : UnitGone(u)

IInv == Typed /\ ProgressInv /\ SettledInv /\ SaidInv
-----------------------------------------------------------------------------
(* The names of the binaries; a missing or torn file is of no release. *)
LEMMA Constants ==
  /\ Binaries[1] = "pidex" /\ Binaries[2] = "pidex-shutdown" /\ Len(Binaries) = 2
  /\ Services[1] = "pidex.service" /\ Services[2] = "pidex-shutdown.service"
  /\ Len(Services) = 2 /\ Len(Removed) = 4
  /\ Removed[1] = "pidex" /\ Removed[2] = "pidex-shutdown"
  /\ Removed[3] = "pidex.service" /\ Removed[4] = "pidex-shutdown.service"
  /\ None \notin Releases /\ Torn \notin Releases /\ None # Torn
  /\ 1 \in Releases
  BY UpdateAssumption DEF Binaries, Services, Removed, None, Torn, Releases

(* In /usr/local/bin there are whole binaries or none: a download is renamed
   over a binary only when it is complete. *)
LEMMA TypedStep ==
  ASSUME IInv, [Next]_vars
  PROVE  Typed'
<1> USE UpdateAssumption, Constants
    DEF IInv, Exit, Fail, files, progress, All, Units, Names, Installing,
    Commands, Versions, Typed, BinGone, UnitGone, ProgressInv
<1>1. CASE Release
  BY <1>1 DEF Release, Releases
<1>2. CASE UpdateStart
  BY <1>2 DEF UpdateStart
<1>3. CASE CheckRelease
  <2>1. UNCHANGED <<latest, bin, units, loaded, self, written, undone>>
    BY <1>3 DEF CheckRelease
  <2>2. target' \in {target, latest} /\ next' \in {next, 1} /\ command' \in {"none", "download"}
    BY <1>3 DEF CheckRelease
  <2> QED
    BY <2>1, <2>2
<1>4. CASE CreateTemp
  BY <1>4 DEF CreateTemp
<1>5. CASE CopyBody
  BY <1>5 DEF CopyBody
<1>6. CASE Rename
  <2>1. next \in {1, 2} /\ temp = target /\ Binaries[next] \in Names
    BY <1>6 DEF Rename
  <2>2. /\ bin' = bin \/ bin' = [bin EXCEPT ![Binaries[next]] = target]
        /\ next' = next \/ next' = next + 1
        /\ command' \in {"none", "groups", "download"}
        /\ undone' \in {TRUE, undone}
        /\ UNCHANGED <<latest, units, loaded, self, target, written>>
    BY <1>6, <2>1 DEF Rename
  <2>3. bin' \in [Names -> Releases \union {None}] /\ next' \in 1 .. 5
    BY <2>1, <2>2
  <2> QED
    BY <2>2, <2>3
<1>7. CASE EnsureGroups
  BY <1>7 DEF EnsureGroups
<1>8. CASE DaemonReload
  BY <1>8 DEF DaemonReload
<1>9. CASE RestartDaemon
  BY <1>9 DEF RestartDaemon
<1>10. CASE UninstallStart
  BY <1>10 DEF UninstallStart
<1>11. CASE Disable
  BY <1>11 DEF Disable
<1>12. CASE RemoveFile
  <2>1. next \in 1 .. 4
    BY <1>12 DEF RemoveFile
  <2>2. bin' \in [Names -> Releases \union {None}] /\ units' \in [Units -> Versions]
    BY <1>12 DEF RemoveFile
  <2>3. next' = next + 1 /\ command' \in {"forget", "remove"} /\ undone' \in BOOLEAN
    BY <1>12 DEF RemoveFile
  <2> QED
    BY <1>12, <2>1, <2>2, <2>3 DEF RemoveFile
<1>13. CASE Uninstalled
  BY <1>13 DEF Uninstalled
<1>14. CASE Interrupt
  BY <1>14 DEF Interrupt
<1>15. CASE Reboot
  BY <1>15 DEF Reboot
<1>16. ASSUME NEW u \in Units, TruncateUnit(u)
      PROVE  Typed'
  BY <1>16 DEF TruncateUnit
<1>17. ASSUME NEW u \in Units, WriteUnit(u)
      PROVE  Typed'
  <2>1. /\ units' = units \/ units' = [units EXCEPT ![u] = self]
        /\ written' = written \/ written' = written \union {u}
        /\ command' \in {"none", "units"}
        /\ UNCHANGED <<latest, bin, loaded, self, target, next, undone>>
    BY <1>17 DEF WriteUnit
  <2>2. units \in [Units -> Versions] /\ self \in Versions
    OBVIOUS
  <2> HIDE DEF Units, Versions
  <2>3. units' \in [Units -> Versions]
    BY <2>1, <2>2
  <2>4. written' \subseteq Units
    BY <2>1
  <2> QED
    BY <2>1, <2>3, <2>4 DEF Units, Versions
<1>18. CASE UNCHANGED vars
  BY <1>18 DEF vars
<1> QED
  BY <1>1, <1>2, <1>3, <1>4, <1>5, <1>6, <1>7, <1>8, <1>9, <1>10, <1>11, <1>12,
     <1>13, <1>14, <1>15, <1>16, <1>17, <1>18 DEF Next

(* Each step of an update rests on what the steps before it have done: the
   temporary file is of the tag asked for at the start, both binaries are of
   it once the download is over, and systemd reads units that pidex wrote. *)
LEMMA ProgressStep ==
  ASSUME IInv, [Next]_vars
  PROVE  ProgressInv'
<1> USE UpdateAssumption, Constants
    DEF IInv, Exit, Fail, files, progress, All, Units, Names, Installing,
    Commands, Versions, Typed, BinGone, UnitGone, ProgressInv
<1>1. CASE Release
  BY <1>1 DEF Release, Releases
<1>2. CASE UpdateStart
  BY <1>2 DEF UpdateStart
<1>3. CASE CheckRelease
  BY <1>3 DEF CheckRelease
<1>4. CASE CreateTemp
  BY <1>4 DEF CreateTemp
<1>5. CASE CopyBody
  BY <1>5 DEF CopyBody
<1>6. CASE Rename
  BY <1>6 DEF Rename
<1>7. CASE EnsureGroups
  BY <1>7 DEF EnsureGroups
<1>8. CASE DaemonReload
  BY <1>8 DEF DaemonReload
<1>9. CASE RestartDaemon
  BY <1>9 DEF RestartDaemon
<1>10. CASE UninstallStart
  BY <1>10 DEF UninstallStart
<1>11. CASE Disable
  BY <1>11 DEF Disable
<1>12. CASE RemoveFile
  BY <1>12 DEF RemoveFile
<1>13. CASE Uninstalled
  BY <1>13 DEF Uninstalled
<1>14. CASE Interrupt
  BY <1>14 DEF Interrupt
<1>15. CASE Reboot
  BY <1>15 DEF Reboot
<1>16. ASSUME NEW u \in Units, TruncateUnit(u)
      PROVE  ProgressInv'
  BY <1>16 DEF TruncateUnit
<1>17. ASSUME NEW u \in Units, WriteUnit(u)
      PROVE  ProgressInv'
  <2>1. \/ command' = "none"
        \/ /\ command = u
           /\ units' = [units EXCEPT ![u] = self]
           /\ written' = written \union {u}
           /\ command' = "units"
           /\ UNCHANGED <<bin, self, target, undone>>
    BY <1>17 DEF WriteUnit
  <2>2. CASE command' = "units"
    <3>1. /\ target # self /\ undone
          /\ bin["pidex"] = target /\ bin["pidex-shutdown"] = target
          /\ \A w \in written : units[w] = self
      BY <2>1, <2>2
    <3>2. units'[u] = self /\ \A w \in Units : w # u => units'[w] = units[w]
      BY <2>1, <2>2
    <3>3. \A w \in written' : units'[w] = self'
      <4>1. written \subseteq Units
        OBVIOUS
      <4>2. written' = written \union {u} /\ self' = self
        BY <2>1, <2>2
      <4> HIDE DEF Units
      <4> QED
        BY <3>1, <3>2, <4>1, <4>2
    <3> QED
      BY <2>1, <2>2, <3>1, <3>3
  <2> QED
    BY <2>1, <2>2
<1>18. CASE UNCHANGED vars
  BY <1>18 DEF vars
<1> QED
  BY <1>1, <1>2, <1>3, <1>4, <1>5, <1>6, <1>7, <1>8, <1>9, <1>10, <1>11, <1>12,
     <1>13, <1>14, <1>15, <1>16, <1>17, <1>18 DEF Next

(* Only the renaming of a binary begins an update that is left undone, and
   only the restart at its end ends it; an uninstall is begun by the first
   file it removes, and ended when none is left.  What fails, is interrupted
   or goes down before or after leaves binaries and units that fit. *)
LEMMA SettledStep ==
  ASSUME IInv, [Next]_vars
  PROVE  SettledInv'
<1> USE UpdateAssumption, Constants
    DEF IInv, Exit, Fail, files, progress, All, Units, Names, Installing,
    Commands, Versions, Typed, BinGone, UnitGone, ProgressInv, SettledInv, Startable
<1>1. CASE Release
  BY <1>1 DEF Release, Releases
<1>2. CASE UpdateStart
  BY <1>2 DEF UpdateStart
<1>3. CASE CheckRelease
  BY <1>3 DEF CheckRelease
<1>4. CASE CreateTemp
  BY <1>4 DEF CreateTemp
<1>5. CASE CopyBody
  BY <1>5 DEF CopyBody
<1>6. CASE Rename
  BY <1>6 DEF Rename
<1>7. CASE EnsureGroups
  BY <1>7 DEF EnsureGroups
<1>8. CASE DaemonReload
  BY <1>8 DEF DaemonReload
<1>9. CASE RestartDaemon
  BY <1>9 DEF RestartDaemon
<1>10. CASE UninstallStart
  BY <1>10 DEF UninstallStart
<1>11. CASE Disable
  BY <1>11 DEF Disable
<1>12. CASE RemoveFile
  BY <1>12 DEF RemoveFile
<1>13. CASE Uninstalled
  BY <1>13 DEF Uninstalled
<1>14. CASE Interrupt
  BY <1>14 DEF Interrupt
<1>15. CASE Reboot
  BY <1>15 DEF Reboot
<1>16. ASSUME NEW u \in Units, TruncateUnit(u)
      PROVE  SettledInv'
  BY <1>16 DEF TruncateUnit
<1>17. ASSUME NEW u \in Units, WriteUnit(u)
      PROVE  SettledInv'
  BY <1>17 DEF WriteUnit
<1>18. CASE UNCHANGED vars
  BY <1>18 DEF vars
<1> QED
  BY <1>1, <1>2, <1>3, <1>4, <1>5, <1>6, <1>7, <1>8, <1>9, <1>10, <1>11, <1>12,
     <1>13, <1>14, <1>15, <1>16, <1>17, <1>18 DEF Next

(* What a command prints as its last line is so, and stays so until the next
   command or boot: a release published meanwhile does not change it. *)
LEMMA SaidStep ==
  ASSUME IInv, [Next]_vars
  PROVE  SaidInv'
<1> USE UpdateAssumption, Constants
    DEF IInv, Exit, Fail, files, progress, All, Units, Names, Installing,
    Commands, Versions, Typed, BinGone, UnitGone, ProgressInv, SettledInv, Startable, SaidInv
<1>1. CASE Release
  BY <1>1 DEF Release, Releases
<1>2. CASE UpdateStart
  BY <1>2 DEF UpdateStart
<1>3. CASE CheckRelease
  BY <1>3 DEF CheckRelease
<1>4. CASE CreateTemp
  BY <1>4 DEF CreateTemp
<1>5. CASE CopyBody
  BY <1>5 DEF CopyBody
<1>6. CASE Rename
  BY <1>6 DEF Rename
<1>7. CASE EnsureGroups
  BY <1>7 DEF EnsureGroups
<1>8. CASE DaemonReload
  BY <1>8 DEF DaemonReload
<1>9. CASE RestartDaemon
  BY <1>9 DEF RestartDaemon
<1>10. CASE UninstallStart
  BY <1>10 DEF UninstallStart
<1>11. CASE Disable
  BY <1>11 DEF Disable
<1>12. CASE RemoveFile
  BY <1>12 DEF RemoveFile
<1>13. CASE Uninstalled
  BY <1>13 DEF Uninstalled
<1>14. CASE Interrupt
  BY <1>14 DEF Interrupt
<1>15. CASE Reboot
  BY <1>15 DEF Reboot
<1>16. ASSUME NEW u \in Units, TruncateUnit(u)
      PROVE  SaidInv'
  BY <1>16 DEF TruncateUnit
<1>17. ASSUME NEW u \in Units, WriteUnit(u)
      PROVE  SaidInv'
  BY <1>17 DEF WriteUnit
<1>18. CASE UNCHANGED vars
  BY <1>18 DEF vars
<1> QED
  BY <1>1, <1>2, <1>3, <1>4, <1>5, <1>6, <1>7, <1>8, <1>9, <1>10, <1>11, <1>12,
     <1>13, <1>14, <1>15, <1>16, <1>17, <1>18 DEF Next

(* Everything in IInv holds of the installation the command starts from.     *)
LEMMA InitInv ==
  ASSUME Init
  PROVE  IInv
<1> USE UpdateAssumption, Constants DEF Init, All, Units, Names, Commands, Installing
<1>1. /\ bin \in [Names -> Releases \union {None}]
      /\ units \in [Units -> Versions] /\ loaded \in [Units -> Versions]
  BY DEF Versions
<1>2. latest \in Releases /\ self \in Releases /\ target \in Releases
  OBVIOUS
<1>3. command \in Commands /\ next \in 1 .. 5 /\ written = {} /\ undone = FALSE
  OBVIOUS
<1>4. Typed
  BY <1>1, <1>2, <1>3 DEF Typed
<1>5. ProgressInv
  BY DEF ProgressInv
<1>6. SettledInv
  BY DEF SettledInv, Startable
<1>7. SaidInv
  BY DEF SaidInv
<1> QED
  BY <1>4, <1>5, <1>6, <1>7 DEF IInv

(* All of it holds at every step of every command. *)
LEMMA Invariant ==
  Spec => []IInv
<1>1. IInv /\ [Next]_vars => IInv'
  BY TypedStep, ProgressStep, SettledStep, SaidStep DEF IInv
<1> QED
  BY <1>1, InitInv, PTL DEF Spec

(* "updated" means both binaries and the daemon are of the release found at   *)
(* the start, with whole units systemd has read; "up to date" is true of      *)
(* pidex; after "uninstalled" only what could not be removed is left          *)
(* (cmdUpdate, cmdUninstall).                                                 *)
THEOREM SaysTheorem ==
  Spec => []SaysWhatItDid
<1>1. IInv => SaysWhatItDid
  <2> SUFFICES ASSUME IInv
               PROVE  SaysWhatItDid
    OBVIOUS
  <2>1. \A v : (\A b \in Names : bin[b] = v) => bin = All(DOMAIN bin, v)
    BY DEF IInv, Typed, All
  <2>2. \A v : /\ (\A u \in Units : units[u] = v) => units = All(Units, v)
               /\ (\A u \in Units : loaded[u] = v) => loaded = All(Units, v)
    BY DEF IInv, Typed, All
  <2>3. CASE said = "updated"
    <3>1. /\ \A b \in Names : bin[b] = target
          /\ \A u \in Units : units[u] = self /\ loaded[u] = self
          /\ daemon = target /\ self # target /\ self \in Releases
      BY <2>3 DEF IInv, Typed, SaidInv
    <3>2. /\ bin = All(DOMAIN bin, target)
          /\ units = All(Units, self) /\ loaded = units
      BY <2>1, <2>2, <3>1
    <3> QED
      BY <2>3, <3>1, <3>2 DEF SaysWhatItDid
  <2>4. CASE said = "up to date"
    <3>1. bin["pidex"] = self /\ self # None
      BY <2>4, Constants DEF IInv, Typed, SaidInv
    <3>2. ~ undone => (\A b \in Names : bin[b] = self) /\ Startable(loaded)
      BY <3>1 DEF IInv, SettledInv, Names
    <3> QED
      BY <2>1, <2>4, <3>1, <3>2 DEF SaysWhatItDid
  <2>5. CASE said = "uninstalled"
    <3>1. DOMAIN bin = Names
      BY DEF IInv, Typed
    <3> QED
      BY <2>5, <3>1 DEF IInv, SaidInv, BinGone, UnitGone, SaysWhatItDid
  <2> QED
    BY <2>3, <2>4, <2>5 DEF SaysWhatItDid
<1> QED
  BY <1>1, Invariant, PTL

(* No failure, interruption or loss of power leaves a part of a binary, and   *)
(* what else it may leave is left only by a command that did not end or could *)
(* not remove a file (downloadBinary, installUnits, cmdUninstall).            *)
THEOREM WholeTheorem ==
  Spec => []WholeUnlessUndone
<1>1. IInv => WholeUnlessUndone
  BY DEF IInv, Typed, SettledInv, WholeUnlessUndone
<1> QED
  BY <1>1, Invariant, PTL
=============================================================================
