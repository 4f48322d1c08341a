------------------------------- MODULE Setup --------------------------------
(***************************************************************************)
(* The setup wizard, cmd/pidex/setup.go and setup_health.go, with the file *)
(* system it edits and the daemon that is started on what it finds there.  *)
(* The wizard loads the configuration once, changes it in memory, and      *)
(* rewrites the whole file after every dialog: truncate, write, and then   *)
(* remove what the dialog consumed.  Each of these steps may fail, and the *)
(* wizard or the machine may die between them.  The owner may write        *)
(* config.toml by hand at any time, also while the wizard is open.         *)
(*                                                                         *)
(* Two places are told apart: /etc/pidex, where the daemon looks, and the  *)
(* ./config of the wizard's directory.  A dialog is one step: the answers  *)
(* are chosen before it saves.  Viewing and test messages change nothing.  *)
(***************************************************************************)
EXTENDS Config

CONSTANTS HandWritten,     \* files an owner or the installer may have written
          Found,           \* what there is of them in the two places at first
          Creds,           \* well-formed credentials
          Numerals,        \* numbers typed in
          Patterns,        \* watch lists typed in
          Cooldowns,       \* default cooldowns by event type
          CheckAnswers,    \* answers in a health check dialog, by field
          Content,         \* services defined by the files of custom.d
          MaxEdits, MaxFaults   \* bounds: dialogs, and faults or hand edits

Places == {"etc", "local"}
Example == "pidex.conf"              \* ensureCustomDir puts it back
Reserved == {"ssh", "systemd", "daemon"}

ASSUME SetupAssumption ==
  /\ Example \in DOMAIN Content
  /\ {"", "env"} \intersect DOMAIN Content = {}   \* their names end in .conf
  /\ Found \subseteq [Places -> HandWritten]
  /\ \A f \in HandWritten : f.is \in {"absent", "broken", "toml"} /\ Decoded(f.data)
  /\ "" \notin Creds
  /\ \A a \in CheckAnswers : \A n \in Numbers \intersect DOMAIN a : a[n] \in Int
  /\ {MaxEdits, MaxFaults} \subseteq Nat

VARIABLES
  file,       \* config.toml of each place
  env,        \* the credentials in the env file next to it
  staged,     \* the files in custom.d next to it
  pc,         \* the wizard: off, at its menu, or in one of the steps of a save
  place,      \* the place the wizard writes to
  cfg,        \* its configuration
  consumed,   \* what is removed after the save: "", "env" or a file of custom.d
  edits, faults,
  readable,   \* the daemon, which is not root, may read /etc/pidex/config.toml
  created,    \* the save creates /etc/pidex/config.toml
  \* History, read by the properties only:
  saved,      \* the wizard's last save succeeded and the file is still that one
  legal       \* no file written by hand has had an invalid health check, and no
              \* write was cut off inside one

disk == <<file, env, staged, readable>>
vars == <<file, env, staged, readable, pc, place, cfg, consumed, created, edits, faults, saved, legal>>

HasValidChecks(f) == ValidateHealthChecks(readConfig(f, "").checks)

Init ==
  /\ file \in Found
  /\ env \in [Places -> {""}] \union [etc : Creds, local : {""}]
  /\ staged = [p \in Places |-> IF p = "etc" THEN DOMAIN Content ELSE {}]
  /\ pc = "off" /\ place = "etc" /\ cfg = DefaultConfig /\ consumed = ""
  /\ edits = 0 /\ faults = 0 /\ saved = FALSE
  /\ readable = TRUE /\ created = FALSE
  /\ legal = \A p \in Places : HasValidChecks(file[p])
-----------------------------------------------------------------------------
(* Starting and ending. *)

\* resolvePaths looks at /etc first, LoadConfig at the working directory.
resolvePaths ==
  IF file["etc"].is = "absent" /\ file["local"].is # "absent" THEN "local" ELSE "etc"

\* pidex setup.  sudo hands no credentials to its environment.
Start ==
  /\ pc = "off"
  /\ pc' = "menu"
  /\ place' = resolvePaths
  /\ cfg' = LoadConfig(<<file["local"], file["etc"]>>, "")
  /\ staged' = [staged EXCEPT ![resolvePaths] = @ \union {Example}]
  /\ saved' = FALSE
  /\ UNCHANGED <<file, env, readable, consumed, created, edits, faults, legal>>

\* A write is cut off: nothing of the configuration is in the file, or some of
\* it, in a form that parses or not.
CutWrite ==
  \/ /\ file' \in {[file EXCEPT ![place] = Broken], file}
     /\ legal' = legal
  \/ \E t \in CutOff(ConfigToMap(cfg)) :
       /\ file' = [file EXCEPT ![place] = Toml(t)]
       /\ legal' = (legal /\ IsPrefix(t.health_checks, ConfigToMap(cfg).health_checks))

\* Exit, or an end at any point: ^C, a lost connection, a power failure.
End ==
  /\ pc # "off"
  /\ faults' = IF pc = "menu" THEN faults ELSE faults + 1
  /\ faults' <= MaxFaults
  /\ pc' = "off" /\ consumed' = "" /\ created' = FALSE /\ saved' = FALSE
  /\ cfg' = DefaultConfig /\ place' = "etc"
  /\ IF pc = "write" THEN CutWrite ELSE UNCHANGED <<file, legal>>
  /\ UNCHANGED <<env, staged, readable, edits>>

\* An editor keeps the mode of the file or gives it one that all can read.
HandEdit ==
  /\ faults < MaxFaults
  /\ faults' = faults + 1
  /\ \E f \in HandWritten \ {Absent} :
       /\ file' = [file EXCEPT !["etc"] = f]
       /\ legal' = (legal /\ HasValidChecks(f))
  /\ readable' \in {readable, TRUE}
  /\ saved' = FALSE
  /\ UNCHANGED <<env, staged, pc, place, cfg, consumed, created, edits>>
-----------------------------------------------------------------------------
(* The dialogs.  Each ends in saveConfig(newCfg), and then removes c. *)

Dialog == pc = "menu" /\ edits < MaxEdits /\ edits' = edits + 1

SaveThen(newCfg, c) ==
  /\ cfg' = newCfg
  /\ consumed' = c
  /\ pc' = "open"
  /\ saved' = FALSE
  /\ UNCHANGED <<disk, place, created, faults, legal>>

Save(newCfg) == SaveThen(newCfg, "")

\* fieldBool and setFieldBool know MonitorSSH, MonitorCPU and MonitorRAM; the
\* dialog asks for MonitorSsh, MonitorCpu and MonitorRam.
Known(k) == k \notin {"ssh", "cpu", "ram"}

\* The numbers or switches m, with the answers a on some of its keys.
Answered(m, a) == [k \in DOMAIN m |-> IF k \in DOMAIN a THEN a[k] ELSE m[k]]

setMonitor ==
  /\ Dialog
  /\ \E K \in SUBSET Toggles : \E a \in [{k \in K : Known(k)} -> BOOLEAN] :
       Save([cfg EXCEPT !.monitor = Answered(@, a)])

\* Any number is taken, zero and negative ones too.
setIntervals ==
  /\ Dialog
  /\ \E K \in SUBSET Intervals : \E a \in [K -> Numerals] :
       Save([cfg EXCEPT !.interval = Answered(@, a)])

setThresholds ==
  /\ Dialog
  /\ \E K \in SUBSET Thresholds : \E a \in [K -> Numerals] :
       Save([cfg EXCEPT !.threshold = Answered(@, a)])

setWatchLists ==
  /\ Dialog
  /\ \E K \in SUBSET Lists : \E a \in [K -> Patterns] :
       Save([cfg EXCEPT !.watch = Answered(@, a)])

\* An answer that is the default removes the override.  Overrides of other
\* types, from the file, stay.
setCooldowns ==
  /\ Dialog
  /\ \E K \in SUBSET DOMAIN Cooldowns : \E a \in [K -> Numerals] :
       LET Default == {k \in K : a[k] = Cooldowns[k]} IN
       Save([cfg EXCEPT !.cooldown =
               [k \in (DOMAIN @ \union K) \ Default |-> IF k \in K THEN a[k] ELSE @[k]]])

resetDefaults == Dialog /\ SaveThen(DefaultConfig, "env")

\* Those typed in, or the ones there are, must be well formed.  The env file is
\* written over in place; a write that fails leaves it empty.  config.toml is
\* not touched.
setCredentials ==
  /\ Dialog
  /\ \E new \in Creds :
       \/ /\ env' = [env EXCEPT ![place] = new]
          /\ cfg' = [cfg EXCEPT !.creds = new]
          /\ faults' = faults
       \/ /\ faults < MaxFaults /\ faults' = faults + 1
          /\ env' \in {env, [env EXCEPT ![place] = ""]}
          /\ cfg' = cfg
  /\ UNCHANGED <<file, staged, readable, pc, place, consumed, created, saved, legal>>
-----------------------------------------------------------------------------
(* Custom services. *)

Registrable(svc, unitExists) ==
  /\ svc.name # "" /\ svc.events # {} /\ svc.valid
  /\ unitExists
  /\ svc.name \notin Reserved

\* The list of services with svc in the place of the one of its name, or added.
WithService(services, svc) ==
  LET Same == {i \in DOMAIN services : services[i].name = svc.name} IN
  IF Same = {} THEN Append(services, svc)
  ELSE [services EXCEPT ![CHOOSE i \in Same : \A j \in Same : i <= j] = svc]

\* The files the menu offers to choose from.
Listed == staged[place]

\* Register.  The file is removed whether or not the save succeeds.
registerService ==
  /\ Dialog
  /\ \E f \in Listed, unitExists \in BOOLEAN :
       /\ Registrable(Content[f], unitExists)
       /\ SaveThen([cfg EXCEPT !.services = WithService(@, Content[f])], f)

deleteStaged ==
  /\ Dialog
  /\ \E f \in Listed : staged' = [staged EXCEPT ![place] = @ \ {f}]
  /\ UNCHANGED <<file, env, readable, pc, place, cfg, consumed, created, faults, saved, legal>>

\* Entering the menu of the services puts the example back.
ensureCustomDir ==
  /\ pc = "menu" /\ Example \notin staged[place]
  /\ staged' = [staged EXCEPT ![place] = @ \union {Example}]
  /\ UNCHANGED <<file, env, readable, pc, place, cfg, consumed, created, edits, faults, saved, legal>>
-----------------------------------------------------------------------------
(* Health checks. *)

\* Mutated: the result is not validated.
promptUnchecked(cur, others, a) ==
  LET Reply(k, old) == IF k \in DOMAIN a THEN a[k] ELSE old
      base == WithDefaults([cur EXCEPT !.name = Reply("name", @), !.type = Reply("type", @)])
  IN [hc |-> [base EXCEPT
               !.text = [f \in Fields |-> IF base.type \in FieldTypes[f] THEN Reply(f, @[f]) ELSE ""],
               !.num = [n \in Numbers |-> IF n = "expect_status" /\ base.type # "http"
                                          THEN 0 ELSE Reply(n, @[n])]],
      ok |-> base.type \in Types]

\* The check after the dialog, and whether it is taken.  What is not answered
\* stays; the fields of other types are dropped, so that a change of the type
\* leaves nothing behind.
promptHealthCheck(cur, others, a) ==
  LET Reply(k, old) == IF k \in DOMAIN a THEN a[k] ELSE old
      base == WithDefaults([cur EXCEPT !.name = Reply("name", @), !.type = Reply("type", @)])
      hc == [base EXCEPT
               !.text = [f \in Fields |-> IF base.type \in FieldTypes[f] THEN Reply(f, @[f]) ELSE ""],
               !.num = [n \in Numbers |-> IF n = "expect_status" /\ base.type # "http"
                                          THEN 0 ELSE Reply(n, @[n])]]
  IN IF base.type \in Types /\ Valid(hc, others) THEN [hc |-> hc, ok |-> TRUE]
     ELSE [hc |-> cur, ok |-> FALSE]

addHealthCheck ==
  /\ Dialog
  /\ \E a \in CheckAnswers :
       LET r == promptHealthCheck(NewCheck, ToSet(cfg.checks), a) IN
       r.ok /\ Save([cfg EXCEPT !.checks = Append(@, r.hc)])

editHealthCheck ==
  /\ Dialog
  /\ \E i \in DOMAIN cfg.checks, a \in CheckAnswers :
       LET r == promptHealthCheck(cfg.checks[i], ToSet(RemoveAt(cfg.checks, i)), a) IN
       r.ok /\ Save([cfg EXCEPT !.checks[i] = r.hc])

deleteHealthCheck ==
  /\ Dialog
  /\ \E i \in DOMAIN cfg.checks : Save([cfg EXCEPT !.checks = RemoveAt(@, i)])
-----------------------------------------------------------------------------
(* saveConfig. *)

\* Mutated: whether the file is there is asked after it was opened.
openConfigStatLater ==
  /\ pc = "open"
  /\ \/ /\ file' = [file EXCEPT ![place] = Empty]
        /\ created' = (place = "etc" /\ file'["etc"].is = "absent")
        /\ readable' = (readable /\ ~(place = "etc" /\ file["etc"].is = "absent"))
        /\ pc' = "write" /\ faults' = faults
     \/ /\ faults < MaxFaults /\ faults' = faults + 1
        /\ pc' = "consume"
        /\ UNCHANGED <<file, created, readable>>
  /\ UNCHANGED <<env, staged, place, cfg, consumed, edits, saved, legal>>

\* OpenFile with O_CREATE and O_TRUNC, or a file that cannot be opened.  A file
\* that it creates belongs to root and its group.
openConfig ==
  /\ pc = "open"
  /\ \/ /\ file' = [file EXCEPT ![place] = Empty]
        /\ created' = (place = "etc" /\ file["etc"].is = "absent")
        /\ readable' = (readable /\ ~created')
        /\ pc' = "write" /\ faults' = faults
     \/ /\ faults < MaxFaults /\ faults' = faults + 1
        /\ pc' = "consume"
        /\ UNCHANGED <<file, created, readable>>
  /\ UNCHANGED <<env, staged, place, cfg, consumed, edits, saved, legal>>

\* Encode.  When it fails, saveConfig returns: a file it has created stays
\* root's, and is no new file for the next save.
writeConfig ==
  /\ pc = "write"
  /\ \/ /\ file' = [file EXCEPT ![place] = Toml(ConfigToMap(cfg))]
        /\ pc' = IF created THEN "chown" ELSE "consume"
        /\ saved' = TRUE
        /\ UNCHANGED <<created, faults, legal>>
     \/ /\ faults < MaxFaults /\ faults' = faults + 1
        /\ CutWrite
        /\ pc' = "consume" /\ created' = FALSE /\ saved' = FALSE
  /\ UNCHANGED <<env, staged, readable, place, cfg, consumed, edits>>

\* A new file is given to the group of the daemon.  An unknown group and an
\* error of Chown are ignored.
chownConfig ==
  /\ pc = "chown"
  /\ \/ readable' = TRUE /\ faults' = faults
     \/ faults < MaxFaults /\ faults' = faults + 1 /\ readable' = readable
  /\ pc' = "consume" /\ created' = FALSE
  /\ UNCHANGED <<file, env, staged, place, cfg, consumed, edits, saved, legal>>

\* The dialog goes on after saveConfig, which returns no error.
consume ==
  /\ pc = "consume"
  /\ env' = IF consumed = "env" THEN [env EXCEPT ![place] = ""] ELSE env
  /\ staged' = [staged EXCEPT ![place] = @ \ {consumed}]
  /\ pc' = "menu" /\ consumed' = ""
  /\ UNCHANGED <<file, readable, place, cfg, created, edits, faults, saved, legal>>

Next ==
  \/ Start \/ End \/ HandEdit
  \/ setMonitor \/ setIntervals \/ setThresholds \/ setWatchLists \/ setCooldowns
  \/ resetDefaults \/ setCredentials
  \/ registerService \/ deleteStaged \/ ensureCustomDir
  \/ addHealthCheck \/ editHealthCheck \/ deleteHealthCheck
  \/ openConfig \/ writeConfig \/ chownConfig \/ consume

Spec == Init /\ [][Next]_vars
-----------------------------------------------------------------------------
\* The configuration the daemon would start with now, and whether it would run.
\* A file it may not read is like one that does not parse.
DaemonFile == IF readable \/ file["etc"].is = "absent" THEN file["etc"] ELSE Broken
DaemonConfig == LoadConfig(<<DaemonFile>>, env["etc"])

TypeOK ==
  /\ DOMAIN file = Places /\ \A p \in Places : file[p].is \in {"absent", "broken", "toml"}
  /\ env \in [Places -> Creds \union {""}]
  /\ staged \in [Places -> SUBSET DOMAIN Content]
  /\ pc \in {"off", "menu", "open", "write", "chown", "consume"}
  /\ place \in Places
  /\ consumed \in {"", "env"} \union DOMAIN Content
  /\ readable \in BOOLEAN /\ created \in BOOLEAN
  /\ edits \in 0..MaxEdits /\ faults \in 0..MaxFaults
  /\ DOMAIN cfg.monitor = Toggles /\ DOMAIN cfg.watch = Lists
  /\ \A svc \in ToSet(cfg.services) : Usable(svc)
  /\ \A hc \in ToSet(cfg.checks) :
       /\ DOMAIN hc.text = Fields
       /\ \A n \in Numbers \ {"expect_status"} : hc.num[n] > 0
       /\ hc.type = "http" => hc.num["expect_status"] # 0

\* The settings of a configuration: without the credentials, which are not part
\* of the file, and the status a check that is not http may have for nothing.
Settings(c) ==
  [c EXCEPT !.creds = "",
            !.checks = [i \in DOMAIN @ |->
                          IF @[i].type = "http" THEN @[i] ELSE [@[i] EXCEPT !.num["expect_status"] = 0]]]

\* What the wizard shows after a save is what the daemon starts with: no
\* setting is lost, changed or made up on the way through the file, unless the
\* daemon may not read the file (see HiddenByFaultOnly), or a check written by
\* hand expects a status below zero, which is no status.
EditsReachDaemon ==
  saved /\ place = "etc" /\ readable /\ (\A hc \in ToSet(cfg.checks) : hc.type = "http" => hc.num["expect_status"] > 0)
    => Settings(DaemonConfig) = Settings(cfg)

\* The table of files in README.md: config.toml is root:pidex 0640.  The file that
\* a save creates is root's at first and is given to the group at the end: a file
\* the daemon may not read is under way there, or has met a fault.  (It stays so
\* after the next saves, which find it existing.)
HiddenByFaultOnly ==
  ~readable => \/ created /\ pc \in {"write", "chown"}
               \/ faults > 0

\* Whatever dialogs were gone through, wherever a save failed or was cut off, and
\* whoever may read the file, the daemon that is started now comes up, as long
\* as the env file holds credentials, nobody wrote an invalid health check by
\* hand, and no write was cut off inside a health check: one without its type
\* is invalid.  cmdRun ends the daemon for good on each of these.
DaemonComesUp == legal /\ env["etc"] # "" => CanRun(DaemonConfig)

\* The daemon loses its credentials only by a reset, by a write of the env file
\* that fails, by hand, or because they were in config.toml, which the wizard
\* writes without them, whatever the dialog was about.
CredentialsLost ==
  [][DaemonConfig.creds # "" /\ DaemonConfig'.creds = "" =>
       \/ consumed = "env"
       \/ env["etc"] # env'["etc"] /\ faults' = faults + 1
       \/ env["etc"] = "" /\ file["etc"].data.telegram # ""]_vars
=============================================================================
