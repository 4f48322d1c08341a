------------------------------- MODULE Config -------------------------------
(***************************************************************************)
(* internal/config: what config.toml holds, what the program makes of it,  *)
(* and back.  A file is decoded into tables whose numbers are integers or  *)
(* floats as they were written; the code takes a number only in the form   *)
(* it expects, so the form is kept.  A table is a function on the keys the *)
(* file has.  The settings that the code treats alike (nine toggles, four  *)
(* intervals, eight thresholds) are functions on constant sets of keys.    *)
(*                                                                         *)
(* Token and chat are one value, "" when not set.  The case of letters in  *)
(* a type and the syntax of addresses are abstracted: a URL and a          *)
(* host:port are two different values.                                     *)
(***************************************************************************)
EXTENDS Integers, SequencesExt

CONSTANTS Toggles, Intervals, Thresholds, Lists,   \* keys of the sections
          Types,                                   \* types of health checks
          DefaultInterval, DefaultThreshold        \* the defaults

NoKeys == [k \in {} |-> ""]

\* A file: missing, one that does not parse, or its tables.
Tables == [telegram |-> "", monitor |-> NoKeys, pollers |-> NoKeys,
           thresholds |-> NoKeys, watch |-> NoKeys, cooldowns |-> NoKeys,
           custom_services |-> <<>>, health_checks |-> <<>>]
Absent   == [is |-> "absent", data |-> Tables]
Broken   == [is |-> "broken", data |-> Tables]
Toml(t)  == [is |-> "toml", data |-> t]
Empty    == Toml(Tables)

Num(kind, n) == [kind |-> kind, value |-> n]

\* What the decoder yields: arrays, and the numbers of a health check are whole
\* (a float is cut).
Decoded(t) ==
  /\ t.custom_services \in Seq(ToSet(t.custom_services))
  /\ t.health_checks \in Seq(ToSet(t.health_checks))
  /\ \A m \in ToSet(t.health_checks) : \A n \in DOMAIN m.num : m.num[n] \in Int
-----------------------------------------------------------------------------
(* Health checks. *)

\* The field a type cannot do without, and the types that have a field.
Required == [http |-> "address", tcp |-> "address", redis |-> "address",
             systemd |-> "unit", docker |-> "container",
             command |-> "command", interface |-> "interface"]
FieldTypes == [address |-> {"http", "tcp", "redis"}, username |-> {"redis"},
               password |-> {"redis"}, headers |-> {"http"},
               command |-> {"command"}, unit |-> Types, container |-> Types,
               interface |-> Types]
Fields == DOMAIN FieldTypes
Numbers == {"interval", "timeout", "failures", "expect_status"}
DefaultNumber == [interval |-> 30, timeout |-> 5, failures |-> 3,
                  expect_status |-> 200]

NewCheck == [name |-> "", type |-> "", text |-> [f \in Fields |-> ""],
             num |-> [n \in Numbers |-> 0]]

\* Unset numbers get their defaults.  A negative status stays as it is.
WithDefaults(hc) ==
  [hc EXCEPT !.num = [n \in Numbers |->
     IF n = "expect_status"
     THEN IF hc.type = "http" /\ @[n] = 0 THEN DefaultNumber[n] ELSE @[n]
     ELSE IF @[n] <= 0 THEN DefaultNumber[n] ELSE @[n]]]

\* Validate.  An http check needs a URL, a tcp or redis check a host:port.
Valid(hc, others) ==
  /\ hc.name # ""
  /\ \A o \in others : o.name # hc.name
  /\ hc.num["interval"] >= 5
  /\ hc.num["timeout"] >= 1
  /\ hc.num["failures"] >= 1
  /\ hc.type \in Types
  /\ hc.text[Required[hc.type]] # ""
  /\ hc.type = "http" => /\ hc.text["address"] = "url"
                         /\ hc.num["expect_status"] \in 100..599
  /\ hc.type \in {"tcp", "redis"} => hc.text["address"] = "host:port"

ValidateHealthChecks(checks) ==
  \A i \in DOMAIN checks : Valid(checks[i], {checks[j] : j \in 1..(i - 1)})

\* Only what is set is written; the status of an http check only.
healthCheckToMap(hc) ==
  LET Text == {f \in Fields : hc.text[f] # ""}
      Nums == {n \in Numbers : hc.num[n] > 0 /\ (n = "expect_status" => hc.type = "http")}
  IN [name |-> hc.name, type |-> hc.type,
      text |-> [f \in Text |-> hc.text[f]], num |-> [n \in Nums |-> hc.num[n]]]

\* Mutated: what the file does not set stays zero.
healthCheckFromMapBare(m) ==
  [name |-> m.name, type |-> m.type,
   text |-> [f \in Fields  |-> IF f \in DOMAIN m.text THEN m.text[f] ELSE ""],
   num  |-> [n \in Numbers |-> IF n \in DOMAIN m.num THEN m.num[n] ELSE 0]]

healthCheckFromMap(m) ==
  WithDefaults([name |-> m.name, type |-> m.type,
                text |-> [f \in Fields  |-> IF f \in DOMAIN m.text THEN m.text[f] ELSE ""],
                num  |-> [n \in Numbers |-> IF n \in DOMAIN m.num THEN m.num[n] ELSE 0]])
-----------------------------------------------------------------------------
(* The configuration. *)

DefaultConfig ==
  [creds |-> "", monitor |-> [k \in Toggles |-> TRUE],
   interval |-> [k \in Intervals |-> DefaultInterval],
   threshold |-> [k \in Thresholds |-> DefaultThreshold],
   watch |-> [l \in Lists |-> <<>>], cooldown |-> NoKeys,
   services |-> <<>>, checks |-> <<>>]

\* Mutated: thresholds are written without a fraction.
ConfigToMapIntegers(cfg) ==
  [telegram |-> "", monitor |-> cfg.monitor,
   pollers |-> [k \in Intervals |-> Num("int", cfg.interval[k])],
   thresholds |-> [k \in Thresholds |-> Num("int", cfg.threshold[k])],
   watch |-> [l \in {l \in Lists : cfg.watch[l] # <<>>} |-> cfg.watch[l]],
   cooldowns |-> [k \in DOMAIN cfg.cooldown |-> Num("float", cfg.cooldown[k])],
   custom_services |-> cfg.services,
   health_checks |-> [i \in DOMAIN cfg.checks |-> healthCheckToMap(cfg.checks[i])]]

\* What SaveConfig encodes.  The credentials are not written.
ConfigToMap(cfg) ==
  [telegram |-> "", monitor |-> cfg.monitor,
   pollers |-> [k \in Intervals |-> Num("int", cfg.interval[k])],
   thresholds |-> [k \in Thresholds |-> Num("float", cfg.threshold[k])],
   watch |-> [l \in {l \in Lists : cfg.watch[l] # <<>>} |-> cfg.watch[l]],
   cooldowns |-> [k \in DOMAIN cfg.cooldown |-> Num("float", cfg.cooldown[k])],
   custom_services |-> cfg.services,
   health_checks |-> [i \in DOMAIN cfg.checks |-> healthCheckToMap(cfg.checks[i])]]

\* The table with the defaults where it has no value, or one of another kind.
Overlay(default, table, kind) ==
  [k \in DOMAIN default |->
     IF k \in DOMAIN table /\ table[k].kind = kind THEN table[k].value ELSE default[k]]

\* A service without a name or events is not taken.
Usable(svc) == svc.name # "" /\ svc.events # {}

UsableOf(services) ==
  LET taken[i \in 0..Len(services)] ==
        IF i = 0 THEN <<>>
        ELSE IF Usable(services[i]) THEN Append(taken[i - 1], services[i]) ELSE taken[i - 1]
  IN taken[Len(services)]

\* env is what the environment holds of the credentials.
ConfigFromMap(t, env) ==
  [creds |-> IF env # "" THEN env ELSE t.telegram,
   monitor |-> [k \in Toggles |-> IF k \in DOMAIN t.monitor THEN t.monitor[k] ELSE TRUE],
   interval |-> Overlay(DefaultConfig.interval, t.pollers, "int"),
   threshold |-> Overlay(DefaultConfig.threshold, t.thresholds, "float"),
   watch |-> [l \in Lists |-> IF l \in DOMAIN t.watch THEN t.watch[l] ELSE <<>>],
   cooldown |-> [k \in DOMAIN t.cooldowns |-> t.cooldowns[k].value],
   services |-> UsableOf(t.custom_services),
   checks |-> [i \in DOMAIN t.health_checks |-> healthCheckFromMap(t.health_checks[i])]]

defaultWithEnv(env) == [DefaultConfig EXCEPT !.creds = env]

\* Mutated: a file that does not parse leaves nothing but the defaults.
readConfigBare(file, env) ==
  IF file.is = "toml" THEN ConfigFromMap(file.data, env) ELSE DefaultConfig

\* A file that does not parse is no configuration at all, without a word.
readConfig(file, env) ==
  IF file.is = "toml" THEN ConfigFromMap(file.data, env) ELSE defaultWithEnv(env)

\* The first file that exists, of those in the order they are looked at.
LoadConfig(files, env) ==
  LET Present == {i \in DOMAIN files : files[i].is # "absent"} IN
  IF Present = {} THEN defaultWithEnv(env)
  ELSE readConfig(files[CHOOSE i \in Present : \A j \in Present : i <= j], env)

\* cmdRun goes on with this configuration; otherwise the daemon ends at once.
CanRun(cfg) == cfg.creds # "" /\ ValidateHealthChecks(cfg.checks)
-----------------------------------------------------------------------------
(* What a write that is cut off leaves of a file.  The encoder writes the    *)
(* sections sorted, in the order of CutOff, and a line for each key.  A cut  *)
(* inside a word or a string does not parse; one at the end of a line or     *)
(* inside a number does, and the rest is not there.  Where the keys of a     *)
(* section are a parameter, their order is left open.  Headers are written   *)
(* whole or not at all, and numbers have up to five digits.                  *)

\* The numbers that begin like n.
Leading(n) ==
  LET sign == IF n < 0 THEN -1 ELSE 1
      abs == sign * n
  IN {n} \union {sign * (abs \div p) : p \in {q \in {10, 100, 1000, 10000} : q <= abs}}

\* A section, the last key of it cut in its number.  A float without its
\* fraction is an integer.
CutSection(t) ==
  UNION {{[k \in K |-> t[k]]} \union
         UNION {{[k \in K |-> IF k = last THEN Num("int", n) ELSE t[k]] : n \in Leading(t[last].value)}
                  : last \in K} : K \in SUBSET DOMAIN t}

\* The last service, without its name ("") or with some of its events only, one
\* of them without some of its keys ("").
CutService(svc) ==
  {[svc EXCEPT !.name = "", !.events = {}]} \union
  {[svc EXCEPT !.events = E] : E \in {E \in SUBSET (svc.events \union {""}) : ~(svc.events \subseteq E)}}

CheckKeys == <<"address", "command", "container", "expect_status", "failures", "interface", "interval",
               "name", "password", "timeout", "type", "unit", "username", "headers">>

\* The last health check, up to its n-th key.
CutCheck(m) ==
  UNION {LET Keys == {CheckKeys[i] : i \in 1..n}
             digits == IF n > 0 /\ CheckKeys[n] \in DOMAIN m.num THEN Leading(m.num[CheckKeys[n]]) ELSE {0}
         IN {[name |-> IF "name" \in Keys THEN m.name ELSE "",
              type |-> IF "type" \in Keys THEN m.type ELSE "",
              text |-> [f \in DOMAIN m.text \intersect Keys |-> m.text[f]],
              num |-> [k \in DOMAIN m.num \intersect Keys |-> IF k = CheckKeys[n] THEN d ELSE m.num[k]]]
                : d \in digits} : n \in 0..Len(CheckKeys)}

\* A list, cut after some entry, or inside the next one.
CutList(s, CutEntry(_)) ==
  UNION {{SubSeq(s, 1, i)} \union
         (IF i = Len(s) THEN {} ELSE {Append(SubSeq(s, 1, i), e) : e \in CutEntry(s[i + 1])})
           : i \in 0..Len(s)}

\* The tables of the files that parse.
CutOff(t) ==
  LET t1 == [Tables EXCEPT !.watch = [l \in DOMAIN t.watch \intersect {"containers"} |-> t.watch[l]]]
      t2 == [t1 EXCEPT !.cooldowns = t.cooldowns]
      t3 == [t2 EXCEPT !.custom_services = t.custom_services]
      t4 == [t3 EXCEPT !.health_checks = t.health_checks]
      t5 == [t4 EXCEPT !.monitor = t.monitor]
      t6 == [t5 EXCEPT !.pollers = t.pollers, !.watch = t.watch]
  IN {Tables} \union
     {[t1 EXCEPT !.cooldowns = c] : c \in CutSection(t.cooldowns)} \union
     {[t2 EXCEPT !.custom_services = c] : c \in CutList(t.custom_services, CutService)} \union
     {[t3 EXCEPT !.health_checks = c] : c \in CutList(t.health_checks, CutCheck)} \union
     {[t4 EXCEPT !.monitor = [k \in K |-> t.monitor[k]]] : K \in SUBSET DOMAIN t.monitor} \union
     {[t5 EXCEPT !.pollers = c] : c \in CutSection(t.pollers)} \union
     {[t6 EXCEPT !.thresholds = c] : c \in CutSection(t.thresholds)}
=============================================================================
