---------------------------- MODULE HealthProofs ----------------------------
(***************************************************************************)
(* Proofs about the health checks, for every set of checks, thresholds,    *)
(* configurations and hosts, and for every size of the bus: a check is     *)
(* down after as many failures as its threshold, what reaches the owner    *)
(* alternates and is what the tracker knows, and a diagnosis explains the  *)
(* failure it belongs to.                                                  *)
(***************************************************************************)
EXTENDS HealthMonitor, SequenceTheorems, TLAPS

States == {"unknown", "healthy", "failing", "down"}
Places == {"probing", "diagnosing", "publishing", "sleeping", "stopped"}
Findings == Seq(Finding)
HealthEvent ==
  [source : Checks, type : {"HEALTH_DOWN", "HEALTH_RECOVERED"}, text : Findings]

\* TypeOK, and what it leaves open: everything kept by check has an entry for each.
Typed ==
  /\ TypeOK
  /\ \A c \in Checks : host[c] \in Host
  /\ DOMAIN host = Checks /\ DOMAIN recent = Checks /\ DOMAIN diagnosis = Checks
  /\ tracker \in [Checks -> [state : States, consecutive : Nat]]
  /\ bus \in Seq(HealthEvent)

\* The count of the tracker is that of the failures at the end of the window of
\* results; the check is down when it fills the window.
Counts(n, r, threshold) ==
  /\ n <= Len(r) /\ Len(r) <= threshold
  /\ \A d \in 0..(n - 1) : ~ r[Len(r) - d]
  /\ n = Len(r) \/ r[Len(r) - n]

CountInv ==
  \A c \in Checks :
    /\ Counts(tracker[c].consecutive, recent[c], Threshold(c))
    /\ tracker[c].state = "down" <=> tracker[c].consecutive = Threshold(c)

\* What the diagnosis starts from is the error of the probe; while the host did
\* not change it is the one a probe would find.
DiagnosisInv ==
  \A c \in Checks :
    /\ at[c] = "diagnosing" =>
         /\ \E err \in Causes : /\ diagnosis[c] = <<<<"error", err>>>>
                                /\ ~moved[c] => Check(Configs[c], host[c]) = err
         /\ tracker[c].state = "down"
    /\ moved[c] => at[c] \in {"diagnosing", "publishing", "stopped"}

\* The owner was told that c is down, as far as the process knows.
KnownDown(c) == shown[c] = "HEALTH_DOWN" /\ ~forgotten[c]

\* The tracker's state, but for the alert that is not published yet.
ToldDown(c) == IF at[c] \in {"diagnosing", "publishing"}
               THEN tracker[c].state # "down" ELSE tracker[c].state = "down"

From(c, i)    == i \in DOMAIN bus /\ bus[i].source = c
FirstOf(c, i) == From(c, i) /\ \A j \in DOMAIN bus : j < i => bus[j].source # c
LastOf(c, i)  == From(c, i) /\ \A j \in DOMAIN bus : j > i => bus[j].source # c
NextTo(c, i, j) ==
  From(c, i) /\ From(c, j) /\ i < j
  /\ \A m \in DOMAIN bus : i < m /\ m < j => bus[m].source # c

\* The alerts of a check in the bus alternate: the first of them contradicts what
\* the owner was told, each the one before it, and the last is the tracker's.
BusInv ==
  \A c \in Checks :
    /\ \A i \in DOMAIN bus : FirstOf(c, i) => (bus[i].type = "HEALTH_DOWN" <=> ~KnownDown(c))
    /\ \A i, j \in DOMAIN bus : NextTo(c, i, j) => bus[i].type # bus[j].type
    /\ at[c] # "stopped" =>
         /\ \A i \in DOMAIN bus : LastOf(c, i) => (bus[i].type = "HEALTH_DOWN" <=> ToldDown(c))
         /\ ~InBus(c) => (KnownDown(c) <=> ToldDown(c))

\* The filters know no more than the owner: no cooldown runs, and the key of a
\* check is that of the last alert shown.
HealthFilterInv ==
  /\ DOMAIN cooledUntil = {}
  /\ \A c \in Checks : c \in DOMAIN lastKeys =>
       ~forgotten[c] /\ lastKeys[c][2] = shown[c] /\ shown[c] # "none"
  /\ \A c \in Checks : forgotten[c] => shown[c] = "HEALTH_DOWN"
-----------------------------------------------------------------------------
(* The probe and the diagnosis, for every configuration and host. *)

\* A probe finds the service healthy or fails with one of the known causes.
LEMMA CheckResult ==
  ASSUME NEW hc \in HealthCheckConfig, NEW h \in Host
  PROVE  Check(hc, h) \in Causes \union {"healthy"}
<1>0. /\ hc.type \in NetworkTypes \union {"systemd", "docker", "command", "interface"}
      /\ h.process \in {"active", "starting", "failed", "mute", "late"}
      /\ h.iface \in {"up", "no IPv4", "down", "gone"}
      /\ h.path \in {"clear", "dropped", "refused", "unreachable", "redirected", "no name"}
      /\ h.reply \in {"good", "wrong", "broken", "late"}
  BY DEF HealthCheckConfig, Host
<1>1. CASE hc.type \in NetworkTypes
  <2>1. Dial(hc, h) \in {"connected", "timeout", "connection refused", "unreachable", "no such host"}
    BY <1>0 DEF Dial
  <2>2. Answered(hc, h) \in Causes \union {"healthy"}
    BY <1>0, <1>1 DEF Answered, NetworkTypes, Causes
  <2>3. Check(hc, h) = IF Dial(hc, h) = "connected" THEN Answered(hc, h) ELSE Dial(hc, h)
    BY <1>1 DEF Check, NetworkTypes
  <2> QED
    BY <2>1, <2>2, <2>3 DEF Causes
<1>2. CASE hc.type = "command"
  BY <1>0, <1>2 DEF Check, CommandResult, Causes, NetworkTypes
<1>3. CASE hc.type = "interface"
  BY <1>0, <1>3 DEF Check, InterfaceState, Causes, NetworkTypes
<1>4. CASE hc.type \in {"systemd", "docker"}
  BY <1>0, <1>4 DEF Check, ProcessState, Causes, NetworkTypes
<1> QED
  BY <1>0, <1>1, <1>2, <1>3, <1>4

Has(s, x) == \E i \in DOMAIN s : s[i] = x

\* The elements of a concatenation are those of its parts.
LEMMA HasConcat ==
  ASSUME NEW S, NEW s \in Seq(S), NEW t \in Seq(S), NEW x
  PROVE  Has(s \o t, x) <=> Has(s, x) \/ Has(t, x)
<1>1. /\ s \o t \in Seq(S) /\ Len(s \o t) = Len(s) + Len(t)
      /\ \A i \in 1..(Len(s) + Len(t)) :
           (s \o t)[i] = IF i <= Len(s) THEN s[i] ELSE t[i - Len(s)]
  BY ConcatProperties
<1>2. /\ DOMAIN s = 1..Len(s) /\ DOMAIN t = 1..Len(t)
      /\ DOMAIN (s \o t) = 1..(Len(s) + Len(t)) /\ Len(s) \in Nat /\ Len(t) \in Nat
  BY <1>1, LenProperties
<1>3. ASSUME NEW i \in 1..(Len(s) + Len(t)), (s \o t)[i] = x
      PROVE  Has(s, x) \/ Has(t, x)
  <2>1. CASE i <= Len(s)
    BY <1>1, <1>2, <1>3, <2>1 DEF Has
  <2>2. CASE ~(i <= Len(s))
    <3>1. i - Len(s) \in 1..Len(t)
      BY <1>2, <2>2
    <3> QED
      BY <1>1, <1>2, <1>3, <2>2, <3>1 DEF Has
  <2> QED
    BY <2>1, <2>2
<1>4. ASSUME NEW i \in 1..Len(s), s[i] = x
      PROVE  Has(s \o t, x)
  <2>1. i \in 1..(Len(s) + Len(t)) /\ i <= Len(s)
    BY <1>2
  <2> QED
    BY <1>1, <1>2, <1>4, <2>1 DEF Has
<1>5. ASSUME NEW i \in 1..Len(t), t[i] = x
      PROVE  Has(s \o t, x)
  <2>1. i + Len(s) \in 1..(Len(s) + Len(t)) /\ ~(i + Len(s) <= Len(s))
        /\ (i + Len(s)) - Len(s) = i
    BY <1>2
  <2> QED
    BY <1>1, <1>2, <1>5, <2>1 DEF Has
<1> QED
  BY <1>2, <1>3, <1>4, <1>5 DEF Has

\* A part of a diagnosis that is there under a condition.
LEMMA WhenEffect ==
  ASSUME NEW p \in BOOLEAN, NEW f \in Finding
  PROVE  When(p, f) \in Findings /\ \A x : Has(When(p, f), x) <=> p /\ x = f
<1>1. CASE p
  <2> DEFINE s == <<f>>
  <2>1. When(p, f) = s
    BY <1>1 DEF When
  <2>2. DOMAIN s = {1} /\ s[1] = f /\ s \in Seq(Finding)
    OBVIOUS
  <2> HIDE DEF s
  <2> QED
    BY <1>1, <2>1, <2>2 DEF Has, Findings
<1>2. CASE ~p
  <2>1. When(p, f) = <<>> /\ DOMAIN <<>> = {}
    BY <1>2 DEF When
  <2> QED
    BY <1>2, <2>1, EmptySeq DEF Has, Findings
<1> QED
  BY <1>1, <1>2

\* The findings of a diagnosis (diagnose.go, Diagnose), each with its condition.
Found(hc, h, err, x) ==
  \/ x = <<"error", err>>
  \/ hc.unit /\ x = unitFinding(h)
  \/ hc.container /\ x = containerFinding(h)
  \/ hc.interface /\ x = <<"interface", h.iface>>
  \/ /\ hc.interface /\ targetAddr(hc) \in Own /\ h.owner = "another"
     /\ x = <<"address", "on another interface">>
  \/ /\ hc.interface
     /\ targetAddr(hc) = "remote" \/ (targetAddr(hc) \in Own /\ h.owner = "none")
     /\ x = <<"address", "not assigned">>
  \/ Local(hc, h) /\ x = <<"port", listenerFinding(targetAddr(hc), listeningSockets(h))>>
  \/ /\ hc.unit \/ hc.container
     /\ x = <<"logs", IF hc.unit THEN "unit" ELSE "container">>

\* A diagnosis begins with the error and says what is found, nothing else.
LEMMA DiagnoseEffect ==
  ASSUME NEW hc \in HealthCheckConfig, NEW h \in Host, NEW err \in Causes
  PROVE  /\ Diagnose(hc, h, err) \in Findings
         /\ Diagnose(hc, h, err) # <<>>
         /\ Diagnose(hc, h, err)[1] = <<"error", err>>
         /\ \A x : Has(Diagnose(hc, h, err), x) <=> Found(hc, h, err, x)
<1> DEFINE ip == targetAddr(hc)
           e0 == <<<<"error", err>>>>
           f1 == unitFinding(h)
           f2 == containerFinding(h)
           f3 == <<"interface", h.iface>>
           f4 == <<"address", "on another interface">>
           f5 == <<"address", "not assigned">>
           f6 == <<"port", listenerFinding(ip, listeningSockets(h))>>
           f7 == <<"logs", IF hc.unit THEN "unit" ELSE "container">>
           p4 == hc.interface /\ ip \in Own /\ h.owner = "another"
           p5 == hc.interface /\ (ip = "remote" \/ (ip \in Own /\ h.owner = "none"))
           p6 == Local(hc, h)
           p7 == hc.unit \/ hc.container
<1>1. /\ hc.unit \in BOOLEAN /\ hc.container \in BOOLEAN /\ hc.interface \in BOOLEAN
      /\ h.process \in {"active", "starting", "failed", "mute", "late"}
      /\ h.iface \in {"up", "no IPv4", "down", "gone"}
  BY DEF HealthCheckConfig, Host
<1>2. /\ p4 \in BOOLEAN /\ p5 \in BOOLEAN /\ p6 \in BOOLEAN /\ p7 \in BOOLEAN
  BY <1>1 DEF Local
<1>3. /\ f1 \in Finding /\ f2 \in Finding /\ f3 \in Finding /\ f4 \in Finding
      /\ f5 \in Finding /\ f7 \in Finding
  BY <1>1 DEF unitFinding, containerFinding, Queried, Finding
<1>5. f6 \in Finding
  <2>1. listenerFinding(ip, listeningSockets(h))
          \in {"nothing is listening", "is listening", "listening elsewhere only"}
    BY DEF listenerFinding
  <2> QED
    BY <2>1 DEF Finding
<1>6. e0 \in Findings /\ Len(e0) = 1 /\ \A x : Has(e0, x) <=> x = <<"error", err>>
  <2>1. DOMAIN e0 = {1} /\ e0[1] = <<"error", err>> /\ Len(e0) = 1
    OBVIOUS
  <2>2. <<"error", err>> \in Finding
    BY DEF Finding
  <2> HIDE DEF e0
  <2>3. \A x : Has(e0, x) <=> x = <<"error", err>>
    BY <2>1 DEF Has
  <2>4. e0 \in Findings
    BY <2>2 DEF Findings, e0
  <2> QED
    BY <2>1, <2>3, <2>4
<1> DEFINE w1 == When(hc.unit, f1)
           w2 == When(hc.container, f2)
           w3 == When(hc.interface, f3)
           w4 == When(p4, f4)
           w5 == When(p5, f5)
           w6 == When(p6, f6)
           w7 == When(p7, f7)
<1>7. /\ w1 \in Findings /\ \A x : Has(w1, x) <=> hc.unit /\ x = f1
      /\ w2 \in Findings /\ \A x : Has(w2, x) <=> hc.container /\ x = f2
      /\ w3 \in Findings /\ \A x : Has(w3, x) <=> hc.interface /\ x = f3
  BY <1>1, <1>3, WhenEffect
<1>8. /\ w4 \in Findings /\ \A x : Has(w4, x) <=> p4 /\ x = f4
      /\ w5 \in Findings /\ \A x : Has(w5, x) <=> p5 /\ x = f5
      /\ w6 \in Findings /\ \A x : Has(w6, x) <=> p6 /\ x = f6
      /\ w7 \in Findings /\ \A x : Has(w7, x) <=> p7 /\ x = f7
  BY <1>2, <1>3, <1>5, WhenEffect
<1>9. Diagnose(hc, h, err) = ((((e0 \o w1) \o w2) \o ((w3 \o w4) \o w5)) \o w6) \o w7
  BY DEF Diagnose, appendAddressFindings
<1> HIDE DEF ip, e0, f1, f2, f3, f4, f5, f6, f7, p4, p5, p6, p7, w1, w2, w3, w4, w5, w6, w7
<1>10. ASSUME NEW s \in Findings, NEW t \in Findings
       PROVE  /\ s \o t \in Findings
              /\ \A x : Has(s \o t, x) <=> Has(s, x) \/ Has(t, x)
              /\ Len(s) >= 1 => Len(s \o t) >= 1 /\ (s \o t)[1] = s[1]
  <2>1. /\ s \o t \in Seq(Finding) /\ Len(s \o t) = Len(s) + Len(t)
        /\ \A i \in 1..(Len(s) + Len(t)) :
             (s \o t)[i] = IF i <= Len(s) THEN s[i] ELSE t[i - Len(s)]
    BY ConcatProperties DEF Findings
  <2>2. Len(s) \in Nat /\ Len(t) \in Nat
    BY LenProperties DEF Findings
  <2>3. \A x : Has(s \o t, x) <=> Has(s, x) \/ Has(t, x)
    BY HasConcat DEF Findings
  <2> QED
    BY <2>1, <2>2, <2>3 DEF Findings
<1> DEFINE a == (w3 \o w4) \o w5
           b == (e0 \o w1) \o w2
<1>11. a \in Findings /\ \A x : Has(a, x) <=> Has(w3, x) \/ Has(w4, x) \/ Has(w5, x)
  BY <1>7, <1>8, <1>10
<1>12. /\ b \in Findings /\ \A x : Has(b, x) <=> Has(e0, x) \/ Has(w1, x) \/ Has(w2, x)
       /\ Len(b) >= 1 /\ b[1] = e0[1]
  <2>1. /\ e0 \o w1 \in Findings /\ \A x : Has(e0 \o w1, x) <=> Has(e0, x) \/ Has(w1, x)
        /\ Len(e0 \o w1) >= 1 /\ (e0 \o w1)[1] = e0[1]
    BY <1>6, <1>7, <1>10
  <2> QED
    BY <1>7, <1>10, <2>1
<1> HIDE DEF a, b
<1> DEFINE c == b \o a
<1>13. /\ c \in Findings /\ \A x : Has(c, x) <=> Has(b, x) \/ Has(a, x)
       /\ Len(c) >= 1 /\ c[1] = e0[1]
  BY <1>10, <1>11, <1>12
<1> HIDE DEF c
<1> DEFINE d == c \o w6
<1>14. /\ d \in Findings /\ \A x : Has(d, x) <=> Has(c, x) \/ Has(w6, x)
       /\ Len(d) >= 1 /\ d[1] = e0[1]
  BY <1>8, <1>10, <1>13
<1> HIDE DEF d
<1> DEFINE f == d \o w7
<1>15. /\ f \in Findings /\ \A x : Has(f, x) <=> Has(d, x) \/ Has(w7, x)
       /\ Len(f) >= 1 /\ f[1] = e0[1]
  BY <1>8, <1>10, <1>14
<1>16. Diagnose(hc, h, err) = f
  BY <1>9 DEF a, b, c, d
<1> HIDE DEF f
<1>17. f # <<>> /\ f[1] = <<"error", err>>
  BY <1>15 DEF e0
<1>18. ASSUME NEW x
       PROVE  Has(f, x) <=> \/ x = <<"error", err>>
                            \/ hc.unit /\ x = f1
                            \/ hc.container /\ x = f2
                            \/ hc.interface /\ x = f3
                            \/ p4 /\ x = f4
                            \/ p5 /\ x = f5
                            \/ p6 /\ x = f6
                            \/ p7 /\ x = f7
  <2>1. Has(f, x) <=> Has(b, x) \/ Has(a, x) \/ Has(w6, x) \/ Has(w7, x)
    BY <1>13, <1>14, <1>15
  <2>2. Has(b, x) <=> x = <<"error", err>> \/ (hc.unit /\ x = f1) \/ (hc.container /\ x = f2)
    BY <1>6, <1>7, <1>12
  <2>3. Has(a, x) <=> (hc.interface /\ x = f3) \/ (p4 /\ x = f4) \/ (p5 /\ x = f5)
    BY <1>7, <1>8, <1>11
  <2>4. Has(w6, x) \/ Has(w7, x) <=> (p6 /\ x = f6) \/ (p7 /\ x = f7)
    BY <1>8
  <2> QED
    BY <2>1, <2>2, <2>3, <2>4
<1>19. ASSUME NEW x
       PROVE  Has(f, x) <=> Found(hc, h, err, x)
  BY <1>18 DEF Found, ip, f1, f2, f3, f4, f5, f6, f7, p4, p5, p6, p7
<1> QED
  BY <1>15, <1>16, <1>17, <1>19

\* The error of a connection to this host with nothing in between tells whether a
\* socket there accepts it (check.go, checkTCP, checkRedis and checkHTTP).
LEMMA CheckHere ==
  ASSUME NEW hc \in HealthCheckConfig, NEW h \in Host, Here(hc, h)
  PROVE  /\ Check(hc, h) = "connection refused" =>
              \A a \in Tried(hc, h) : Accepting(a) \intersect h.sockets = {}
         /\ Check(hc, h) \in {"timeout", "connection broken", "HTTP status", "AUTH or PING failed"} =>
              \E a \in Tried(hc, h) : Accepting(a) \intersect h.sockets # {}
<1> DEFINE open == \E a \in Tried(hc, h) : Accepting(a) \intersect h.sockets # {}
<1>1. /\ hc.type \in {"http", "tcp", "redis"} /\ h.path = "clear"
      /\ h.reply \in {"good", "wrong", "broken", "late"}
  BY DEF Here, NetworkTypes, Host
<1>2. Dial(hc, h) = IF open THEN "connected" ELSE "connection refused"
  BY <1>1 DEF Dial
<1>3. Answered(hc, h) # "connection refused"
  BY <1>1 DEF Answered
<1>4. Check(hc, h) = IF Dial(hc, h) = "connected" THEN Answered(hc, h) ELSE Dial(hc, h)
  BY <1>1 DEF Check, NetworkTypes
<1> HIDE DEF open
<1>5. /\ Check(hc, h) = "connection refused" => ~ open
      /\ Check(hc, h) # "connection refused" => open
  BY <1>2, <1>3, <1>4
<1> QED
  BY <1>5 DEF open

\* What the diagnosis says of the port of a service on this host, by the sockets.
LEMMA PortHere ==
  ASSUME NEW hc \in HealthCheckConfig, NEW h \in Host, Here(hc, h)
  PROVE  LET port == listenerFinding(targetAddr(hc), listeningSockets(h)) IN
         /\ Local(hc, h)
         /\ port \in {"nothing is listening", "is listening", "listening elsewhere only"}
         /\ (\A a \in Tried(hc, h) : Accepting(a) \intersect h.sockets = {}) /\ port = "is listening"
              => OtherFamily(hc, h)
         /\ (\E a \in Tried(hc, h) : Accepting(a) \intersect h.sockets # {})
              => /\ port # "nothing is listening"
                 /\ hc.address # "localhost" => port # "listening elsewhere only"
<1> DEFINE ip == targetAddr(hc)
           port == listenerFinding(ip, listeningSockets(h))
<1>1. /\ hc.type \in NetworkTypes /\ hc.address \in {"localhost", "127.0.0.1", "::1", "own4", "own6"}
      /\ hc.address \in Own => h.owner # "none"
  BY DEF Here, Loopback, Own
<1>2. /\ ip = IF hc.address = "localhost" THEN "127.0.0.1" ELSE hc.address
      /\ Tried(hc, h) = IF hc.address = "localhost" THEN {"127.0.0.1", "::1"} ELSE {hc.address}
  BY <1>1 DEF targetAddr, Tried, Own, Loopback
<1>3. ip \in {"127.0.0.1", "::1", "own4", "own6"} /\ ip \in Tried(hc, h)
  BY <1>1, <1>2
<1>4. Local(hc, h)
  BY <1>1, <1>2 DEF Local, Own, Loopback
<1> HIDE DEF ip
<1>5. /\ port = "nothing is listening" <=> h.sockets \subseteq {"remote"}
      /\ port = "is listening" <=> ({ip} \union Unspecified) \intersect h.sockets # {}
      /\ port \in {"nothing is listening", "is listening", "listening elsewhere only"}
  BY <1>3 DEF listenerFinding, listeningSockets, Unspecified
<1> HIDE DEF port
<1>6. ASSUME \A a \in Tried(hc, h) : Accepting(a) \intersect h.sockets = {}, port = "is listening"
      PROVE  OtherFamily(hc, h)
  <2>1. Accepting(ip) \intersect h.sockets = {} /\ ({ip} \union Unspecified) \intersect h.sockets # {}
    BY <1>3, <1>5, <1>6
  <2> QED
    BY <1>3, <2>1 DEF Accepting, OtherFamily, IPv6, Unspecified, ip
<1>7. ASSUME NEW a \in Tried(hc, h), Accepting(a) \intersect h.sockets # {}
      PROVE  /\ port # "nothing is listening"
             /\ hc.address # "localhost" => port # "listening elsewhere only"
  <2>1. a \in {"127.0.0.1", "::1", "own4", "own6"}
    BY <1>1, <1>2
  <2>2. "remote" \notin Accepting(a)
    BY <2>1 DEF Accepting
  <2>3. port # "nothing is listening"
    BY <1>5, <1>7, <2>2
  <2>4. ASSUME hc.address # "localhost" PROVE port # "listening elsewhere only"
    <3>1. a = ip
      BY <1>2, <2>4
    <3>2. Accepting(a) \subseteq {ip} \union Unspecified
      BY <2>1, <3>1 DEF Accepting, Unspecified
    <3> QED
      BY <1>5, <1>7, <3>2
  <2> QED
    BY <2>3, <2>4
<1> QED
  BY <1>4, <1>5, <1>6, <1>7 DEF port, ip

\* README.md: an alert names "the raw error" and "which address the port is
\* actually listening on".  A diagnosis made while the host is as the probe found
\* it does not contradict the error and explains it where the host can tell,
\* whatever the configuration and whatever stands between.
THEOREM FailureExplained ==
  ASSUME NEW hc \in HealthCheckConfig, NEW h \in Host, Check(hc, h) # "healthy"
  PROVE  /\ Check(hc, h) \in Causes
         /\ Explains(hc, h, Diagnose(hc, h, Check(hc, h)))
<1> DEFINE err == Check(hc, h)
           f == Diagnose(hc, h, err)
           ip == targetAddr(hc)
           port == listenerFinding(ip, listeningSockets(h))
           answered == {"timeout", "connection broken", "HTTP status", "AUTH or PING failed"}
<1>1. err \in Causes
  BY CheckResult
<1> HIDE DEF err
<1>2. f[1] = <<"error", err>> /\ \A x : Has(f, x) <=> Found(hc, h, err, x)
  BY <1>1, DiagnoseEffect
<1>3. f[1][2] = err
  BY <1>2
<1> HIDE DEF f, ip, port
<1>4. ASSUME NEW t, NEW w
      PROVE  Says(f, t, w) <=> Found(hc, h, err, <<t, w>>)
  BY <1>2 DEF Says, Has
<1>5. ASSUME NEW w
      PROVE  Says(f, "port", w) <=> Local(hc, h) /\ w = port
  <2>1. Found(hc, h, err, <<"port", w>>) <=> Local(hc, h) /\ <<"port", w>> = <<"port", port>>
    BY DEF Found, unitFinding, containerFinding, port, ip
  <2> QED
    BY <1>4, <2>1
<1>6. Says(f, "address", "not assigned") <=>
        hc.interface /\ (ip = "remote" \/ (ip \in Own /\ h.owner = "none"))
  <2>1. Found(hc, h, err, <<"address", "not assigned">>) <=>
          hc.interface /\ (ip = "remote" \/ (ip \in Own /\ h.owner = "none"))
    BY DEF Found, unitFinding, containerFinding, ip
  <2> QED
    BY <1>4, <2>1
<1>7. ASSUME Here(hc, h), err = "connection refused"
      PROVE  \/ Says(f, "port", "nothing is listening")
             \/ Says(f, "port", "listening elsewhere only")
             \/ Says(f, "port", "is listening") /\ OtherFamily(hc, h)
  <2>1. \A a \in Tried(hc, h) : Accepting(a) \intersect h.sockets = {}
    BY <1>7, CheckHere DEF err
  <2>2. /\ Local(hc, h) /\ port \in {"nothing is listening", "is listening", "listening elsewhere only"}
        /\ port = "is listening" => OtherFamily(hc, h)
    BY <1>7, <2>1, PortHere DEF port, ip
  <2> QED
    BY <1>5, <2>2
<1>8. ASSUME Here(hc, h), err \in answered
      PROVE  /\ ~ Says(f, "port", "nothing is listening")
             /\ hc.address # "localhost" => ~ Says(f, "port", "listening elsewhere only")
  <2>1. \E a \in Tried(hc, h) : Accepting(a) \intersect h.sockets # {}
    BY <1>8, CheckHere DEF err
  <2>2. /\ port # "nothing is listening"
        /\ hc.address # "localhost" => port # "listening elsewhere only"
    BY <1>8, <2>1, PortHere DEF port, ip
  <2> QED
    BY <1>5, <2>2
<1>9. ASSUME hc.type \in NetworkTypes, hc.address \in Own, hc.interface
      PROVE  h.owner = "none" <=> Says(f, "address", "not assigned")
  <2>1. ip = hc.address /\ ip \in Own /\ ip # "remote"
    BY <1>9 DEF ip, targetAddr, Own
  <2> QED
    BY <1>6, <1>9, <2>1
<1>10. /\ hc.type \in NetworkTypes \union {"systemd", "docker", "command", "interface"}
       /\ hc.type = "systemd" => hc.unit
       /\ hc.type = "docker" => hc.container
       /\ hc.type = "interface" => hc.interface
       /\ h.process \in {"active", "starting", "failed", "mute", "late"}
       /\ h.iface \in {"up", "no IPv4", "down", "gone"}
       /\ h.path \in {"clear", "dropped", "refused", "unreachable", "redirected", "no name"}
       /\ h.reply \in {"good", "wrong", "broken", "late"}
  BY DEF HealthCheckConfig, Host
<1>11. CASE hc.type \in NetworkTypes
  <2>1. Dial(hc, h) \in {"connected", "timeout", "connection refused", "unreachable", "no such host"}
    BY <1>10 DEF Dial
  <2>2. Answered(hc, h) \in {"healthy", "timeout", "connection broken", "HTTP status", "AUTH or PING failed"}
    BY <1>10, <1>11 DEF Answered, NetworkTypes
  <2>3. err = IF Dial(hc, h) = "connected" THEN Answered(hc, h) ELSE Dial(hc, h)
    BY <1>11 DEF err, Check, NetworkTypes
  <2>4. err \notin {"not active", "interface not found", "interface is down", "interface has no address"}
    BY <2>1, <2>2, <2>3
  <2> QED
    BY <1>1, <1>3, <1>7, <1>8, <1>9, <2>4 DEF Explains, f, err
<1>12. ASSUME hc.type \notin NetworkTypes
       PROVE  ~ Here(hc, h)
  BY <1>12 DEF Here
<1>13. CASE hc.type = "command"
  <2>1. err \notin {"not active", "interface not found", "interface is down", "interface has no address"}
    BY <1>10, <1>13 DEF err, Check, CommandResult, NetworkTypes
  <2>2. hc.type \notin NetworkTypes
    BY <1>13 DEF NetworkTypes
  <2> QED
    BY <1>1, <1>3, <1>12, <2>1, <2>2 DEF Explains, f, err
<1>14. CASE hc.type = "interface"
  <2>1. err = InterfaceState(h) /\ hc.type \notin NetworkTypes /\ hc.interface
    BY <1>10, <1>14 DEF err, Check, NetworkTypes
  <2>2. /\ err # "not active"
        /\ err = "interface not found" => h.iface = "gone"
        /\ err = "interface is down" => h.iface = "down"
        /\ err = "interface has no address" => h.iface = "no IPv4"
    BY <1>10, <2>1 DEF InterfaceState
  <2>3. Says(f, "interface", h.iface)
    BY <1>4, <2>1 DEF Found
  <2> QED
    BY <1>1, <1>3, <1>12, <2>1, <2>2, <2>3 DEF Explains, f, err
<1>15. CASE hc.type \in {"systemd", "docker"}
  <2>1. err = ProcessState(h) /\ hc.type \notin NetworkTypes
    BY <1>10, <1>15 DEF err, Check, NetworkTypes
  <2>2. /\ err \notin {"interface not found", "interface is down", "interface has no address"}
        /\ err = "not active" => h.process \in {"starting", "failed"} /\ Queried(h) = h.process
    BY <1>10, <2>1 DEF ProcessState, Queried
  <2>3. \/ Says(f, "unit", Queried(h))
        \/ Says(f, "container", Queried(h))
    BY <1>4, <1>10, <1>15 DEF Found, unitFinding, containerFinding
  <2>4. err = "not active" =>
          \E kind \in {"unit", "container"}, state \in {"starting", "failed"} : Says(f, kind, state)
    BY <2>2, <2>3
  <2> QED
    BY <1>1, <1>3, <1>12, <2>1, <2>2, <2>4 DEF Explains, f, err
<1> QED
  BY <1>10, <1>11, <1>13, <1>14, <1>15
-----------------------------------------------------------------------------
(* The steps, and their types. *)

\* The goroutines, the dispatcher, the host, and the end of the process.
LEMMA NextCases ==
  ASSUME [Next]_vars
  PROVE  \/ \E c \in Checks : Probe(c)
         \/ \E c \in Checks : DiagnoseCheck(c)
         \/ \E c \in Checks : Publish(c)
         \/ \E c \in Checks : Wake(c)
         \/ \E c \in Checks : Change(c)
         \/ Dispatch
         \/ Cancel
         \/ Restart
         \/ UNCHANGED vars
BY DEF Next, RunCheck

\* newTracker: a threshold is at least one.
LEMMA ThresholdType == \A c \in Checks : Threshold(c) \in Nat \ {0}
BY HealthAssumption DEF Threshold, Default

\* observe: the count grows up to the threshold, a success sets it to zero.
LEMMA ObserveEffect ==
  ASSUME NEW t \in [state : States, consecutive : Nat], NEW healthy \in BOOLEAN,
         NEW n \in Nat \ {0}, t.consecutive \in 0..n, t.state = "down" <=> t.consecutive = n
  PROVE  LET u == Observe(t, healthy, n) IN
         /\ u \in [state : States, consecutive : Nat]
         /\ u.consecutive = IF healthy THEN 0
                            ELSE IF t.consecutive < n THEN t.consecutive + 1 ELSE n
         /\ u.state = "down" <=> u.consecutive = n
         /\ healthy => u.state = "healthy"
<1>1. CASE healthy
  BY <1>1 DEF Observe, States
<1>2. CASE ~healthy
  <2> DEFINE k == IF t.consecutive < n THEN t.consecutive + 1 ELSE t.consecutive
             st == IF t.state = "down" \/ t.consecutive + 1 >= n THEN "down" ELSE "failing"
  <2>1. Observe(t, healthy, n) = [state |-> st, consecutive |-> k]
    BY <1>2 DEF Observe
  <2>2. k \in Nat /\ st \in States /\ k = (IF t.consecutive < n THEN t.consecutive + 1 ELSE n)
        /\ (st = "down" <=> k = n)
    BY DEF States
  <2> HIDE DEF k, st
  <2> QED
    BY <1>2, <2>1, <2>2
<1> QED
  BY <1>1, <1>2

\* The window: one more result at its end, the oldest left out when it is full.
LEMMA WindowEffect ==
  ASSUME NEW s \in Seq(BOOLEAN), NEW x \in BOOLEAN, NEW n \in Nat \ {0}, Len(s) <= n
  PROVE  /\ Window(s, x, n) \in Seq(BOOLEAN)
         /\ Len(Window(s, x, n)) = IF Len(s) < n THEN Len(s) + 1 ELSE n
         /\ Window(s, x, n)[Len(Window(s, x, n))] = x
         /\ \A d \in 1..(Len(Window(s, x, n)) - 1) :
              Window(s, x, n)[Len(Window(s, x, n)) - d] = s[Len(s) + 1 - d]
<1> DEFINE a == Append(s, x)
           w == Window(s, x, n)
<1>1. /\ a \in Seq(BOOLEAN) /\ a # <<>> /\ Len(a) = Len(s) + 1 /\ a[Len(s) + 1] = x
      /\ \A i \in 1..Len(s) : a[i] = s[i]
      /\ Len(s) \in Nat
  BY AppendProperties, LenProperties
<1>2. w = IF Len(a) > n THEN Tail(a) ELSE a
  BY DEF Window
<1> HIDE DEF a, w
<1>3. CASE Len(s) < n
  <2>1. w = a /\ Len(w) = Len(s) + 1
    BY <1>1, <1>2, <1>3
  <2>2. ASSUME NEW d \in 1..(Len(w) - 1)
        PROVE  w[Len(w) - d] = s[Len(s) + 1 - d]
    <3>1. Len(w) - d = Len(s) + 1 - d /\ Len(s) + 1 - d \in 1..Len(s)
      BY <1>1, <2>1
    <3> QED
      BY <1>1, <2>1, <3>1
  <2> QED
    BY <1>1, <1>3, <2>1, <2>2 DEF w
<1>4. CASE Len(s) = n
  <2>1. /\ w = Tail(a)
    BY <1>1, <1>2, <1>4
  <2>2. /\ w \in Seq(BOOLEAN) /\ Len(w) = n
        /\ \A i \in 1..n : w[i] = a[i + 1]
    BY <1>1, <1>4, <2>1, HeadTailProperties
  <2>3. n \in 1..n
    OBVIOUS
  <2>4. w[n] = x
    BY <1>1, <1>4, <2>2, <2>3
  <2>5. ASSUME NEW d \in 1..(Len(w) - 1)
        PROVE  w[Len(w) - d] = s[Len(s) + 1 - d]
    <3>1. Len(w) - d \in 1..n /\ (Len(w) - d) + 1 = Len(s) + 1 - d /\ Len(s) + 1 - d \in 1..Len(s)
      BY <1>4, <2>2
    <3> QED
      BY <1>1, <2>2, <3>1
  <2> QED
    BY <1>4, <2>2, <2>4, <2>5 DEF w
<1> QED
  BY <1>1, <1>3, <1>4

\* A step that leaves alone what is typed with effort.
LEMMA TypeFrame ==
  ASSUME Typed, UNCHANGED <<tracker, diagnosis, recent, bus, shown>>,
         cancelled' \in BOOLEAN, \A c \in Checks : host'[c] \in Hosts[c], DOMAIN host' = Checks,
         moved' \in [Checks -> BOOLEAN], at' \in [Checks -> Places],
         restarts' \in 0..MaxRestarts, forgotten' \in [Checks -> BOOLEAN]
  PROVE  Typed'
<1>1. \A c \in Checks : host'[c] \in Host
  BY HealthAssumption
<1> QED
  BY <1>1 DEF Typed, TypeOK, Places

\* The probe's result and the tracker after it.
LEMMA ProbeEffect ==
  ASSUME Typed, CountInv, NEW c \in Checks, Probe(c), ~cancelled
  PROVE  /\ tracker'[c] \in [state : States, consecutive : Nat]
         /\ tracker'[c].consecutive = IF Works(c) THEN 0
                                      ELSE IF tracker[c].consecutive < Threshold(c)
                                           THEN tracker[c].consecutive + 1 ELSE Threshold(c)
         /\ tracker'[c].state = "down" <=> tracker'[c].consecutive = Threshold(c)
         /\ Works(c) => tracker'[c].state = "healthy"
         /\ tracker' \in [Checks -> [state : States, consecutive : Nat]]
         /\ at'[c] = IF tracker[c].state # "down" /\ tracker'[c].state = "down" THEN "diagnosing"
                     ELSE IF tracker[c].state = "down" /\ tracker'[c].state # "down" THEN "publishing"
                     ELSE "sleeping"
         /\ at' \in [Checks -> Places]
         /\ diagnosis'[c] = IF tracker[c].state # "down" /\ tracker'[c].state = "down"
                            THEN <<<<"error", Check(Configs[c], host[c])>>>> ELSE <<>>
         /\ DOMAIN diagnosis' = Checks
         /\ recent'[c] = Window(recent[c], Works(c), Threshold(c))
         /\ DOMAIN recent' = Checks
         /\ \A b \in Checks : b # c => /\ tracker'[b] = tracker[b] /\ at'[b] = at[b]
                                       /\ diagnosis'[b] = diagnosis[b]
                                       /\ recent'[b] = recent[b]
<1> DEFINE t == Observe(tracker[c], Works(c), Threshold(c))
           trans == Transition(tracker[c], t)
<1>1. /\ tracker' = [tracker EXCEPT ![c] = t]
      /\ at' = [at EXCEPT ![c] = CASE trans = "WentDown"  -> "diagnosing"
                                   [] trans = "Recovered" -> "publishing"
                                   [] OTHER -> "sleeping"]
      /\ diagnosis' = [diagnosis EXCEPT ![c] =
           IF trans = "WentDown" THEN <<<<"error", Check(Configs[c], host[c])>>>> ELSE <<>>]
      /\ recent' = [recent EXCEPT ![c] = Window(@, Works(c), Threshold(c))]
  <2> DEFINE e == Check(Configs[c], host[c])
  <2>1. (Works(c) /\ ~cancelled) = Works(c)
    BY DEF Works
  <2>2. (IF cancelled THEN "context canceled" ELSE e) = e
    OBVIOUS
  <2>3. QED
    BY <2>1, <2>2 DEF Probe, Interrupted
<1>2. /\ tracker \in [Checks -> [state : States, consecutive : Nat]]
      /\ at \in [Checks -> Places] /\ DOMAIN diagnosis = Checks /\ DOMAIN recent = Checks
  BY DEF Typed, TypeOK, Places
<1>3. tracker'[c] = t /\ \A b \in Checks : b # c => tracker'[b] = tracker[b]
  BY <1>1, <1>2
<1>4. /\ t \in [state : States, consecutive : Nat]
      /\ t.consecutive = IF Works(c) THEN 0
                         ELSE IF tracker[c].consecutive < Threshold(c)
                              THEN tracker[c].consecutive + 1 ELSE Threshold(c)
      /\ t.state = "down" <=> t.consecutive = Threshold(c)
      /\ Works(c) => t.state = "healthy"
  <2>1. /\ tracker[c] \in [state : States, consecutive : Nat]
        /\ tracker[c].consecutive \in 0..Threshold(c)
        /\ tracker[c].state = "down" <=> tracker[c].consecutive = Threshold(c)
    BY <1>2 DEF Typed, TypeOK, CountInv
  <2>2. Works(c) \in BOOLEAN
    BY DEF Works
  <2> QED
    BY <2>1, <2>2, ThresholdType, ObserveEffect
<1>5. trans = IF tracker[c].state # "down" /\ t.state = "down" THEN "WentDown"
              ELSE IF tracker[c].state = "down" /\ t.state # "down" THEN "Recovered"
              ELSE "NoAlert"
  BY DEF Transition
<1> HIDE DEF t, trans
<1>6. /\ at'[c] = IF tracker[c].state # "down" /\ t.state = "down" THEN "diagnosing"
                  ELSE IF tracker[c].state = "down" /\ t.state # "down" THEN "publishing"
                  ELSE "sleeping"
      /\ \A b \in Checks : b # c => at'[b] = at[b]
      /\ at' \in [Checks -> Places]
  BY <1>1, <1>2, <1>5 DEF Places
<1>7. /\ diagnosis'[c] = IF tracker[c].state # "down" /\ t.state = "down"
                         THEN <<<<"error", Check(Configs[c], host[c])>>>> ELSE <<>>
      /\ DOMAIN diagnosis' = Checks
      /\ \A b \in Checks : b # c => diagnosis'[b] = diagnosis[b]
  BY <1>1, <1>2, <1>5
<1>8. /\ recent'[c] = Window(recent[c], Works(c), Threshold(c))
      /\ DOMAIN recent' = Checks
      /\ \A b \in Checks : b # c => recent'[b] = recent[b]
  BY <1>1, <1>2
<1>9. tracker' \in [Checks -> [state : States, consecutive : Nat]]
  BY <1>1, <1>2, <1>4
<1> QED
  BY <1>3, <1>4, <1>6, <1>7, <1>8, <1>9

\* Every step keeps the types.
LEMMA TypedStep ==
  ASSUME Typed, CountInv, DiagnosisInv, [Next]_vars
  PROVE  Typed'
<1>0. /\ cancelled \in BOOLEAN /\ moved \in [Checks -> BOOLEAN] /\ at \in [Checks -> Places]
      /\ \A c \in Checks : host[c] \in Hosts[c] /\ host[c] \in Host
      /\ DOMAIN host = Checks /\ DOMAIN recent = Checks /\ DOMAIN diagnosis = Checks
      /\ tracker \in [Checks -> [state : States, consecutive : Nat]]
      /\ \A c \in Checks : /\ tracker[c].consecutive \in 0..Threshold(c)
                           /\ recent[c] \in Seq(BOOLEAN) /\ diagnosis[c] \in Findings
      /\ bus \in Seq(HealthEvent) /\ Len(bus) <= BusSize /\ Len(bus) \in Nat
      /\ restarts \in 0..MaxRestarts
      /\ shown \in [Checks -> {"none", "HEALTH_DOWN", "HEALTH_RECOVERED"}]
      /\ forgotten \in [Checks -> BOOLEAN]
  BY LenProperties DEF Typed, TypeOK, Places, Findings
<1>1. ASSUME NEW c \in Checks, Probe(c)
      PROVE  Typed'
  <2>1. CASE cancelled
    BY <1>0, <1>1, <2>1, TypeFrame DEF Probe, Interrupted, outVars, Places
  <2>2. CASE ~cancelled
    <3>1. UNCHANGED <<cancelled, host, moved, restarts, bus, shown, forgotten>>
      BY <1>1 DEF Probe, outVars
    <3>2. \A b \in Checks : diagnosis'[b] \in Findings
      <4>0. /\ \A b \in Checks : b # c => diagnosis'[b] = diagnosis[b]
            /\ diagnosis'[c] = IF tracker[c].state # "down" /\ tracker'[c].state = "down"
                               THEN <<<<"error", Check(Configs[c], host[c])>>>> ELSE <<>>
        BY <1>1, <2>2, ProbeEffect
      <4>1. CASE tracker[c].state # "down" /\ tracker'[c].state = "down"
        <5>1. ~Works(c)
          BY <1>1, <2>2, <4>1, ProbeEffect
        <5>2. Check(Configs[c], host[c]) \in Causes
          BY <1>0, <5>1, CheckResult, HealthAssumption DEF Works
        <5>3. <<"error", Check(Configs[c], host[c])>> \in Finding
          BY <5>2 DEF Finding
        <5>4. <<<<"error", Check(Configs[c], host[c])>>>> \in Findings
          BY <5>3 DEF Findings
        <5> QED
          BY <1>0, <4>0, <4>1, <5>4
      <4>2. CASE ~(tracker[c].state # "down" /\ tracker'[c].state = "down")
        BY <1>0, <4>0, <4>2, EmptySeq DEF Findings
      <4> QED
        BY <4>1, <4>2
    <3>3. \A b \in Checks : recent'[b] \in Seq(BOOLEAN)
      <4>1. Window(recent[c], Works(c), Threshold(c)) \in Seq(BOOLEAN)
        BY <1>0, ThresholdType, WindowEffect DEF CountInv, Counts, Works
      <4>2. /\ recent'[c] = Window(recent[c], Works(c), Threshold(c))
            /\ \A b \in Checks : b # c => recent'[b] = recent[b]
        BY <1>1, <2>2, ProbeEffect
      <4> QED
        BY <1>0, <4>1, <4>2
    <3>4. \A b \in Checks : tracker'[b].consecutive \in 0..Threshold(b)
      <4>1. /\ tracker'[c].consecutive = IF Works(c) THEN 0
                                         ELSE IF tracker[c].consecutive < Threshold(c)
                                              THEN tracker[c].consecutive + 1 ELSE Threshold(c)
            /\ \A b \in Checks : b # c => tracker'[b] = tracker[b]
        BY <1>1, <2>2, ProbeEffect
      <4>2. tracker'[c].consecutive \in 0..Threshold(c)
        BY <1>0, <4>1, ThresholdType
      <4> QED
        BY <1>0, <4>1, <4>2
    <3>5. /\ tracker' \in [Checks -> [state : States, consecutive : Nat]]
          /\ at' \in [Checks -> Places] /\ DOMAIN diagnosis' = Checks /\ DOMAIN recent' = Checks
      BY <1>1, <2>2, ProbeEffect
    <3>6. \A b \in Checks : tracker'[b].state \in {"unknown", "healthy", "failing", "down"}
      BY <3>5 DEF States
    <3> QED
      BY <1>0, <3>1, <3>2, <3>3, <3>4, <3>5, <3>6 DEF Typed, TypeOK, Places, Findings
  <2> QED
    BY <1>0, <2>1, <2>2
<1>2. ASSUME NEW c \in Checks, DiagnoseCheck(c)
      PROVE  Typed'
  <2>1. /\ at' \in [Checks -> Places]
        /\ UNCHANGED <<cancelled, host, moved, tracker, recent, restarts, bus, shown, forgotten>>
    BY <1>0, <1>2 DEF DiagnoseCheck, outVars, Places
  <2>2. DOMAIN diagnosis' = Checks /\ \A b \in Checks : diagnosis'[b] \in Findings
    <3>1. CASE cancelled
      BY <1>0, <1>2, <3>1 DEF DiagnoseCheck, Interrupted
    <3>2. CASE ~cancelled
      <4>1. PICK err \in Causes : diagnosis[c] = <<<<"error", err>>>>
        BY <1>2 DEF DiagnosisInv, DiagnoseCheck
      <4>2. Head(diagnosis[c])[2] = err
        BY <4>1
      <4>3. diagnosis' = [diagnosis EXCEPT ![c] = Diagnose(Configs[c], host[c], err)]
        BY <1>2, <3>2, <4>2 DEF DiagnoseCheck, Interrupted
      <4>4. Diagnose(Configs[c], host[c], err) \in Findings
        BY <1>0, DiagnoseEffect, HealthAssumption
      <4> QED
        BY <1>0, <4>3, <4>4
    <3> QED
      BY <1>0, <3>1, <3>2
  <2> QED
    BY <2>1, <2>2 DEF Typed, TypeOK, Places, Findings
<1>3. ASSUME NEW c \in Checks, Publish(c)
      PROVE  Typed'
  <2>1. Alert(c) \in HealthEvent
    <3>1. <<>> \in Findings /\ diagnosis[c] \in Findings
      BY <1>0, EmptySeq DEF Findings
    <3> QED
      BY <3>1 DEF Alert, HealthEvent
  <2>2. bus' \in Seq(HealthEvent) /\ Len(bus') <= BusSize
    BY <1>0, <1>3, <2>1, AppendProperties, HealthAssumption DEF Publish
  <2>3. /\ at' \in [Checks -> Places] /\ moved' \in [Checks -> BOOLEAN]
        /\ UNCHANGED <<cancelled, host, tracker, recent, restarts, shown, forgotten>>
    BY <1>0, <1>3 DEF Publish, Published, Places
  <2>4. DOMAIN diagnosis' = Checks /\ \A b \in Checks : diagnosis'[b] \in Findings
    BY <1>0, <1>3, EmptySeq DEF Publish, Published, Findings
  <2> QED
    BY <2>2, <2>3, <2>4 DEF Typed, TypeOK, Places, Findings
<1>4. ASSUME NEW c \in Checks, Wake(c)
      PROVE  Typed'
  BY <1>0, <1>4, TypeFrame DEF Wake, outVars, Places
<1>5. ASSUME NEW c \in Checks, Change(c)
      PROVE  Typed'
  <2>1. PICK h \in Hosts[c] : host' = [host EXCEPT ![c] = h]
    BY <1>5 DEF Change
  <2>2. (\A b \in Checks : host'[b] \in Hosts[b]) /\ DOMAIN host' = Checks
    BY <1>0, <2>1
  <2>3. moved' \in [Checks -> BOOLEAN]
    BY <1>0, <1>5 DEF Change
  <2> QED
    BY <1>0, <1>5, <2>2, <2>3, TypeFrame DEF Change, outVars
<1>6. CASE Dispatch
  <2>1. bus # <<>> /\ bus' = Tail(bus) /\ UNCHANGED <<cancelled, host, moved, at, tracker,
                                                      diagnosis, recent, restarts>>
    BY <1>6 DEF Dispatch
  <2>2. /\ Head(bus) \in HealthEvent /\ bus' \in Seq(HealthEvent) /\ Len(bus') = Len(bus) - 1
    BY <1>0, <2>1, HeadTailProperties
  <2>3. Len(bus') <= BusSize
    BY <1>0, <2>2, HealthAssumption
  <2>4. Head(bus).source \in Checks /\ Head(bus).type \in {"HEALTH_DOWN", "HEALTH_RECOVERED"}
    BY <2>2 DEF HealthEvent
  <2>5. /\ shown' \in [Checks -> {"none", "HEALTH_DOWN", "HEALTH_RECOVERED"}]
        /\ forgotten' \in [Checks -> BOOLEAN]
    BY <1>0, <1>6, <2>4 DEF Dispatch
  <2> QED
    BY <2>1, <2>2, <2>3, <2>5 DEF Typed, TypeOK
<1>7. CASE Cancel
  BY <1>0, <1>7, TypeFrame DEF Cancel, outVars
<1>8. CASE Restart
  <2>1. /\ cancelled' = FALSE /\ UNCHANGED <<host, shown>> /\ bus' = <<>>
        /\ restarts' = restarts + 1 /\ restarts < MaxRestarts
        /\ at' = [c \in Checks |-> "probing"] /\ diagnosis' = [c \in Checks |-> <<>>]
        /\ moved' = [c \in Checks |-> FALSE] /\ recent' = [c \in Checks |-> <<>>]
        /\ tracker' = [c \in Checks |-> [state |-> "unknown", consecutive |-> 0]]
        /\ forgotten' = [c \in Checks |-> shown[c] = "HEALTH_DOWN"]
    BY <1>8 DEF Restart
  <2>2. /\ bus' \in Seq(HealthEvent) /\ Len(bus') <= BusSize
        /\ restarts' \in 0..MaxRestarts
    BY <1>0, <2>1, EmptySeq, HealthAssumption
  <2>3. /\ \A c \in Checks : recent'[c] \in Seq(BOOLEAN) /\ diagnosis'[c] \in Findings
        /\ DOMAIN recent' = Checks /\ DOMAIN diagnosis' = Checks
    BY <2>1, EmptySeq DEF Findings
  <2>4. /\ tracker' \in [Checks -> [state : States, consecutive : Nat]]
        /\ \A c \in Checks : /\ tracker'[c].state \in {"unknown", "healthy", "failing", "down"}
                             /\ tracker'[c].consecutive \in 0..Threshold(c)
    BY <2>1, ThresholdType DEF States
  <2>5. /\ at' \in [Checks -> Places] /\ moved' \in [Checks -> BOOLEAN]
        /\ forgotten' \in [Checks -> BOOLEAN]
    BY <2>1 DEF Places
  <2> QED
    BY <1>0, <2>1, <2>2, <2>3, <2>4, <2>5 DEF Typed, TypeOK, Places, Findings
<1>9. CASE UNCHANGED vars
  BY <1>0, <1>9, TypeFrame DEF vars, outVars
<1> QED
  BY NextCases, <1>1, <1>2, <1>3, <1>4, <1>5, <1>6, <1>7, <1>8, <1>9
-----------------------------------------------------------------------------
(* The count, and the diagnosis. *)

\* The window slides with the count.
LEMMA CountStep ==
  ASSUME Typed, CountInv, [Next]_vars
  PROVE  CountInv'
<1>1. ASSUME NEW c \in Checks, Probe(c), ~cancelled
      PROVE  CountInv'
  <2> DEFINE T == Threshold(c)
             r == recent[c]
             w == Window(r, Works(c), T)
             n == tracker[c].consecutive
             m == tracker'[c].consecutive
  <2>1. /\ T \in Nat \ {0} /\ r \in Seq(BOOLEAN) /\ n \in Nat /\ Works(c) \in BOOLEAN
        /\ Len(r) \in Nat /\ Counts(n, r, T)
    BY ThresholdType, LenProperties DEF Typed, TypeOK, CountInv, Works
  <2>2. n <= Len(r) /\ Len(r) <= T
    BY <2>1 DEF Counts
  <2>3. /\ w \in Seq(BOOLEAN) /\ Len(w) = (IF Len(r) < T THEN Len(r) + 1 ELSE T)
        /\ w[Len(w)] = Works(c)
        /\ \A d \in 1..(Len(w) - 1) : w[Len(w) - d] = r[Len(r) + 1 - d]
    BY <2>1, <2>2, WindowEffect
  <2>4. m = IF Works(c) THEN 0 ELSE IF n < T THEN n + 1 ELSE T
    BY <1>1, ProbeEffect
  <2>5. /\ tracker'[c].state = "down" <=> m = T
        /\ recent'[c] = w
        /\ \A b \in Checks : b # c => tracker'[b] = tracker[b] /\ recent'[b] = recent[b]
    BY <1>1, ProbeEffect
  <2> HIDE DEF T, r, w, n, m
  <2>6. Len(w) \in Nat /\ m \in Nat /\ m <= Len(w) /\ Len(w) <= T
    BY <2>1, <2>2, <2>3, <2>4
  <2>7. ASSUME NEW d \in 0..(m - 1)
        PROVE  ~ w[Len(w) - d]
    <3>1. ~Works(c)
      BY <2>1, <2>4
    <3>2. CASE d = 0
      <4>1. Len(w) - d = Len(w)
        BY <2>6, <3>2
      <4> QED
        BY <2>3, <3>1, <4>1
    <3>3. CASE d # 0
      <4>1. d \in 1..(Len(w) - 1) /\ d - 1 \in 0..(n - 1) /\ Len(r) + 1 - d = Len(r) - (d - 1)
        BY <2>1, <2>2, <2>4, <2>6, <3>1, <3>3
      <4> QED
        BY <2>1, <2>3, <4>1 DEF Counts
    <3> QED
      BY <3>2, <3>3
  <2>8. m = Len(w) \/ w[Len(w) - m]
    <3>1. CASE Works(c)
      <4>1. Len(w) - m = Len(w)
        BY <2>4, <2>6, <3>1
      <4> QED
        BY <2>3, <3>1, <4>1
    <3>2. CASE ~Works(c) /\ m # Len(w)
      <4>1. n < T /\ m = n + 1 /\ n # Len(r)
        BY <2>1, <2>2, <2>3, <2>4, <3>2
      <4>2. m \in 1..(Len(w) - 1) /\ Len(r) + 1 - m = Len(r) - n
        BY <2>1, <2>2, <2>6, <3>2, <4>1
      <4>3. r[Len(r) - n]
        BY <2>1, <4>1 DEF Counts
      <4>4. w[Len(w) - m] = r[Len(r) - n]
        BY <2>3, <4>2
      <4> QED
        BY <4>3, <4>4
    <3> QED
      BY <3>1, <3>2
  <2>9. Counts(m, w, T)
    BY <2>6, <2>7, <2>8 DEF Counts
  <2> QED
    BY <2>5, <2>9 DEF CountInv, T, m
<1>2. CASE Restart
  <2>1. \A c \in Checks : tracker'[c] = [state |-> "unknown", consecutive |-> 0] /\ recent'[c] = <<>>
    BY <1>2 DEF Restart
  <2>2. \A c \in Checks : Len(recent'[c]) = 0
    BY <2>1
  <2> QED
    BY <2>1, <2>2, ThresholdType DEF CountInv, Counts
<1>3. CASE UNCHANGED <<tracker, recent>>
  BY <1>3 DEF CountInv
<1>4. ASSUME NEW c \in Checks, Probe(c), cancelled
      PROVE  UNCHANGED <<tracker, recent>>
  BY <1>4 DEF Probe, Interrupted
<1>5. \/ \E c \in Checks : Probe(c)
      \/ Restart
      \/ UNCHANGED <<tracker, recent>>
  BY NextCases DEF DiagnoseCheck, Publish, Published, Wake, Change, Dispatch, Cancel, vars
<1> QED
  BY <1>1, <1>2, <1>3, <1>4, <1>5

\* The error with which a diagnosis starts is that of the probe before it.
LEMMA DiagnosisStep ==
  ASSUME Typed, CountInv, DiagnosisInv, [Next]_vars
  PROVE  DiagnosisInv'
<1>0. /\ moved \in [Checks -> BOOLEAN] /\ at \in [Checks -> Places]
      /\ DOMAIN host = Checks /\ DOMAIN diagnosis = Checks
      /\ \A c \in Checks : host[c] \in Host
  BY DEF Typed, TypeOK, Places
<1>1. ASSUME NEW c \in Checks, Probe(c), ~cancelled
      PROVE  DiagnosisInv'
  <2>1. /\ at[c] = "probing" /\ UNCHANGED <<host, moved>>
    BY <1>1 DEF Probe
  <2>2. /\ ~moved[c]
    BY <2>1 DEF DiagnosisInv
  <2>3. \A b \in Checks : b # c => at'[b] = at[b] /\ diagnosis'[b] = diagnosis[b]
                                   /\ tracker'[b] = tracker[b]
    BY <1>1, ProbeEffect
  <2>4. ASSUME at'[c] = "diagnosing"
        PROVE  /\ \E err \in Causes : /\ diagnosis'[c] = <<<<"error", err>>>>
                                      /\ Check(Configs[c], host[c]) = err
               /\ tracker'[c].state = "down"
    <3>1. tracker[c].state # "down" /\ tracker'[c].state = "down"
      BY <1>1, <2>4, ProbeEffect
    <3>2. diagnosis'[c] = <<<<"error", Check(Configs[c], host[c])>>>> /\ ~Works(c)
      BY <1>1, <3>1, ProbeEffect
    <3>3. Check(Configs[c], host[c]) \in Causes
      BY <1>0, <3>2, CheckResult, HealthAssumption DEF Works
    <3> QED
      BY <3>1, <3>2, <3>3
  <2> QED
    BY <2>1, <2>2, <2>3, <2>4 DEF DiagnosisInv
<1>2. ASSUME NEW c \in Checks, at'[c] # "diagnosing", at[c] # "diagnosing" \/ at'[c] # "probing",
             moved'[c] => moved[c] /\ at'[c] \in {"publishing", "stopped"},
             \A b \in Checks : b # c => /\ at'[b] = at[b] /\ moved'[b] = moved[b]
                                        /\ diagnosis'[b] = diagnosis[b],
             UNCHANGED <<host, tracker>>
      PROVE  DiagnosisInv'
  BY <1>2 DEF DiagnosisInv
<1>3. ASSUME NEW c \in Checks, \/ Probe(c) /\ cancelled
                               \/ DiagnoseCheck(c) \/ Publish(c) \/ Wake(c)
      PROVE  DiagnosisInv'
  <2>1. CASE Probe(c) /\ cancelled
    BY <1>0, <1>2, <2>1 DEF Probe, Interrupted, DiagnosisInv
  <2>2. CASE DiagnoseCheck(c)
    BY <1>0, <1>2, <2>2 DEF DiagnoseCheck, Interrupted
  <2>3. CASE Publish(c)
    BY <1>0, <1>2, <2>3 DEF Publish, Published
  <2>4. CASE Wake(c)
    BY <1>0, <1>2, <2>4 DEF Wake, DiagnosisInv
  <2> QED
    BY <1>3, <2>1, <2>2, <2>3, <2>4
<1>4. ASSUME NEW c \in Checks, Change(c)
      PROVE  DiagnosisInv'
  <2>1. /\ \A b \in Checks : b # c => host'[b] = host[b] /\ moved'[b] = moved[b]
        /\ moved'[c] <=> moved[c] \/ at[c] \in {"diagnosing", "publishing"}
        /\ UNCHANGED <<at, tracker, diagnosis>>
    BY <1>0, <1>4 DEF Change
  <2> QED
    BY <2>1 DEF DiagnosisInv
<1>5. CASE Restart
  BY <1>5 DEF Restart, DiagnosisInv
<1>6. CASE Dispatch \/ Cancel \/ UNCHANGED vars
  BY <1>6 DEF Dispatch, Cancel, vars, DiagnosisInv
<1> QED
  BY NextCases, <1>1, <1>3, <1>4, <1>5, <1>6

\* The three invariants hold together.
LEMMA HealthInvariant == Spec => [](Typed /\ CountInv /\ DiagnosisInv)
<1>1. Init => Typed /\ CountInv /\ DiagnosisInv
  <2> SUFFICES ASSUME Init PROVE Typed /\ CountInv /\ DiagnosisInv
    OBVIOUS
  <2>1. /\ \A c \in Checks : recent[c] = <<>> /\ diagnosis[c] = <<>>
        /\ \A c \in Checks : tracker[c] = [state |-> "unknown", consecutive |-> 0]
        /\ \A c \in Checks : at[c] = "probing" /\ ~moved[c]
        /\ DOMAIN recent = Checks /\ DOMAIN diagnosis = Checks
        /\ bus = <<>> /\ cancelled = FALSE /\ restarts = 0
        /\ moved \in [Checks -> BOOLEAN] /\ at \in [Checks -> Places]
        /\ tracker \in [Checks -> [state : States, consecutive : Nat]]
        /\ shown \in [Checks -> {"none", "HEALTH_DOWN", "HEALTH_RECOVERED"}]
        /\ forgotten \in [Checks -> BOOLEAN]
    BY DEF Init, Places, States
  <2>2. DOMAIN host = Checks /\ \A c \in Checks : host[c] \in Hosts[c] /\ host[c] \in Host
    BY HealthAssumption DEF Init
  <2>3. /\ \A c \in Checks : /\ recent[c] \in Seq(BOOLEAN) /\ diagnosis[c] \in Findings
                             /\ Len(recent[c]) = 0
        /\ bus \in Seq(HealthEvent) /\ Len(bus) = 0
    BY <2>1, EmptySeq DEF Findings
  <2>4. Len(bus) <= BusSize /\ restarts \in 0..MaxRestarts
    BY <2>1, <2>3, HealthAssumption
  <2>5. \A c \in Checks : /\ tracker[c].state \in {"unknown", "healthy", "failing", "down"}
                          /\ tracker[c].consecutive \in 0..Threshold(c)
    BY <2>1, ThresholdType
  <2>6. Typed
    BY <2>1, <2>2, <2>3, <2>4, <2>5 DEF Typed, TypeOK, Places, Findings
  <2>7. CountInv
    BY <2>1, <2>3, ThresholdType DEF CountInv, Counts
  <2> QED
    BY <2>1, <2>6, <2>7 DEF DiagnosisInv
<1> QED
  BY <1>1, TypedStep, CountStep, DiagnosisStep, PTL DEF Spec

\* The types of the health checks' state, the bus never over its size, and a count
\* of failures never over the threshold.
THEOREM TypeCorrect == Spec => []TypeOK
<1>1. Typed => TypeOK
  BY DEF Typed
<1> QED
  BY <1>1, HealthInvariant, PTL

\* A check is down exactly when its last results, as many as its threshold, were
\* failures (monitor.go, tracker), for every threshold.
THEOREM ThresholdTheorem == Spec => []DownAfterThreshold
<1>1. Typed /\ CountInv => DownAfterThreshold
  <2> SUFFICES ASSUME Typed, CountInv, NEW c \in Checks
               PROVE  tracker[c].state = "down" <=>
                        /\ Len(recent[c]) = Threshold(c)
                        /\ \A i \in DOMAIN recent[c] : ~recent[c][i]
    BY DEF DownAfterThreshold
  <2> DEFINE r == recent[c]
             n == tracker[c].consecutive
             T == Threshold(c)
  <2>1. /\ T \in Nat \ {0} /\ n \in Nat /\ Len(r) \in Nat /\ DOMAIN r = 1..Len(r)
        /\ Counts(n, r, T)
        /\ tracker[c].state = "down" <=> n = T
    BY ThresholdType, LenProperties DEF Typed, TypeOK, CountInv
  <2> HIDE DEF r, n, T
  <2>2. n <= Len(r) /\ Len(r) <= T
    BY <2>1 DEF Counts
  <2>3. CASE n = T
    <3>1. Len(r) = T
      <4>1. T <= Len(r) /\ Len(r) <= T
        BY <2>2, <2>3
      <4>2. Len(r) \in Nat /\ T \in Nat
        BY <2>1
      <4> QED
        BY <4>1, <4>2
    <3>2. ASSUME NEW i \in DOMAIN r
          PROVE  ~ r[i]
      <4>1. Len(r) - i \in 0..(n - 1) /\ Len(r) - (Len(r) - i) = i
        BY <2>1, <2>3, <3>1
      <4>2. ~ r[Len(r) - (Len(r) - i)]
        BY <2>1, <4>1 DEF Counts
      <4> QED
        BY <4>1, <4>2
    <3> QED
      BY <2>1, <2>3, <3>1, <3>2 DEF r, T
  <2>4. CASE n # T
    <3>1. ASSUME Len(r) = T
          PROVE  \E i \in DOMAIN r : r[i]
      <4>1. Len(r) - n \in DOMAIN r /\ n # Len(r)
        BY <2>1, <2>2, <2>4, <3>1
      <4> QED
        BY <2>1, <4>1 DEF Counts
    <3> QED
      BY <2>1, <2>4, <3>1 DEF r, T
  <2> QED
    BY <2>3, <2>4
<1> QED
  BY <1>1, HealthInvariant, PTL

\* The diagnosis in an alert belongs to the failure it reports: it begins with the
\* error of the probe that took the check down, and explains it unless the host
\* changed since the probe.
THEOREM ExplainTheorem == Spec => []AlertExplains
<1>1. Init => AlertExplains
  BY DEF Init, AlertExplains
<1>2. Typed /\ CountInv /\ DiagnosisInv /\ AlertExplains /\ [Next]_vars => AlertExplains'
  <2> SUFFICES ASSUME Typed, CountInv, DiagnosisInv, AlertExplains, [Next]_vars
               PROVE  AlertExplains'
    OBVIOUS
  <2>0. /\ moved \in [Checks -> BOOLEAN] /\ at \in [Checks -> Places]
        /\ DOMAIN diagnosis = Checks /\ \A c \in Checks : host[c] \in Host
    BY DEF Typed, TypeOK, Places
  <2>1. ASSUME \A b \in Checks : /\ at'[b] = "publishing" /\ tracker'[b].state = "down" =>
                                      /\ at[b] = "publishing" /\ tracker[b] = tracker'[b]
                                      /\ diagnosis'[b] = diagnosis[b]
                                 /\ at'[b] = "publishing" /\ ~moved'[b] =>
                                      ~moved[b] /\ host'[b] = host[b]
        PROVE  AlertExplains'
    BY <2>1 DEF AlertExplains
  <2>2. ASSUME NEW c \in Checks, Probe(c)
        PROVE  AlertExplains'
    <3>1. CASE cancelled
      BY <2>0, <2>1, <2>2, <3>1 DEF Probe, Interrupted
    <3>2. CASE ~cancelled
      <4>1. at'[c] = "publishing" => tracker'[c].state # "down"
        BY <2>2, <3>2, ProbeEffect
      <4>2. \A b \in Checks : b # c => at'[b] = at[b] /\ diagnosis'[b] = diagnosis[b]
                                       /\ tracker'[b] = tracker[b]
        BY <2>2, <3>2, ProbeEffect
      <4>3. moved' = moved /\ host' = host
        BY <2>2 DEF Probe
      <4> QED
        BY <2>1, <4>1, <4>2, <4>3
    <3> QED
      BY <3>1, <3>2
  <2>3. ASSUME NEW c \in Checks, DiagnoseCheck(c), ~cancelled
        PROVE  AlertExplains'
    <3>1. PICK err \in Causes : /\ diagnosis[c] = <<<<"error", err>>>>
                                /\ ~moved[c] => Check(Configs[c], host[c]) = err
      BY <2>3 DEF DiagnosisInv, DiagnoseCheck
    <3>2. Head(diagnosis[c])[2] = err
      BY <3>1
    <3>3. /\ diagnosis'[c] = Diagnose(Configs[c], host[c], err)
          /\ \A b \in Checks : b # c => at'[b] = at[b] /\ diagnosis'[b] = diagnosis[b]
          /\ UNCHANGED <<host, moved, tracker>>
      BY <2>0, <2>3, <3>2 DEF DiagnoseCheck, Interrupted
    <3>4. Configs[c] \in HealthCheckConfig /\ host[c] \in Host
      BY <2>0, HealthAssumption
    <3>5. /\ diagnosis'[c] # <<>> /\ diagnosis'[c] \in Findings
          /\ diagnosis'[c][1] = <<"error", err>>
      BY <3>3, <3>4, DiagnoseEffect
    <3>6. Head(diagnosis'[c])[2] \in Causes
      <4>1. Head(diagnosis'[c]) = diagnosis'[c][1]
        BY <3>5 DEF Findings
      <4> QED
        BY <3>1, <3>5, <4>1
    <3>7. ~moved[c] => Explains(Configs[c], host[c], diagnosis'[c])
      <4> SUFFICES ASSUME ~moved[c] PROVE Explains(Configs[c], host[c], diagnosis'[c])
        OBVIOUS
      <4>1. Check(Configs[c], host[c]) = err /\ err # "healthy"
        BY <3>1 DEF Causes
      <4> QED
        BY <3>3, <3>4, <4>1, FailureExplained
    <3> QED
      BY <3>3, <3>5, <3>6, <3>7 DEF AlertExplains
  <2>4. ASSUME NEW c \in Checks, \/ DiagnoseCheck(c) /\ cancelled
                                 \/ Publish(c) \/ Wake(c)
        PROVE  AlertExplains'
    BY <2>0, <2>1, <2>4
       DEF DiagnoseCheck, Interrupted, Publish, Published, Wake
  <2>7. ASSUME NEW c \in Checks, Change(c)
        PROVE  AlertExplains'
    <3>1. /\ \A b \in Checks : b # c => host'[b] = host[b] /\ moved'[b] = moved[b]
          /\ moved'[c] <=> moved[c] \/ at[c] \in {"diagnosing", "publishing"}
          /\ UNCHANGED <<at, tracker, diagnosis>>
      <4>1. DOMAIN host = Checks
        BY DEF Typed
      <4> QED
        BY <2>0, <2>7, <4>1 DEF Change
    <3> QED
      BY <2>1, <3>1
  <2>5. CASE Restart
    BY <2>1, <2>5 DEF Restart
  <2>6. CASE Dispatch \/ Cancel \/ UNCHANGED vars
    BY <2>1, <2>6 DEF Dispatch, Cancel, vars
  <2> QED
    BY NextCases, <2>2, <2>3, <2>4, <2>5, <2>6, <2>7
<1> QED
  BY <1>1, <1>2, HealthInvariant, PTL DEF Spec
-----------------------------------------------------------------------------
(* The alerts in the bus and what the owner was told. *)

\* The elements of a queue after its head is taken.
LEMMA TailEffect ==
  ASSUME NEW S, NEW s \in Seq(S), s # <<>>
  PROVE  /\ Head(s) = s[1] /\ s[1] \in S /\ 1 \in DOMAIN s
         /\ Len(Tail(s)) = Len(s) - 1 /\ Len(s) \in Nat \ {0} /\ DOMAIN s = 1..Len(s)
         /\ DOMAIN Tail(s) = 1..(Len(s) - 1)
         /\ \A i \in DOMAIN Tail(s) : i + 1 \in DOMAIN s /\ i + 1 > 1 /\ Tail(s)[i] = s[i + 1]
<1>1. Tail(s) \in Seq(S) /\ Len(s) \in Nat \ {0} /\ Len(Tail(s)) = Len(s) - 1
  BY HeadTailProperties, EmptySeq, LenProperties
<1>2. DOMAIN s = 1..Len(s) /\ DOMAIN Tail(s) = 1..(Len(s) - 1)
  BY <1>1, LenProperties
<1>3. 1 \in DOMAIN s /\ Head(s) = s[1] /\ s[1] \in S
  BY <1>1, <1>2, ElementOfSeq, HeadTailProperties
<1>4. ASSUME NEW i \in 1..(Len(s) - 1)
      PROVE  i + 1 \in DOMAIN s /\ i + 1 > 1 /\ Tail(s)[i] = s[i + 1]
  BY <1>1, <1>2, <1>4, HeadTailProperties
<1> QED
  BY <1>1, <1>2, <1>3, <1>4

\* What is told of a check, and what its filters keep, concern that check only.
LEMMA DispatchEffect ==
  ASSUME Typed, BusInv, HealthFilterInv, Dispatch
  PROVE  /\ bus # <<>> /\ bus[1] \in HealthEvent /\ bus' = Tail(bus)
         /\ bus[1].type = "HEALTH_DOWN" <=> ~KnownDown(bus[1].source)
         /\ shown' = [shown EXCEPT ![bus[1].source] = bus[1].type]
         /\ forgotten' = [forgotten EXCEPT ![bus[1].source] = FALSE]
         /\ lastKeys' = Put(lastKeys, bus[1].source, DedupKey(bus[1]))
         /\ cooledUntil' = cooledUntil
         /\ UNCHANGED <<at, tracker, restarts>>
<1> DEFINE e == bus[1]
           c == e.source
<1>1. bus # <<>> /\ bus' = Tail(bus) /\ UNCHANGED <<at, tracker, restarts>>
  BY DEF Dispatch
<1>2. Head(bus) = e /\ e \in HealthEvent /\ 1 \in DOMAIN bus /\ DOMAIN bus = 1..Len(bus)
  BY <1>1, TailEffect DEF Typed
<1>3. c \in Checks /\ e.type \in {"HEALTH_DOWN", "HEALTH_RECOVERED"}
  BY <1>2 DEF HealthEvent
<1>4. e.type = "HEALTH_DOWN" <=> ~KnownDown(c)
  <2>1. FirstOf(c, 1)
    BY <1>2 DEF FirstOf, From
  <2> QED
    BY <1>2, <1>3, <2>1 DEF BusInv
<1>5. IsAllowed(cooledUntil, e, 0)
  BY DEF IsAllowed, HealthFilterInv
<1>6. IsNew(lastKeys, e)
  <2> SUFFICES ASSUME c \in DOMAIN lastKeys PROVE lastKeys[c] # DedupKey(e)
    BY DEF IsNew
  <2>1. ~forgotten[c] /\ lastKeys[c][2] = shown[c] /\ shown[c] # "none"
    BY <1>3 DEF HealthFilterInv
  <2>2. lastKeys[c][2] # e.type
    BY <1>3, <1>4, <2>1 DEF KnownDown
  <2> QED
    BY <2>2 DEF DedupKey
<1>7. RecordCooldown(cooledUntil, e, 0) = cooledUntil
  BY <1>3, HealthAssumption DEF RecordCooldown, Cooldown
<1>8. /\ shown' = [shown EXCEPT ![c] = e.type] /\ forgotten' = [forgotten EXCEPT ![c] = FALSE]
      /\ lastKeys' = RecordKey(lastKeys, e) /\ cooledUntil' = cooledUntil
  BY <1>2, <1>5, <1>6, <1>7 DEF Dispatch
<1> QED
  BY <1>1, <1>2, <1>4, <1>8 DEF RecordKey

\* While nothing is published or handed over, the bus and the owner agree as
\* before: a goroutine tells what its tracker did before it goes on.
LEMMA BusFrame ==
  ASSUME BusInv, UNCHANGED <<bus, shown, forgotten>>,
         \A c \in Checks : at'[c] # "stopped" => at[c] # "stopped" /\ (ToldDown(c)' <=> ToldDown(c))
  PROVE  BusInv'
<1> SUFFICES ASSUME NEW c \in Checks
             PROVE  /\ \A i \in DOMAIN bus : FirstOf(c, i) => (bus[i].type = "HEALTH_DOWN" <=> ~KnownDown(c))
                    /\ \A i, j \in DOMAIN bus : NextTo(c, i, j) => bus[i].type # bus[j].type
                    /\ at'[c] # "stopped" =>
                         /\ \A i \in DOMAIN bus : LastOf(c, i) => (bus[i].type = "HEALTH_DOWN" <=> ToldDown(c)')
                         /\ ~InBus(c) => (KnownDown(c) <=> ToldDown(c)')
  BY DEF BusInv, FirstOf, NextTo, LastOf, From, InBus, KnownDown
<1> QED
  BY DEF BusInv

\* A probe's verdict is told unless it changes what is told; its alert is next.
LEMMA ProbeTold ==
  ASSUME Typed, CountInv, NEW c \in Checks, Probe(c), NEW b \in Checks, at'[b] # "stopped"
  PROVE  at[b] # "stopped" /\ (ToldDown(b)' <=> ToldDown(b))
<1>1. at[c] = "probing" /\ at \in [Checks -> Places]
  BY DEF Probe, Typed, TypeOK, Places
<1>2. CASE cancelled
  <2>1. at' = [at EXCEPT ![c] = "stopped"] /\ tracker' = tracker
    BY <1>2 DEF Probe, Interrupted
  <2> QED
    BY <1>1, <2>1 DEF ToldDown
<1>3. CASE ~cancelled /\ b # c
  <2>1. at'[b] = at[b] /\ tracker'[b] = tracker[b]
    BY <1>3, ProbeEffect
  <2> QED
    BY <2>1 DEF ToldDown
<1>4. CASE ~cancelled /\ b = c
  <2>1. at'[c] = IF tracker[c].state # "down" /\ tracker'[c].state = "down" THEN "diagnosing"
                 ELSE IF tracker[c].state = "down" /\ tracker'[c].state # "down" THEN "publishing"
                 ELSE "sleeping"
    BY <1>4, ProbeEffect
  <2> QED
    BY <1>1, <1>4, <2>1 DEF ToldDown
<1> QED
  BY <1>2, <1>3, <1>4

\* Publish: the alert of the tracker's change goes behind those of the check that
\* are still in the bus.
LEMMA PublishStep ==
  ASSUME Typed, BusInv, NEW c \in Checks, Publish(c)
  PROVE  BusInv'
<1> DEFINE n == Len(bus) + 1
<1>1. /\ at[c] = "publishing" /\ bus' = Append(bus, Alert(c)) /\ UNCHANGED <<shown, forgotten, tracker>>
      /\ at' = [at EXCEPT ![c] = "sleeping"] /\ at \in [Checks -> Places]
      /\ bus \in Seq(HealthEvent)
  BY DEF Publish, Published, Typed, TypeOK, Places
<1>2. Alert(c) \in HealthEvent
  <2>1. <<>> \in Findings /\ diagnosis[c] \in Findings
    BY EmptySeq DEF Findings, Typed, TypeOK
  <2> QED
    BY <2>1 DEF Alert, HealthEvent
<1>3. /\ n \in Nat \ {0} /\ DOMAIN bus = 1..(n - 1) /\ DOMAIN bus' = 1..n
      /\ \A i \in DOMAIN bus : i \in DOMAIN bus' /\ i < n /\ bus'[i] = bus[i]
      /\ bus'[n] = Alert(c) /\ n \in DOMAIN bus'
      /\ \A i \in DOMAIN bus' : i = n \/ i \in DOMAIN bus
  <2>1. /\ Len(bus) \in Nat /\ DOMAIN bus = 1..Len(bus)
        /\ bus' \in Seq(HealthEvent) /\ Len(bus') = Len(bus) + 1
        /\ \A i \in 1..Len(bus) : bus'[i] = bus[i]
        /\ bus'[Len(bus) + 1] = Alert(c)
    BY <1>1, <1>2, AppendProperties, LenProperties
  <2>2. DOMAIN bus' = 1..(Len(bus) + 1)
    BY <2>1, LenProperties
  <2> QED
    BY <2>1, <2>2
<1>4. /\ Alert(c).source = c
      /\ Alert(c).type = "HEALTH_DOWN" <=> ~ToldDown(c)
      /\ Alert(c).type = "HEALTH_DOWN" <=> ToldDown(c)'
      /\ Alert(c).type \in {"HEALTH_DOWN", "HEALTH_RECOVERED"}
  BY <1>1 DEF Alert, ToldDown
<1> HIDE DEF n
<1> SUFFICES ASSUME NEW b \in Checks
             PROVE  /\ \A i \in DOMAIN bus' : FirstOf(b, i)' => (bus'[i].type = "HEALTH_DOWN" <=> ~KnownDown(b))
                    /\ \A i, j \in DOMAIN bus' : NextTo(b, i, j)' => bus'[i].type # bus'[j].type
                    /\ at'[b] # "stopped" =>
                         /\ \A i \in DOMAIN bus' : LastOf(b, i)' => (bus'[i].type = "HEALTH_DOWN" <=> ToldDown(b)')
                         /\ ~InBus(b)' => (KnownDown(b) <=> ToldDown(b)')
  BY <1>1 DEF BusInv, KnownDown
<1>5. /\ \A i \in DOMAIN bus : FirstOf(b, i) => (bus[i].type = "HEALTH_DOWN" <=> ~KnownDown(b))
      /\ \A i, j \in DOMAIN bus : NextTo(b, i, j) => bus[i].type # bus[j].type
      /\ at[b] # "stopped" =>
           /\ \A i \in DOMAIN bus : LastOf(b, i) => (bus[i].type = "HEALTH_DOWN" <=> ToldDown(b))
           /\ ~InBus(b) => (KnownDown(b) <=> ToldDown(b))
  BY DEF BusInv
<1>6. /\ \A i \in DOMAIN bus : FirstOf(b, i)' => FirstOf(b, i)
      /\ \A i, j \in DOMAIN bus : NextTo(b, i, j)' => NextTo(b, i, j)
      /\ InBus(b) => InBus(b)'
  BY <1>3 DEF FirstOf, NextTo, From, InBus
<1>7. CASE b # c
  <2>1. at'[b] = at[b] /\ (ToldDown(b)' <=> ToldDown(b))
    BY <1>1, <1>7 DEF ToldDown
  <2>2. \A i \in DOMAIN bus' : From(b, i)' => i \in DOMAIN bus /\ From(b, i)
    BY <1>3, <1>4, <1>7 DEF From
  <2>3. \A i \in DOMAIN bus : LastOf(b, i)' => LastOf(b, i)
    BY <1>3 DEF LastOf, From
  <2>4. \A i \in DOMAIN bus' : FirstOf(b, i)' => (bus'[i].type = "HEALTH_DOWN" <=> ~KnownDown(b))
    BY <1>3, <1>5, <1>6, <2>2 DEF FirstOf
  <2>5. \A i, j \in DOMAIN bus' : NextTo(b, i, j)' => bus'[i].type # bus'[j].type
    BY <1>3, <1>5, <1>6, <2>2 DEF NextTo
  <2>6. \A i \in DOMAIN bus' :
          at'[b] # "stopped" /\ LastOf(b, i)' => (bus'[i].type = "HEALTH_DOWN" <=> ToldDown(b)')
    BY <1>3, <1>5, <2>1, <2>2, <2>3 DEF LastOf
  <2> QED
    BY <1>5, <1>6, <2>1, <2>4, <2>5, <2>6
<1>8. CASE b = c
  <2>1. at[b] # "stopped"
    BY <1>1, <1>8
  <2>2. ASSUME NEW i \in DOMAIN bus', FirstOf(b, i)'
        PROVE  bus'[i].type = "HEALTH_DOWN" <=> ~KnownDown(b)
    <3>1. CASE i \in DOMAIN bus
      BY <1>3, <1>5, <1>6, <2>2, <3>1
    <3>2. CASE i = n
      <4>1. ~InBus(b)
        BY <1>3, <2>2, <3>2 DEF FirstOf, InBus
      <4> QED
        BY <1>3, <1>4, <1>5, <1>8, <2>1, <3>2, <4>1
    <3> QED
      BY <1>3, <3>1, <3>2
  <2>3. ASSUME NEW i \in DOMAIN bus', NEW j \in DOMAIN bus', NextTo(b, i, j)'
        PROVE  bus'[i].type # bus'[j].type
    <3>1. i \in DOMAIN bus /\ i < j
      BY <1>3, <2>3 DEF NextTo
    <3>2. CASE j \in DOMAIN bus
      BY <1>3, <1>5, <1>6, <2>3, <3>1, <3>2
    <3>3. CASE j = n
      <4>1. LastOf(b, i)
        BY <1>3, <2>3, <3>1, <3>3 DEF NextTo, LastOf, From
      <4>2. bus[i].type = "HEALTH_DOWN" <=> ToldDown(b)
        BY <1>5, <2>1, <3>1, <4>1
      <4> QED
        BY <1>3, <1>4, <1>8, <3>1, <3>3, <4>2
    <3> QED
      BY <1>3, <3>2, <3>3
  <2>4. ASSUME NEW i \in DOMAIN bus', LastOf(b, i)'
        PROVE  bus'[i].type = "HEALTH_DOWN" <=> ToldDown(b)'
    <3>1. i = n
      BY <1>3, <1>4, <1>8, <2>4 DEF LastOf
    <3> QED
      BY <1>3, <1>4, <1>8, <3>1
  <2>5. InBus(b)'
    BY <1>3, <1>4, <1>8 DEF InBus
  <2> QED
    BY <2>2, <2>3, <2>4, <2>5
<1> QED
  BY <1>7, <1>8

\* process: what the owner is told is the first of the check's alerts, and the
\* next one contradicts it.
LEMMA DispatchStep ==
  ASSUME Typed, BusInv, HealthFilterInv, Dispatch
  PROVE  BusInv' /\ HealthFilterInv'
<1> DEFINE e == bus[1]
           c == e.source
<1>1. /\ bus # <<>> /\ bus' = Tail(bus) /\ UNCHANGED <<at, tracker>>
      /\ e.type = "HEALTH_DOWN" <=> ~KnownDown(c)
      /\ shown' = [shown EXCEPT ![c] = e.type] /\ forgotten' = [forgotten EXCEPT ![c] = FALSE]
      /\ lastKeys' = Put(lastKeys, c, DedupKey(e)) /\ cooledUntil' = cooledUntil
  BY DispatchEffect
<1>2. c \in Checks /\ e.type \in {"HEALTH_DOWN", "HEALTH_RECOVERED"}
  BY DispatchEffect DEF HealthEvent
<1>3. /\ 1 \in DOMAIN bus /\ DOMAIN bus = 1..Len(bus) /\ Len(bus) \in Nat \ {0}
      /\ DOMAIN bus' = 1..(Len(bus) - 1)
      /\ \A i \in DOMAIN bus' : i + 1 \in DOMAIN bus /\ i + 1 > 1 /\ bus'[i] = bus[i + 1]
  BY <1>1, TailEffect DEF Typed
<1>4. shown \in [Checks -> {"none", "HEALTH_DOWN", "HEALTH_RECOVERED"}]
      /\ forgotten \in [Checks -> BOOLEAN]
  BY DEF Typed, TypeOK
<1>5. /\ shown'[c] = e.type /\ ~forgotten'[c]
      /\ \A b \in Checks : b # c => shown'[b] = shown[b] /\ forgotten'[b] = forgotten[b]
  BY <1>1, <1>2, <1>4
<1> HIDE DEF e, c
<1>6. HealthFilterInv'
  <2>1. DOMAIN cooledUntil' = {}
    BY <1>1 DEF HealthFilterInv
  <2>2. /\ DOMAIN lastKeys' = DOMAIN lastKeys \union {c} /\ lastKeys'[c] = DedupKey(e)
        /\ \A b \in DOMAIN lastKeys : b # c => lastKeys'[b] = lastKeys[b]
    BY <1>1 DEF Put
  <2>3. DedupKey(e)[2] = e.type
    BY DEF DedupKey
  <2> QED
    BY <1>2, <1>5, <2>1, <2>2, <2>3 DEF HealthFilterInv
<1>7. BusInv'
  <2> SUFFICES ASSUME NEW b \in Checks
               PROVE  /\ \A i \in DOMAIN bus' : FirstOf(b, i)' => (bus'[i].type = "HEALTH_DOWN" <=> ~KnownDown(b)')
                      /\ \A i, j \in DOMAIN bus' : NextTo(b, i, j)' => bus'[i].type # bus'[j].type
                      /\ at[b] # "stopped" =>
                           /\ \A i \in DOMAIN bus' : LastOf(b, i)' => (bus'[i].type = "HEALTH_DOWN" <=> ToldDown(b))
                           /\ ~InBus(b)' => (KnownDown(b)' <=> ToldDown(b))
    BY <1>1 DEF BusInv, ToldDown
  <2>1. /\ \A i \in DOMAIN bus : FirstOf(b, i) => (bus[i].type = "HEALTH_DOWN" <=> ~KnownDown(b))
        /\ \A i, j \in DOMAIN bus : NextTo(b, i, j) => bus[i].type # bus[j].type
        /\ at[b] # "stopped" =>
             /\ \A i \in DOMAIN bus : LastOf(b, i) => (bus[i].type = "HEALTH_DOWN" <=> ToldDown(b))
             /\ ~InBus(b) => (KnownDown(b) <=> ToldDown(b))
    BY DEF BusInv
  <2>2. \A k \in DOMAIN bus : k = 1 \/ (k - 1 \in DOMAIN bus' /\ bus'[k - 1] = bus[k])
    <3> SUFFICES ASSUME NEW k \in DOMAIN bus, k # 1
                 PROVE  k - 1 \in DOMAIN bus' /\ bus'[k - 1] = bus[k]
      OBVIOUS
    <3>1. k - 1 \in DOMAIN bus' /\ (k - 1) + 1 = k
      BY <1>3
    <3> QED
      BY <1>3, <3>1
  <2>3. ASSUME NEW i \in DOMAIN bus', NEW j \in DOMAIN bus', NextTo(b, i, j)'
        PROVE  bus'[i].type # bus'[j].type
    <3>1. From(b, i + 1) /\ From(b, j + 1) /\ i + 1 < j + 1
      BY <1>3, <2>3 DEF NextTo, From
    <3>2. ASSUME NEW m \in DOMAIN bus, i + 1 < m, m < j + 1
          PROVE  bus[m].source # b
      <4>1. m # 1 /\ i < m - 1 /\ m - 1 < j
        BY <1>3, <3>2
      <4> QED
        BY <2>2, <2>3, <4>1 DEF NextTo
    <3>3. NextTo(b, i + 1, j + 1)
      BY <3>1, <3>2 DEF NextTo
    <3> QED
      BY <1>3, <2>1, <3>3
  <2>4. ASSUME NEW i \in DOMAIN bus', LastOf(b, i)', at[b] # "stopped"
        PROVE  bus'[i].type = "HEALTH_DOWN" <=> ToldDown(b)
    <3>1. ASSUME NEW m \in DOMAIN bus, m > i + 1
          PROVE  bus[m].source # b
      <4>1. m # 1 /\ m - 1 > i
        BY <1>3, <3>1
      <4> QED
        BY <2>2, <2>4, <4>1 DEF LastOf
    <3>2. LastOf(b, i + 1)
      BY <1>3, <2>4, <3>1 DEF LastOf, From
    <3> QED
      BY <1>3, <2>1, <2>4, <3>2
  <2>5. CASE b # c
    <3>1. KnownDown(b)' <=> KnownDown(b)
      BY <1>5, <2>5 DEF KnownDown
    <3>2. bus[1].source # b
      BY <2>5 DEF c, e
    <3>3. ~InBus(b)' => ~InBus(b)
      BY <1>3, <2>2, <3>2 DEF InBus
    <3>4. ASSUME NEW i \in DOMAIN bus', FirstOf(b, i)'
          PROVE  bus'[i].type = "HEALTH_DOWN" <=> ~KnownDown(b)
      <4>1. ASSUME NEW m \in DOMAIN bus, m < i + 1
            PROVE  bus[m].source # b
        <5>1. CASE m # 1
          <6>1. m - 1 < i
            BY <1>3, <4>1
          <6> QED
            BY <2>2, <3>4, <5>1, <6>1 DEF FirstOf
        <5> QED
          BY <3>2, <5>1
      <4>2. FirstOf(b, i + 1)
        BY <1>3, <3>4, <4>1 DEF FirstOf, From
      <4> QED
        BY <1>3, <2>1, <4>2
    <3> QED
      BY <2>1, <2>3, <2>4, <3>1, <3>3, <3>4
  <2>6. CASE b = c
    <3>1. KnownDown(b)' <=> e.type = "HEALTH_DOWN"
      BY <1>5, <2>6 DEF KnownDown
    <3>2. bus[1].source = b /\ bus[1].type = e.type
      BY <2>6 DEF c, e
    <3>3. ASSUME NEW i \in DOMAIN bus', FirstOf(b, i)'
          PROVE  bus'[i].type = "HEALTH_DOWN" <=> ~KnownDown(b)'
      <4>1. ASSUME NEW m \in DOMAIN bus, 1 < m, m < i + 1
            PROVE  bus[m].source # b
        <5>1. m # 1 /\ m - 1 < i
          BY <1>3, <4>1
        <5> QED
          BY <2>2, <3>3, <5>1 DEF FirstOf
      <4>2. NextTo(b, 1, i + 1)
        BY <1>3, <3>2, <3>3, <4>1 DEF NextTo, FirstOf, From
      <4>3. bus[1].type # bus[i + 1].type /\ bus[i + 1] \in HealthEvent
        BY <1>3, <2>1, <4>2, ElementOfSeq DEF Typed
      <4>4. bus[i + 1].type \in {"HEALTH_DOWN", "HEALTH_RECOVERED"}
        BY <4>3 DEF HealthEvent
      <4> QED
        BY <1>2, <1>3, <3>1, <3>2, <4>3, <4>4
    <3>4. ASSUME ~InBus(b)', at[b] # "stopped"
          PROVE  KnownDown(b)' <=> ToldDown(b)
      <4>1. \A m \in DOMAIN bus : m > 1 => bus[m].source # b
        BY <1>3, <2>2, <3>4 DEF InBus
      <4>2. LastOf(b, 1)
        BY <1>3, <3>2, <4>1 DEF LastOf, From
      <4> QED
        BY <1>3, <2>1, <3>1, <3>2, <3>4, <4>2
    <3> QED
      BY <2>3, <2>4, <3>3, <3>4
  <2> QED
    BY <2>5, <2>6
<1> QED
  BY <1>6, <1>7

\* The alerts of a check alternate, in the bus and for the owner, whatever the
\* interleaving of the checks, and no filter stands between the two.
LEMMA BusInvariant == Spec => [](BusInv /\ HealthFilterInv)
<1>1. Init => BusInv /\ HealthFilterInv
  <2> SUFFICES ASSUME Init PROVE BusInv /\ HealthFilterInv
    OBVIOUS
  <2>1. DOMAIN bus = {} /\ DOMAIN lastKeys = {} /\ DOMAIN cooledUntil = {}
    BY DEF Init, NoEntries
  <2>2. \A c \in Checks : ~KnownDown(c) /\ ~ToldDown(c) /\ ~forgotten[c]
    BY DEF Init, KnownDown, ToldDown
  <2> QED
    BY <2>1, <2>2 DEF BusInv, HealthFilterInv
<1>2. Typed /\ CountInv /\ BusInv /\ HealthFilterInv /\ [Next]_vars => BusInv' /\ HealthFilterInv'
  <2> SUFFICES ASSUME Typed, CountInv, BusInv, HealthFilterInv, [Next]_vars
               PROVE  BusInv' /\ HealthFilterInv'
    OBVIOUS
  <2>0. at \in [Checks -> Places]
    BY DEF Typed, TypeOK, Places
  <2>1. ASSUME UNCHANGED <<lastKeys, cooledUntil, shown, forgotten>>
        PROVE  HealthFilterInv'
    BY <2>1 DEF HealthFilterInv
  <2>2. ASSUME NEW c \in Checks, Probe(c)
        PROVE  BusInv' /\ HealthFilterInv'
    <3>1. UNCHANGED <<bus, lastKeys, cooledUntil, shown, forgotten>>
      BY <2>2 DEF Probe, outVars
    <3> QED
      BY <2>1, <2>2, <3>1, ProbeTold, BusFrame
  <2>3. ASSUME NEW c \in Checks, DiagnoseCheck(c) \/ Wake(c)
        PROVE  BusInv' /\ HealthFilterInv'
    <3>1. UNCHANGED <<tracker, bus, lastKeys, cooledUntil, shown, forgotten>>
      BY <2>3 DEF DiagnoseCheck, Wake, outVars
    <3>2. /\ \A b \in Checks : b # c => at'[b] = at[b]
          /\ \/ at[c] = "diagnosing" /\ at'[c] \in {"publishing", "stopped"}
             \/ at[c] = "sleeping" /\ at'[c] \in {"probing", "stopped"}
      BY <2>0, <2>3 DEF DiagnoseCheck, Wake
    <3>3. \A b \in Checks : at'[b] # "stopped" => at[b] # "stopped" /\ (ToldDown(b)' <=> ToldDown(b))
      BY <3>1, <3>2 DEF ToldDown
    <3> QED
      BY <2>1, <3>1, <3>3, BusFrame
  <2>4. ASSUME NEW c \in Checks, Publish(c)
        PROVE  BusInv' /\ HealthFilterInv'
    BY <2>1, <2>4, PublishStep DEF Publish, Published
  <2>5. CASE Dispatch
    BY <2>5, DispatchStep
  <2>6. CASE Restart
    <3>1. /\ DOMAIN bus' = {} /\ DOMAIN lastKeys' = {} /\ DOMAIN cooledUntil' = {}
          /\ shown' = shown /\ \A c \in Checks : forgotten'[c] = (shown[c] = "HEALTH_DOWN")
      <4>1. DOMAIN bus' = {} /\ DOMAIN lastKeys' = {} /\ DOMAIN cooledUntil' = {} /\ shown' = shown
        BY <2>6 DEF Restart, NoEntries
      <4>2. forgotten' = [c \in Checks |-> shown[c] = "HEALTH_DOWN"]
        BY <2>6 DEF Restart
      <4>3. \A c \in Checks : forgotten'[c] = (shown[c] = "HEALTH_DOWN")
        BY <4>2, Zenon
      <4> QED
        BY <4>1, <4>3
    <3>2. \A c \in Checks : ~KnownDown(c)' /\ ~ToldDown(c)'
      BY <2>6, <3>1 DEF Restart, KnownDown, ToldDown
    <3> QED
      BY <3>1, <3>2 DEF BusInv, HealthFilterInv
  <2>7. ASSUME (\E c \in Checks : Change(c)) \/ Cancel \/ UNCHANGED vars
        PROVE  BusInv' /\ HealthFilterInv'
    <3>1. UNCHANGED <<at, tracker, bus, lastKeys, cooledUntil, shown, forgotten>>
      BY <2>7 DEF Change, Cancel, vars, outVars
    <3>2. \A b \in Checks : at'[b] # "stopped" => at[b] # "stopped" /\ (ToldDown(b)' <=> ToldDown(b))
      BY <3>1 DEF ToldDown
    <3> QED
      BY <2>1, <3>1, <3>2, BusFrame
  <2> QED
    BY NextCases, <2>2, <2>3, <2>4, <2>5, <2>6, <2>7
<1> QED
  BY <1>1, <1>2, HealthInvariant, PTL DEF Spec

\* What the owner was last told is what the tracker knows, as soon as no alert of
\* the check is under way (monitor.go, runCheck; dispatcher.go, process): neither
\* the deduplication nor another check's alerts ever swallow one.
THEOREM OwnerTheorem == Spec => []OwnerKnows
<1>1. BusInv => OwnerKnows
  BY DEF BusInv, OwnerKnows, KnownDown, ToldDown
<1> QED
  BY <1>1, BusInvariant, PTL

\* README.md: "a single CRITICAL alert is sent; the next success sends RECOVERED".
\* What reaches the notifier alternates for each check; only a restart during an
\* outage repeats a HEALTH_DOWN.
THEOREM AlternationTheorem == Spec => AlertsAlternate
<1>1. Typed /\ BusInv /\ HealthFilterInv /\ [Next]_vars =>
        [\A c \in Checks : shown'[c] # shown[c] \/ Handed(c) =>
           \/ shown[c] \in {"none", "HEALTH_RECOVERED"} /\ shown'[c] = "HEALTH_DOWN"
           \/ /\ shown[c] = "HEALTH_DOWN"
              /\ shown'[c] = IF forgotten[c] THEN "HEALTH_DOWN" ELSE "HEALTH_RECOVERED"]_vars
  <2> SUFFICES ASSUME Typed, BusInv, HealthFilterInv, [Next]_vars,
                      NEW c \in Checks, shown'[c] # shown[c] \/ Handed(c)
               PROVE  \/ shown[c] \in {"none", "HEALTH_RECOVERED"} /\ shown'[c] = "HEALTH_DOWN"
                      \/ /\ shown[c] = "HEALTH_DOWN"
                         /\ shown'[c] = IF forgotten[c] THEN "HEALTH_DOWN" ELSE "HEALTH_RECOVERED"
    OBVIOUS
  <2>0. /\ shown \in [Checks -> {"none", "HEALTH_DOWN", "HEALTH_RECOVERED"}]
        /\ forgotten \in [Checks -> BOOLEAN] /\ bus \in Seq(HealthEvent) /\ restarts \in Nat
    BY HealthAssumption DEF Typed, TypeOK
  <2>1. CASE Dispatch
    <3> DEFINE e == bus[1]
    <3>1. /\ bus # <<>> /\ e \in HealthEvent
          /\ e.type = "HEALTH_DOWN" <=> ~KnownDown(e.source)
          /\ shown' = [shown EXCEPT ![e.source] = e.type]
      BY <2>1, DispatchEffect
    <3>2. Head(bus) = e
      BY <2>0, <3>1, TailEffect
    <3>3. e.source = c
      BY <2>0, <3>1, <3>2 DEF Handed
    <3>4. shown'[c] = e.type /\ e.type \in {"HEALTH_DOWN", "HEALTH_RECOVERED"}
      BY <2>0, <3>1, <3>3 DEF HealthEvent
    <3> QED
      BY <2>0, <3>1, <3>3, <3>4 DEF KnownDown
  <2>2. ASSUME shown' = shown, bus = <<>> \/ bus' # Tail(bus) \/ restarts' # restarts
        PROVE  FALSE
    BY <2>2 DEF Handed
  <2>3. bus # <<>> => Tail(bus) # bus
    BY <2>0, TailEffect
  <2>4. ASSUME NEW b \in Checks, Publish(b)
        PROVE  FALSE
    <3>1. shown' = shown /\ bus' = Append(bus, Alert(b))
      BY <2>4 DEF Publish, Published
    <3>2. bus # <<>> => Len(Append(bus, Alert(b))) # Len(Tail(bus))
      <4>1. Alert(b) \in HealthEvent
        <5>1. <<>> \in Findings /\ diagnosis[b] \in Findings
          BY EmptySeq DEF Findings, Typed, TypeOK
        <5> QED
          BY <5>1 DEF Alert, HealthEvent
      <4> QED
        BY <2>0, <4>1, TailEffect, AppendProperties
    <3> QED
      BY <2>2, <3>1, <3>2
  <2>5. CASE Restart
    BY <2>0, <2>2, <2>5 DEF Restart
  <2>6. ASSUME \/ \E b \in Checks : Probe(b) \/ DiagnoseCheck(b) \/ Wake(b) \/ Change(b)
               \/ Cancel \/ UNCHANGED vars
        PROVE  FALSE
    <3>1. shown' = shown /\ bus' = bus
      BY <2>6 DEF Probe, DiagnoseCheck, Wake, Change, Cancel, vars, outVars
    <3> QED
      BY <2>2, <2>3, <3>1
  <2> QED
    BY NextCases, <2>1, <2>4, <2>5, <2>6
<1> QED
  BY <1>1, HealthInvariant, BusInvariant, PTL DEF Spec, AlertsAlternate
=============================================================================
