---------------------------- MODULE DaemonProofs ----------------------------
(***************************************************************************)
(* Proofs about the daemon from its start to the end of its shutdown, for  *)
(* every set of events, every size of the bus and every set of cooldowns:  *)
(* what is published is handed over in order, what is published up to the  *)
(* shutdown event is handed over or suppressed before the process ends,    *)
(* and an alert is suppressed only with reason.                            *)
(***************************************************************************)
EXTENDS Daemon, SequenceTheorems, TLAPS

\* The number of events taken off the bus so far.
Out == published - Len(bus)

InHand(r) == runner[r].at \in {"received", "sending"}

\* What is in the bus and in the hands of a runner are events that were
\* published, not the placeholders of an idle runner.
Typed ==
  /\ TypeOK
  /\ \A r \in Runners : InHand(r) => runner[r].item \in Item

\* main takes over from the dispatcher only once it is done, so that one of the
\* two at most has an event in hand.
OneRunner ==
  /\ runner["main"].at \in {"idle", "received", "sending"}
  /\ runner["main"].at # "idle" => main = "draining"
  /\ main \in {"draining", "stopped"} => runner["dispatcher"].at = "done"
  /\ main = "stopped" => bus = <<>>

\* The bus holds the last events published, in order; the one before them is in
\* hand or dealt with, all others were dealt with.
Flow ==
  /\ Out \in Nat
  /\ \A i \in DOMAIN bus : bus[i].no = Out + i
  /\ \A r \in Runners : InHand(r) => Out > 0 /\ runner[r].item.no = Out
  /\ \A k \in DOMAIN log : log[k].no \in 1..Out
  /\ \A r \in Runners : runner[r].at = "received" =>
       /\ Out \notin suppressed
       /\ \A k \in DOMAIN log : log[k].no < Out
  /\ suppressed \subseteq 1..Out
  /\ \A n \in 1..Out : \/ n \in suppressed
                       \/ \E k \in DOMAIN log : log[k].no = n
                       \/ n = Out /\ \E r \in Runners : runner[r].at = "received"

\* The event with the number shutdownNo is the one of source "shutdown", and it
\* was not suppressed.
ShutdownInv ==
  /\ shutdownNo \in 0..published
  /\ main \in {"starting", "serving", "signalled"} <=> shutdownNo = 0
  /\ \A i \in DOMAIN bus : bus[i].no = shutdownNo <=> bus[i].event.source = "shutdown"
  /\ \A r \in Runners : InHand(r) =>
       (runner[r].item.no = shutdownNo <=> runner[r].item.event.source = "shutdown")
  /\ \A k \in DOMAIN log : log[k].no = shutdownNo <=> log[k].event.source = "shutdown"
  /\ shutdownNo \notin suppressed

\* The last alert of source s in the log is number k.
LastOf(s, k) ==
  /\ k \in DOMAIN log /\ log[k].event.source = s
  /\ \A m \in DOMAIN log : m > k => log[m].event.source # s

\* The filters remember alerts of the log: a deadline belongs to one of them, is
\* not before that of any other with its key, and a key is that of the last alert
\* of its source.
FilterInv ==
  /\ \A c \in DOMAIN cooledUntil : \E k \in DOMAIN log :
       LET e == log[k].event IN
       /\ c = CooldownKey(e) /\ Cooldown(e.type) > 0
       /\ cooledUntil[c] = log[k].at + Cooldown(e.type)
  /\ \A k \in DOMAIN log : Cooldown(log[k].event.type) > 0 =>
       /\ CooldownKey(log[k].event) \in DOMAIN cooledUntil
       /\ cooledUntil[CooldownKey(log[k].event)] >= log[k].at + Cooldown(log[k].event.type)
  /\ \A s \in DOMAIN lastKeys : \E k \in DOMAIN log :
       LastOf(s, k) /\ lastKeys[s] = DedupKey(log[k].event)

-----------------------------------------------------------------------------
(* The steps. *)

\* What Next allows: a step of one of the actions, or none.
LEMMA NextCases ==
  ASSUME [Next]_vars
  PROVE  \/ \E e \in Reports : ProducerPublish(e)
         \/ main # "stopped" /\ DispatcherDone
         \/ main # "stopped" /\ \E r \in Runners : Receive(r)
         \/ main # "stopped" /\ \E r \in Runners : Suppress(r)
         \/ main # "stopped" /\ \E r \in Runners : Forward(r)
         \/ main # "stopped" /\ \E r \in Runners : Sent(r)
         \/ Started
         \/ Signal
         \/ AnnounceShutdown
         \/ GraceEnds
         \/ Join
         \/ Exit
         \/ Tick
         \/ UNCHANGED vars
BY DEF Next, RunnerStep, MainStep, Process, Stopped

\* A bus and a log are functions on 1..n.
LEMMA Domains ==
  ASSUME TypeOK
  PROVE  /\ Len(bus) \in Nat /\ DOMAIN bus = 1..Len(bus)
         /\ \A i \in DOMAIN bus : bus[i] \in Item
         /\ Len(log) \in Nat /\ DOMAIN log = 1..Len(log)
         /\ \A k \in DOMAIN log : log[k] \in [no : Nat, event : Events, at : Nat]
         /\ DOMAIN runner = Runners
BY LenProperties, ElementOfSeq DEF TypeOK

\* Publish (bus.go) puts one item behind those that are there.
LEMMA PublishEffect ==
  ASSUME TypeOK, NEW e \in Events, Publish(e)
  PROVE  /\ bus' \in Seq(Item)
         /\ Len(bus') = Len(bus) + 1 /\ Len(bus') <= BusSize
         /\ \A i \in 1..Len(bus) : bus'[i] = bus[i]
         /\ bus'[Len(bus) + 1] = [no |-> published + 1, event |-> e]
         /\ published' = published + 1 /\ published' \in Nat
         /\ Out' = Out
<1> DEFINE x == [no |-> published + 1, event |-> e]
<1>1. x \in Item /\ bus \in Seq(Item) /\ published \in Nat
  BY DEF TypeOK, Item
<1>2. bus' = Append(bus, x) /\ published' = published + 1 /\ Len(bus) < BusSize
  BY DEF Publish
<1>3. /\ bus' \in Seq(Item) /\ Len(bus') = Len(bus) + 1
      /\ \A i \in 1..Len(bus) : bus'[i] = bus[i]
      /\ bus'[Len(bus) + 1] = x
  BY <1>1, <1>2, AppendProperties
<1>4. Len(bus) \in Nat /\ BusSize \in Nat
  BY Domains, DaemonAssumption
<1> QED
  BY <1>1, <1>2, <1>3, <1>4 DEF Out

\* A receive from the channel takes the first item and leaves the others.
LEMMA ReceiveEffect ==
  ASSUME TypeOK, bus # <<>>, bus' = Tail(bus), published' = published
  PROVE  /\ Head(bus) = bus[1] /\ Head(bus) \in Item
         /\ 1 \in DOMAIN bus
         /\ bus' \in Seq(Item) /\ Len(bus') = Len(bus) - 1
         /\ \A i \in 1..Len(bus') : bus'[i] = bus[i + 1]
         /\ Out' = Out + 1
<1>1. bus \in Seq(Item) /\ Len(bus) \in Nat \ {0} /\ published \in Nat
  BY EmptySeq DEF TypeOK
<1>2. Head(bus) \in Item /\ bus' \in Seq(Item) /\ Len(bus') = Len(bus) - 1
      /\ \A i \in 1..Len(bus') : bus'[i] = bus[i + 1]
  BY <1>1, HeadTailProperties
<1>3. Head(bus) = bus[1]
  BY <1>1
<1> QED
  BY <1>1, <1>2, <1>3, Domains DEF Out

\* Forward writes one alert behind the others in the log.
LEMMA ForwardEffect ==
  ASSUME Typed, NEW r \in Runners, Forward(r)
  PROVE  /\ log' \in Seq([no : Nat, event : Events, at : Nat])
         /\ Len(log') = Len(log) + 1
         /\ \A k \in 1..Len(log) : log'[k] = log[k]
         /\ log'[Len(log) + 1].no = runner[r].item.no
         /\ log'[Len(log) + 1].event = runner[r].item.event
         /\ log'[Len(log) + 1].at = now
         /\ DOMAIN log' = 1..(Len(log) + 1)
         /\ runner[r].item \in Item
<1> DEFINE x == [no |-> runner[r].item.no, event |-> runner[r].item.event, at |-> now]
           S == [no : Nat, event : Events, at : Nat]
<1>1. runner[r].item \in Item
  BY DEF Typed, InHand, Forward
<1>2. x \in S /\ log \in Seq(S)
  BY <1>1 DEF Typed, TypeOK, Item
<1>3. log' = Append(log, x)
  BY DEF Forward
<1> HIDE DEF x, S
<1>4. /\ log' \in Seq(S) /\ Len(log') = Len(log) + 1
      /\ \A k \in 1..Len(log) : log'[k] = log[k]
      /\ log'[Len(log) + 1] = x
  BY <1>2, <1>3, AppendProperties
<1>5. DOMAIN log' = 1..(Len(log) + 1)
  BY <1>4, LenProperties
<1>6. /\ log'[Len(log) + 1].no = runner[r].item.no
      /\ log'[Len(log) + 1].event = runner[r].item.event
      /\ log'[Len(log) + 1].at = now
  BY <1>4 DEF x
<1> QED
  BY <1>1, <1>4, <1>5, <1>6 DEF S
-----------------------------------------------------------------------------
(* Types. *)

\* A step that leaves the bus, the log and the filters alone.
LEMMA TypeFrame ==
  ASSUME Typed, UNCHANGED <<bus, filterVars, published, log>>,
         main' \in {"starting", "serving", "signalled", "grace", "joining", "draining",
                    "stopped"},
         runner' \in [Runners -> [at : {"idle", "received", "sending", "done"},
                                  item : Item \union {Nothing}]],
         \A r \in Runners : InHand(r)' => runner'[r].item \in Item,
         now' \in Nat, shutdownNo' \in Nat, suppressed' \subseteq Nat
  PROVE  Typed'
BY DEF Typed, TypeOK, filterVars, InHand

\* What Put does to a map of numbers.
LEMMA PutType ==
  ASSUME NEW m, \A k \in DOMAIN m : m[k] \in Nat, NEW k0, NEW v \in Nat
  PROVE  \A k \in DOMAIN Put(m, k0, v) : Put(m, k0, v)[k] \in Nat
BY DEF Put

\* Every step keeps the types.
LEMMA TypedStep ==
  ASSUME Typed, [Next]_vars
  PROVE  Typed'
<1> DEFINE Mains == {"starting", "serving", "signalled", "grace", "joining", "draining",
                     "stopped"}
           RunnerT == [Runners -> [at : {"idle", "received", "sending", "done"},
                                   item : Item \union {Nothing}]]
<1>0. /\ TypeOK
      /\ \A r \in Runners : InHand(r) => runner[r].item \in Item
      /\ main \in Mains /\ runner \in RunnerT
      /\ now \in Nat /\ published \in Nat /\ shutdownNo \in Nat /\ suppressed \subseteq Nat
      /\ \A k \in DOMAIN cooledUntil : cooledUntil[k] \in Nat
  BY DEF Typed, TypeOK
<1>1. ASSUME NEW e \in Events, Publish(e), UNCHANGED <<runner, filterVars, now, log,
                                                       suppressed>>,
             main' \in Mains, shutdownNo' \in Nat
      PROVE  Typed'
  BY <1>0, <1>1, PublishEffect DEF Typed, TypeOK, InHand, filterVars
<1>2. ASSUME NEW e \in Reports, ProducerPublish(e)
      PROVE  Typed'
  BY <1>0, <1>1, <1>2 DEF ProducerPublish, Events
<1>3. CASE Started
  BY <1>0, <1>1, <1>3 DEF Started, Events
<1>4. CASE AnnounceShutdown
  BY <1>0, <1>1, <1>4 DEF AnnounceShutdown, Events
<1>5. ASSUME NEW r \in Runners, Receive(r)
      PROVE  Typed'
  <2>1. bus # <<>> /\ bus' = Tail(bus) /\ UNCHANGED <<main, filterVars, now, historyVars>>
        /\ runner' = [runner EXCEPT ![r] = [at |-> "received", item |-> Head(bus)]]
    BY <1>5 DEF Receive
  <2>2. Head(bus) \in Item /\ bus' \in Seq(Item) /\ Len(bus') = Len(bus) - 1
    BY <1>0, <2>1, ReceiveEffect DEF historyVars
  <2>3. Len(bus') <= BusSize
    BY <1>0, <2>2, Domains, DaemonAssumption DEF TypeOK
  <2>4. runner' \in RunnerT /\ \A s \in Runners : InHand(s)' => runner'[s].item \in Item
    BY <1>0, <2>1, <2>2 DEF InHand
  <2> QED
    BY <1>0, <2>1, <2>2, <2>3, <2>4 DEF Typed, TypeOK, filterVars, historyVars
<1>6. ASSUME NEW r \in Runners, Suppress(r)
      PROVE  Typed'
  <2>1. runner[r].item.no \in Nat
    BY <1>0, <1>6 DEF Suppress, InHand, Item
  <2>2. runner' \in RunnerT /\ \A s \in Runners : InHand(s)' => runner'[s].item \in Item
    BY <1>0, <1>6 DEF Suppress, InHand
  <2> QED
    BY <1>0, <1>6, <2>1, <2>2, TypeFrame DEF Suppress
<1>7. ASSUME NEW r \in Runners, Forward(r)
      PROVE  Typed'
  <2>1. log' \in Seq([no : Nat, event : Events, at : Nat])
    BY <1>7, ForwardEffect
  <2>2. runner' \in RunnerT /\ \A s \in Runners : InHand(s)' => runner'[s].item \in Item
    BY <1>0, <1>7 DEF Forward, InHand
  <2>3. \A k \in DOMAIN cooledUntil' : cooledUntil'[k] \in Nat
    <3> DEFINE e == runner[r].item.event
    <3>1. Cooldown(e.type) \in Nat
      BY DurationAssumption DEF Cooldown
    <3>2. now + Cooldown(e.type) \in Nat
      BY <1>0, <3>1
    <3>3. cooledUntil' = RecordCooldown(cooledUntil, e, now)
      BY <1>7 DEF Forward
    <3> HIDE DEF e
    <3> QED
      BY <1>0, <3>2, <3>3, PutType DEF RecordCooldown
  <2>4. UNCHANGED <<main, bus, now, published, shutdownNo, suppressed>>
    BY <1>7 DEF Forward
  <2> QED
    BY <1>0, <2>1, <2>2, <2>3, <2>4 DEF Typed, TypeOK
<1>8. ASSUME NEW r \in Runners, Sent(r)
      PROVE  Typed'
  <2>1. runner' \in RunnerT /\ \A s \in Runners : InHand(s)' => runner'[s].item \in Item
    BY <1>0, <1>8 DEF Sent, InHand
  <2> QED
    BY <1>0, <1>8, <2>1, TypeFrame DEF Sent, historyVars
<1>9. CASE DispatcherDone
  <2>1. runner' \in RunnerT /\ \A s \in Runners : InHand(s)' => runner'[s].item \in Item
    BY <1>0, <1>9 DEF DispatcherDone, InHand, Runners
  <2> QED
    BY <1>0, <1>9, <2>1, TypeFrame DEF DispatcherDone, historyVars
<1>10. ASSUME UNCHANGED <<bus, runner, filterVars, historyVars>>, main' \in Mains, now' \in Nat
       PROVE  Typed'
  BY <1>0, <1>10, TypeFrame DEF InHand, historyVars
<1>11. CASE Signal \/ GraceEnds \/ Join \/ Exit \/ Tick \/ UNCHANGED vars
  <2>1. UNCHANGED <<bus, runner, filterVars, historyVars>> /\ main' \in Mains /\ now' \in Nat
    BY <1>0, <1>11 DEF Signal, GraceEnds, Join, Exit, Tick, vars
  <2> QED
    BY <1>10, <2>1
<1> QED
  BY NextCases, <1>2, <1>3, <1>4, <1>5, <1>6, <1>7, <1>8, <1>9, <1>11

\* The types, and the item of a runner that has one.
LEMMA TypedInvariant == Spec => []Typed
<1>1. Init => Typed
  <2> SUFFICES ASSUME Init PROVE Typed
    OBVIOUS
  <2>1. \A S : <<>> \in Seq(S) /\ Len(<<>>) = 0
    BY EmptySeq
  <2>2. DOMAIN cooledUntil = {}
    BY DEF Init, NoEntries
  <2> QED
    BY <2>1, <2>2, DaemonAssumption DEF Init, Typed, TypeOK, InHand
<1> QED
  BY <1>1, TypedStep, PTL DEF Spec

\* The types of the daemon's state: the bus never holds more than its buffer.
THEOREM TypeCorrect == Spec => []TypeOK
<1>1. Typed => TypeOK
  BY DEF Typed
<1> QED
  BY <1>1, TypedInvariant, PTL
-----------------------------------------------------------------------------
(* One runner at a time. *)

\* Join waits for the dispatcher, and only a draining main runs process.
LEMMA OneRunnerStep ==
  ASSUME Typed, OneRunner, [Next]_vars
  PROVE  OneRunner'
<1>0. TypeOK
  BY DEF Typed
<1>1. ASSUME NEW e \in Reports, ProducerPublish(e)
      PROVE  OneRunner'
  BY <1>1 DEF ProducerPublish, OneRunner
<1>2. CASE main # "stopped" /\ DispatcherDone
  BY <1>0, <1>2 DEF DispatcherDone, OneRunner, TypeOK, Runners
<1>3. ASSUME NEW r \in Runners, main # "stopped",
             Receive(r) \/ Suppress(r) \/ Forward(r) \/ Sent(r)
      PROVE  OneRunner'
  <2>1. runner[r].at \in {"idle", "received", "sending"} /\ (r = "main" => main = "draining")
    BY <1>3 DEF Receive, Suppress, Forward, Sent, OneRunner, Runners
  <2>2. /\ main' = main
        /\ \A s \in Runners : s # r => runner'[s] = runner[s]
        /\ runner'[r].at \in {"idle", "received", "sending"}
    BY <1>0, <1>3 DEF Receive, Suppress, Forward, Sent, TypeOK
  <2> QED
    BY <1>3, <2>1, <2>2 DEF OneRunner, Runners
<1>4. CASE Started \/ Signal \/ AnnounceShutdown \/ GraceEnds \/ Join
  BY <1>4 DEF Started, Signal, AnnounceShutdown, GraceEnds, Join, OneRunner
<1>5. CASE Exit \/ Tick \/ UNCHANGED vars
  BY <1>5 DEF Exit, Tick, vars, OneRunner
<1> QED
  BY NextCases, <1>1, <1>2, <1>3, <1>4, <1>5

\* One runner at most has an event in hand, in every reachable state.
LEMMA OneRunnerInvariant == Spec => []OneRunner
<1>1. Init => OneRunner
  BY DEF Init, OneRunner, Runners
<1> QED
  BY <1>1, OneRunnerStep, TypedInvariant, PTL DEF Spec

\* While a runner works, or may take an event, the other has none in hand.
LEMMA Alone ==
  ASSUME TypeOK, OneRunner, NEW r \in Runners, NEW s \in Runners, s # r,
         InHand(r) \/ Receive(r)
  PROVE  ~InHand(s)
BY DEF OneRunner, InHand, Receive, Runners
-----------------------------------------------------------------------------
(* What becomes of an event. *)

\* A step that takes nothing off the bus, handles nothing and lets no runner go on.
LEMMA FlowFrame ==
  ASSUME TypeOK, Flow, UNCHANGED <<log, suppressed>>, Out' = Out,
         \A i \in DOMAIN bus' : bus'[i].no = Out + i,
         \A r \in Runners : InHand(r)' => runner'[r] = runner[r],
         \A r \in Runners : runner[r].at = "received" => runner'[r] = runner[r]
  PROVE  Flow'
BY DEF Flow, InHand

\* Events leave the bus in the order of their numbers, one at a time.
LEMMA FlowStep ==
  ASSUME Typed, OneRunner, Flow, [Next]_vars
  PROVE  Flow'
<1>0. /\ TypeOK /\ Out \in Nat /\ DOMAIN log = 1..Len(log) /\ Len(log) \in Nat
      /\ DOMAIN bus = 1..Len(bus) /\ Len(bus) \in Nat
      /\ runner \in [Runners -> [at : {"idle", "received", "sending", "done"},
                                 item : Item \union {Nothing}]]
      /\ \A i \in DOMAIN bus : bus[i].no = Out + i
  BY Domains DEF Typed, Flow, TypeOK
<1>1. ASSUME NEW e \in Events, Publish(e), UNCHANGED <<runner, log, suppressed>>
      PROVE  Flow'
  <2>1. /\ Out' = Out /\ Len(bus') = Len(bus) + 1 /\ bus' \in Seq(Item)
        /\ \A i \in 1..Len(bus) : bus'[i] = bus[i]
        /\ bus'[Len(bus) + 1] = [no |-> published + 1, event |-> e]
    BY <1>0, <1>1, PublishEffect
  <2>2. DOMAIN bus' = 1..(Len(bus) + 1)
    BY <2>1, LenProperties
  <2>3. Out + (Len(bus) + 1) = published + 1
    BY <1>0 DEF Out, TypeOK
  <2>4. \A i \in DOMAIN bus' : bus'[i].no = Out + i
    <3> SUFFICES ASSUME NEW i \in 1..(Len(bus) + 1) PROVE bus'[i].no = Out + i
      BY <2>2
    <3>1. CASE i = Len(bus) + 1
      BY <2>1, <2>3, <3>1
    <3>2. CASE i \in 1..Len(bus)
      BY <1>0, <2>1, <3>2
    <3> QED
      BY <1>0, <3>1, <3>2
  <2> QED
    BY <1>0, <1>1, <2>1, <2>4, FlowFrame
<1>2. ASSUME NEW e \in Reports, ProducerPublish(e)
      PROVE  Flow'
  BY <1>1, <1>2 DEF ProducerPublish, Events
<1>3. CASE Started \/ AnnounceShutdown
  BY <1>1, <1>3 DEF Started, AnnounceShutdown, Events
<1>4. ASSUME NEW r \in Runners, Receive(r)
      PROVE  Flow'
  <2>1. bus # <<>> /\ bus' = Tail(bus) /\ UNCHANGED <<published, log, suppressed>>
        /\ runner' = [runner EXCEPT ![r] = [at |-> "received", item |-> Head(bus)]]
    BY <1>4 DEF Receive, historyVars
  <2>2. /\ Head(bus) = bus[1] /\ 1 \in DOMAIN bus
        /\ bus' \in Seq(Item) /\ Len(bus') = Len(bus) - 1
        /\ \A i \in 1..Len(bus') : bus'[i] = bus[i + 1]
        /\ Out' = Out + 1
    BY <1>0, <2>1, ReceiveEffect
  <2>3. DOMAIN bus' = 1..(Len(bus) - 1)
    BY <2>2, LenProperties
  <2>4. \A i \in DOMAIN bus' : bus'[i].no = Out' + i
    <3> SUFFICES ASSUME NEW i \in 1..(Len(bus) - 1) PROVE bus'[i].no = Out' + i
      BY <2>3
    <3>1. i + 1 \in DOMAIN bus /\ i \in 1..Len(bus')
      BY <1>0, <2>2
    <3>2. bus'[i] = bus[i + 1] /\ bus[i + 1].no = Out + (i + 1)
      BY <1>0, <2>2, <3>1
    <3>3. Out + (i + 1) = (Out + 1) + i
      BY <1>0
    <3> QED
      BY <2>2, <3>2, <3>3
  <2>5. /\ runner'[r].at = "received" /\ runner'[r].item.no = Out'
        /\ \A s \in Runners : s # r => ~InHand(s)' /\ ~InHand(s)
    <3>1. \A s \in Runners : s # r => ~InHand(s) /\ runner'[s] = runner[s]
      BY <1>0, <1>4, <2>1, Alone DEF Typed
    <3> QED
      BY <1>0, <2>1, <2>2, <3>1 DEF InHand
  <2>6. ~InHand(r)
    BY <1>4 DEF Receive, InHand
  <2>7. /\ \A k \in DOMAIN log : log[k].no \in 1..Out
        /\ suppressed \subseteq 1..Out
        /\ \A n \in 1..Out : \/ n \in suppressed
                             \/ \E k \in DOMAIN log : log[k].no = n
    BY <2>5, <2>6 DEF Flow, InHand
  <2> QED
    BY <1>0, <2>1, <2>2, <2>4, <2>5, <2>7 DEF Flow, InHand
<1>5. ASSUME NEW r \in Runners, Suppress(r)
      PROVE  Flow'
  <2>1. /\ runner[r].at = "received"
        /\ runner' = [runner EXCEPT ![r] = [at |-> "idle", item |-> Nothing]]
        /\ suppressed' = suppressed \union {runner[r].item.no}
        /\ UNCHANGED <<bus, published, log>>
    BY <1>5 DEF Suppress
  <2>2. runner[r].item.no = Out /\ Out > 0
    BY <2>1 DEF Flow, InHand
  <2>3. Out' = Out
    BY <2>1 DEF Out
  <2>4. \A s \in Runners : ~InHand(s)'
    <3>1. \A s \in Runners : s # r => ~InHand(s) /\ runner'[s] = runner[s]
      BY <1>0, <2>1, Alone DEF Typed, InHand
    <3> QED
      BY <1>0, <2>1, <3>1 DEF InHand
  <2> QED
    BY <1>0, <2>1, <2>2, <2>3, <2>4 DEF Flow, InHand
<1>6. ASSUME NEW r \in Runners, Forward(r)
      PROVE  Flow'
  <2>1. /\ runner[r].at = "received"
        /\ runner' = [runner EXCEPT ![r].at = "sending"]
        /\ UNCHANGED <<bus, published, suppressed>>
    BY <1>6 DEF Forward
  <2>2. runner[r].item.no = Out /\ Out > 0
    BY <2>1 DEF Flow, InHand
  <2>3. Out' = Out
    BY <2>1 DEF Out
  <2>4. /\ DOMAIN log' = 1..(Len(log) + 1)
        /\ \A k \in 1..Len(log) : log'[k] = log[k]
        /\ log'[Len(log) + 1].no = Out
    BY <1>6, <2>2, ForwardEffect
  <2>5. /\ \A s \in Runners : s # r => ~InHand(s)'
        /\ runner'[r].at = "sending" /\ runner'[r].item = runner[r].item
    <3>1. \A s \in Runners : s # r => ~InHand(s) /\ runner'[s] = runner[s]
      BY <1>0, <2>1, Alone DEF Typed, InHand
    <3> QED
      BY <1>0, <2>1, <3>1 DEF InHand
  <2>6. \A k \in DOMAIN log' : log'[k].no \in 1..Out
    BY <1>0, <2>2, <2>4 DEF Flow
  <2>7. \A n \in 1..Out : n \in suppressed \/ \E k \in DOMAIN log' : log'[k].no = n
    <3> SUFFICES ASSUME NEW n \in 1..Out, n \notin suppressed
                 PROVE  \E k \in DOMAIN log' : log'[k].no = n
      OBVIOUS
    <3>1. CASE n = Out
      BY <1>0, <2>4, <3>1
    <3>2. CASE \E k \in DOMAIN log : log[k].no = n
      BY <1>0, <2>4, <3>2
    <3> QED
      BY <3>1, <3>2 DEF Flow
  <2> QED
    BY <1>0, <2>1, <2>2, <2>3, <2>5, <2>6, <2>7 DEF Flow, InHand
<1>7. ASSUME NEW r \in Runners, Sent(r)
      PROVE  Flow'
  <2>1. /\ runner[r].at = "sending" /\ UNCHANGED <<bus, published, log, suppressed>>
        /\ runner' = [runner EXCEPT ![r] = [at |-> "idle", item |-> Nothing]]
    BY <1>7 DEF Sent, historyVars
  <2>2. Out' = Out
    BY <2>1 DEF Out
  <2> QED
    BY <1>0, <2>1, <2>2, FlowFrame DEF InHand
<1>8. CASE DispatcherDone
  <2>1. /\ runner["dispatcher"].at = "idle" /\ UNCHANGED <<bus, published, log, suppressed>>
        /\ runner' = [runner EXCEPT !["dispatcher"].at = "done"]
    BY <1>8 DEF DispatcherDone, historyVars
  <2>2. Out' = Out
    BY <2>1 DEF Out
  <2> QED
    BY <1>0, <2>1, <2>2, FlowFrame DEF InHand, Runners
<1>9. CASE Signal \/ GraceEnds \/ Join \/ Exit \/ Tick \/ UNCHANGED vars
  <2>1. UNCHANGED <<bus, runner, published, log, suppressed>>
    BY <1>9 DEF Signal, GraceEnds, Join, Exit, Tick, vars, historyVars
  <2>2. Out' = Out
    BY <2>1 DEF Out
  <2> QED
    BY <1>0, <2>1, <2>2, FlowFrame
<1> QED
  BY NextCases, <1>2, <1>3, <1>4, <1>5, <1>6, <1>7, <1>8, <1>9

\* Every event taken off the bus is in hand, handed over or suppressed.
LEMMA FlowInvariant == Spec => []Flow
<1>1. Init => Flow
  <2> SUFFICES ASSUME Init PROVE Flow
    OBVIOUS
  <2>1. bus = <<>> /\ log = <<>> /\ published = 0 /\ suppressed = {}
        /\ \A r \in Runners : runner[r].at = "idle"
    BY DEF Init
  <2>2. DOMAIN bus = {} /\ DOMAIN log = {}
    BY <2>1
  <2>3. Out = 0 - 0
    BY <2>1, EmptySeq DEF Out
  <2> QED
    BY <2>1, <2>2, <2>3 DEF Flow, InHand
<1> QED
  BY <1>1, FlowStep, TypedInvariant, OneRunnerInvariant, PTL DEF Spec

\* Alerts are handed to the notifier in the order in which they were published:
\* the event in hand is newer than every one in the log.
THEOREM OrderTheorem == Spec => []HandedInOrder
<1>1. Init => HandedInOrder
  BY DEF Init, HandedInOrder
<1>2. Typed /\ Flow /\ HandedInOrder /\ [Next]_vars => HandedInOrder'
  <2> SUFFICES ASSUME Typed, Flow, HandedInOrder, [Next]_vars
               PROVE  HandedInOrder'
    OBVIOUS
  <2>0. DOMAIN log = 1..Len(log) /\ Len(log) \in Nat
    BY Domains DEF Typed
  <2>1. ASSUME NEW r \in Runners, Forward(r)
        PROVE  HandedInOrder'
    <3>1. /\ DOMAIN log' = 1..(Len(log) + 1)
          /\ \A k \in 1..Len(log) : log'[k] = log[k]
          /\ log'[Len(log) + 1].no = runner[r].item.no
      BY <2>1, ForwardEffect
    <3>2. \A k \in 1..Len(log) : log[k].no < runner[r].item.no
      BY <2>0, <2>1 DEF Flow, Forward, InHand
    <3> SUFFICES ASSUME NEW i \in 1..(Len(log) + 1), NEW j \in 1..(Len(log) + 1), i < j
                 PROVE  log'[i].no < log'[j].no
      BY <3>1 DEF HandedInOrder
    <3>3. i \in 1..Len(log)
      BY <2>0
    <3>4. CASE j = Len(log) + 1
      BY <3>1, <3>2, <3>3, <3>4
    <3>5. CASE j \in 1..Len(log)
      BY <2>0, <3>1, <3>3, <3>5 DEF HandedInOrder
    <3> QED
      BY <2>0, <3>4, <3>5
  <2>2. ASSUME log' = log
        PROVE  HandedInOrder'
    BY <2>2 DEF HandedInOrder
  <2>3. log' = log \/ \E r \in Runners : Forward(r)
    BY NextCases DEF ProducerPublish, DispatcherDone, Receive, Suppress, Sent, Started,
       Signal, AnnounceShutdown, GraceEnds, Join, Exit, Tick, vars, historyVars
  <2> QED
    BY <2>1, <2>2, <2>3
<1> QED
  BY <1>1, <1>2, TypedInvariant, FlowInvariant, PTL DEF Spec
-----------------------------------------------------------------------------
(* The filters. *)

\* A cooldown is kept by source and type, and a duration is a number.
LEMMA CooldownFacts ==
  /\ \A a, b : CooldownKey(a) = CooldownKey(b) <=> a.source = b.source /\ a.type = b.type
  /\ \A t : Cooldown(t) \in Nat
BY DurationAssumption DEF CooldownKey, Cooldown

\* An event is determined by its deduplication key.
LEMMA DedupFacts ==
  /\ \A a \in Events, b \in Events : DedupKey(a) = DedupKey(b) => a = b
  /\ \A a, b : DedupKey(a) = DedupKey(b) => a.source = b.source
<1>1. \A a \in Events : a = [source |-> a.source, type |-> a.type, text |-> a.text]
  BY ReportsAssumption DEF Events, DaemonStart, ShutdownStarted
<1> QED
  BY <1>1 DEF DedupKey

\* Only Forward writes the log and the two filters.
LEMMA OnlyForward ==
  ASSUME [Next]_vars
  PROVE  UNCHANGED <<log, cooledUntil, lastKeys>> \/ \E r \in Runners : Forward(r)
BY NextCases DEF ProducerPublish, DispatcherDone, Receive, Suppress, Sent, Started, Signal,
   AnnounceShutdown, GraceEnds, Join, Exit, Tick, vars, filterVars, historyVars

\* What IsAllowed says of the log: the alerts of this source and type are older
\* than their cooldown.
LEMMA AllowedMeansOld ==
  ASSUME Typed, FilterInv, NEW e, IsAllowed(cooledUntil, e, now), NEW k \in DOMAIN log,
         log[k].event.source = e.source, log[k].event.type = e.type, Cooldown(e.type) > 0
  PROVE  now > log[k].at + Cooldown(e.type)
<1>1. CooldownKey(log[k].event) = CooldownKey(e)
  BY CooldownFacts
<1>2. /\ CooldownKey(e) \in DOMAIN cooledUntil
      /\ cooledUntil[CooldownKey(e)] >= log[k].at + Cooldown(e.type)
  BY <1>1 DEF FilterInv
<1>3. now > cooledUntil[CooldownKey(e)] /\ cooledUntil[CooldownKey(e)] \in Nat
  BY <1>2 DEF IsAllowed, Typed, TypeOK
<1>4. log[k].at \in Nat /\ now \in Nat /\ Cooldown(e.type) \in Nat
  BY Domains, CooldownFacts DEF Typed, TypeOK
<1> QED
  BY <1>2, <1>3, <1>4

\* The filters are written with the log, by Forward.
LEMMA FilterStep ==
  ASSUME Typed, FilterInv, [Next]_vars
  PROVE  FilterInv'
<1>1. CASE UNCHANGED <<log, cooledUntil, lastKeys>>
  BY <1>1 DEF FilterInv, LastOf
<1>2. ASSUME NEW r \in Runners, Forward(r)
      PROVE  FilterInv'
  <2> DEFINE e == runner[r].item.event
             n == Len(log) + 1
             c == CooldownKey(e)
  <2>1. /\ cooledUntil' = RecordCooldown(cooledUntil, e, now)
        /\ lastKeys' = RecordKey(lastKeys, e)
        /\ IsAllowed(cooledUntil, e, now)
    BY <1>2 DEF Forward
  <2>2. /\ DOMAIN log = 1..Len(log) /\ Len(log) \in Nat
        /\ now \in Nat
        /\ \A k \in DOMAIN log : log[k].at \in Nat
    BY Domains DEF Typed, TypeOK
  <2>3. /\ DOMAIN log' = 1..n
        /\ \A k \in 1..Len(log) : log'[k] = log[k]
        /\ log'[n].event = e /\ log'[n].at = now
    BY <1>2, ForwardEffect
  <2>4. Cooldown(e.type) \in Nat
    BY CooldownFacts
  <2>5. Cooldown(e.type) > 0 =>
           /\ DOMAIN cooledUntil' = DOMAIN cooledUntil \union {c}
           /\ \A x \in DOMAIN cooledUntil' :
                cooledUntil'[x] = IF x = c THEN now + Cooldown(e.type) ELSE cooledUntil[x]
    BY <2>1 DEF RecordCooldown, Put
  <2>6. Cooldown(e.type) = 0 => cooledUntil' = cooledUntil
    BY <2>1 DEF RecordCooldown
  <2>7. n \in DOMAIN log' /\ \A k \in DOMAIN log : k \in DOMAIN log' /\ log'[k] = log[k]
    BY <2>2, <2>3
  <2> HIDE DEF e, n, c
  <2>8. ASSUME NEW x \in DOMAIN cooledUntil'
        PROVE  \E k \in DOMAIN log' :
                 /\ x = CooldownKey(log'[k].event) /\ Cooldown(log'[k].event.type) > 0
                 /\ cooledUntil'[x] = log'[k].at + Cooldown(log'[k].event.type)
    <3>1. CASE Cooldown(e.type) > 0 /\ x = c
      BY <2>3, <2>5, <2>7, <3>1 DEF c
    <3>2. CASE ~(Cooldown(e.type) > 0 /\ x = c)
      <4>1. x \in DOMAIN cooledUntil /\ cooledUntil'[x] = cooledUntil[x]
        BY <2>4, <2>5, <2>6, <2>8, <3>2
      <4> QED
        BY <2>7, <4>1 DEF FilterInv
    <3> QED
      BY <3>1, <3>2
  <2>9. ASSUME NEW k \in DOMAIN log', Cooldown(log'[k].event.type) > 0
        PROVE  /\ CooldownKey(log'[k].event) \in DOMAIN cooledUntil'
               /\ cooledUntil'[CooldownKey(log'[k].event)]
                    >= log'[k].at + Cooldown(log'[k].event.type)
    <3>1. CASE k = n
      BY <2>2, <2>3, <2>4, <2>5, <2>9, <3>1 DEF c
    <3>2. CASE k \in DOMAIN log /\ ~(Cooldown(e.type) > 0 /\ CooldownKey(log[k].event) = c)
      <4>1. /\ CooldownKey(log[k].event) \in DOMAIN cooledUntil
            /\ cooledUntil[CooldownKey(log[k].event)]
                 >= log[k].at + Cooldown(log[k].event.type)
        BY <2>7, <2>9, <3>2 DEF FilterInv
      <4> QED
        BY <2>4, <2>5, <2>6, <2>7, <3>2, <4>1
    <3>3. CASE k \in DOMAIN log /\ Cooldown(e.type) > 0 /\ CooldownKey(log[k].event) = c
      <4>1. log[k].event.source = e.source /\ log[k].event.type = e.type
        BY <3>3, CooldownFacts DEF c
      <4>2. now > log[k].at + Cooldown(e.type)
        BY <2>1, <3>3, <4>1, AllowedMeansOld
      <4>3. now + Cooldown(e.type) >= log[k].at + Cooldown(e.type)
        BY <2>2, <2>4, <3>3, <4>2
      <4> QED
        BY <2>5, <2>7, <3>3, <4>1, <4>3
    <3>4. k = n \/ k \in DOMAIN log
      BY <2>2, <2>3 DEF n
    <3> QED
      BY <3>1, <3>2, <3>3, <3>4
  <2>10. ASSUME NEW s \in DOMAIN lastKeys'
         PROVE  \E k \in DOMAIN log' : LastOf(s, k)' /\ lastKeys'[s] = DedupKey(log'[k].event)
    <3>1. CASE s = e.source
      <4>1. lastKeys'[s] = DedupKey(e)
        BY <2>1, <3>1 DEF RecordKey, Put
      <4>2. \A m \in DOMAIN log' : ~(m > n)
        BY <2>2, <2>3 DEF n
      <4> QED
        BY <2>3, <2>7, <3>1, <4>1, <4>2 DEF LastOf
    <3>2. CASE s # e.source
      <4>1. s \in DOMAIN lastKeys /\ lastKeys'[s] = lastKeys[s]
        BY <2>1, <2>10, <3>2 DEF RecordKey, Put
      <4>2. PICK k \in DOMAIN log : LastOf(s, k) /\ lastKeys[s] = DedupKey(log[k].event)
        BY <4>1 DEF FilterInv
      <4>3. ASSUME NEW m \in DOMAIN log', m > k
            PROVE  log'[m].event.source # s
        <5>1. m = n \/ m \in DOMAIN log
          BY <2>2, <2>3 DEF n
        <5> QED
          BY <2>3, <2>7, <3>2, <4>2, <4>3, <5>1 DEF LastOf
      <4> QED
        BY <2>7, <4>1, <4>2, <4>3 DEF LastOf
    <3> QED
      BY <3>1, <3>2
  <2> QED
    BY <2>8, <2>9, <2>10 DEF FilterInv
<1> QED
  BY <1>1, <1>2, OnlyForward

\* What the filters remember is in the log.
LEMMA FilterInvariant == Spec => []FilterInv
<1>1. Init => FilterInv
  <2> SUFFICES ASSUME Init PROVE FilterInv
    OBVIOUS
  <2>1. DOMAIN cooledUntil = {} /\ DOMAIN lastKeys = {} /\ DOMAIN log = {}
    BY DEF Init, NoEntries
  <2> QED
    BY <2>1 DEF FilterInv
<1> QED
  BY <1>1, FilterStep, TypedInvariant, PTL DEF Spec

\* An event that does not pass has a reason in the log: an alert of its source
\* and type whose cooldown runs, or itself as the last alert of its source.
LEMMA Reason ==
  ASSUME Typed, FilterInv, NEW e \in Events,
         ~IsAllowed(cooledUntil, e, now) \/ ~IsNew(lastKeys, e)
  PROVE  \E k \in DOMAIN log :
           /\ log[k].event.source = e.source
           /\ \/ /\ log[k].event.type = e.type
                 /\ now <= log[k].at + Cooldown(e.type) /\ Cooldown(e.type) > 0
              \/ log[k].event = e /\ LastOf(e.source, k)
<1>1. CASE ~IsAllowed(cooledUntil, e, now)
  <2>1. CooldownKey(e) \in DOMAIN cooledUntil /\ ~(now > cooledUntil[CooldownKey(e)])
    BY <1>1 DEF IsAllowed
  <2>2. PICK k \in DOMAIN log :
          /\ CooldownKey(e) = CooldownKey(log[k].event) /\ Cooldown(log[k].event.type) > 0
          /\ cooledUntil[CooldownKey(e)] = log[k].at + Cooldown(log[k].event.type)
    BY <2>1 DEF FilterInv
  <2>3. log[k].event.source = e.source /\ log[k].event.type = e.type
    BY <2>2, CooldownFacts
  <2>4. now \in Nat /\ cooledUntil[CooldownKey(e)] \in Nat
    BY <2>1 DEF Typed, TypeOK
  <2>5. now <= log[k].at + Cooldown(e.type)
    BY <2>1, <2>2, <2>3, <2>4
  <2> QED
    BY <2>2, <2>3, <2>5
<1>2. CASE ~IsNew(lastKeys, e)
  <2>1. e.source \in DOMAIN lastKeys /\ lastKeys[e.source] = DedupKey(e)
    BY <1>2 DEF IsNew
  <2>2. PICK k \in DOMAIN log :
          LastOf(e.source, k) /\ lastKeys[e.source] = DedupKey(log[k].event)
    BY <2>1 DEF FilterInv
  <2>3. log[k].event \in Events
    BY Domains DEF Typed
  <2>4. log[k].event = e
    BY <2>1, <2>2, <2>3, DedupFacts
  <2> QED
    BY <2>2, <2>4
<1> QED
  BY <1>1, <1>2

\* Two alerts of one source and type are handed over only with more than their
\* cooldown between them, for every set of durations.
THEOREM CooldownTheorem == Spec => []CooldownsKept
<1>1. Init => CooldownsKept
  BY DEF Init, CooldownsKept
<1>2. Typed /\ FilterInv /\ CooldownsKept /\ [Next]_vars => CooldownsKept'
  <2> SUFFICES ASSUME Typed, FilterInv, CooldownsKept, [Next]_vars
               PROVE  CooldownsKept'
    OBVIOUS
  <2>1. CASE log' = log
    BY <2>1 DEF CooldownsKept
  <2>2. ASSUME NEW r \in Runners, Forward(r)
        PROVE  CooldownsKept'
    <3> DEFINE n == Len(log) + 1
    <3>1. DOMAIN log = 1..Len(log) /\ Len(log) \in Nat
      BY Domains DEF Typed
    <3>2. /\ DOMAIN log' = 1..n
          /\ \A k \in 1..Len(log) : log'[k] = log[k]
          /\ log'[n].event = runner[r].item.event /\ log'[n].at = now
      BY <2>2, ForwardEffect
    <3>3. IsAllowed(cooledUntil, runner[r].item.event, now)
      BY <2>2 DEF Forward
    <3> SUFFICES ASSUME NEW i \in DOMAIN log', NEW j \in DOMAIN log', i < j,
                        log'[i].event.source = log'[j].event.source,
                        log'[i].event.type = log'[j].event.type,
                        Cooldown(log'[i].event.type) > 0
                 PROVE  log'[j].at > log'[i].at + Cooldown(log'[i].event.type)
      BY DEF CooldownsKept
    <3>4. i \in DOMAIN log
      BY <3>1, <3>2
    <3> HIDE DEF n
    <3>5. CASE j = n
      BY <3>1, <3>2, <3>3, <3>4, <3>5, AllowedMeansOld
    <3>6. CASE j \in DOMAIN log
      BY <3>1, <3>2, <3>4, <3>6 DEF CooldownsKept
    <3>7. j = n \/ j \in DOMAIN log
      BY <3>1, <3>2 DEF n
    <3> QED
      BY <3>5, <3>6, <3>7
  <2> QED
    BY <2>1, <2>2, OnlyForward
<1> QED
  BY <1>1, <1>2, TypedInvariant, FilterInvariant, PTL DEF Spec

\* An alert is suppressed only for an alert that was handed over: the same one as
\* the last of its source, or one of its source and type within the cooldown.
THEOREM SuppressionTheorem == Spec => SuppressedForReason
<1> DEFINE Reasons ==
      \A n \in suppressed' \ suppressed : \E r \in Runners : \E k \in DOMAIN log :
        LET e == runner[r].item.event IN
        /\ runner[r].item.no = n
        /\ log[k].event.source = e.source
        /\ \/ log[k].event.type = e.type /\ now <= log[k].at + Cooldown(e.type)
                                         /\ Cooldown(e.type) > 0
           \/ log[k].event = e
              /\ \A m \in DOMAIN log : m > k => log[m].event.source # e.source
<1>1. Typed /\ FilterInv /\ [Next]_vars => [Reasons]_vars
  <2> SUFFICES ASSUME Typed, FilterInv, [Next]_vars
               PROVE  Reasons
    OBVIOUS
  <2>1. CASE suppressed' = suppressed
    BY <2>1
  <2>2. ASSUME NEW r \in Runners, Suppress(r)
        PROVE  Reasons
    <3>1. /\ runner[r].at = "received" /\ suppressed' = suppressed \union {runner[r].item.no}
          /\ \/ ~IsAllowed(cooledUntil, runner[r].item.event, now)
             \/ ~IsNew(lastKeys, runner[r].item.event)
      BY <2>2 DEF Suppress
    <3>2. runner[r].item.event \in Events
      BY <3>1 DEF Typed, InHand, Item
    <3>3. PICK k \in DOMAIN log :
             /\ log[k].event.source = runner[r].item.event.source
             /\ \/ /\ log[k].event.type = runner[r].item.event.type
                   /\ now <= log[k].at + Cooldown(runner[r].item.event.type)
                   /\ Cooldown(runner[r].item.event.type) > 0
                \/ /\ log[k].event = runner[r].item.event
                   /\ LastOf(runner[r].item.event.source, k)
      BY <3>1, <3>2, Reason
    <3> QED
      BY <3>1, <3>3 DEF LastOf
  <2>3. suppressed' = suppressed \/ \E r \in Runners : Suppress(r)
    BY NextCases DEF ProducerPublish, DispatcherDone, Receive, Forward, Sent, Started,
       Signal, AnnounceShutdown, GraceEnds, Join, Exit, Tick, vars, historyVars
  <2> QED
    BY <2>1, <2>2, <2>3
<1> QED
  BY <1>1, TypedInvariant, FilterInvariant, PTL DEF Spec, SuppressedForReason

\* Where no cooldown applies the last alert of a source that was handed over says
\* what its last event said: what deduplication hides is no change.
THEOREM LastWordTheorem == Spec => []LastWord
<1>1. Init => LastWord
  BY DEF Init, LastWord, NoEntries
<1>2. Typed /\ FilterInv /\ LastWord /\ [Next]_vars => LastWord'
  <2> SUFFICES ASSUME Typed, FilterInv, LastWord, [Next]_vars,
                      NEW s \in DOMAIN lastSeen',
                      \A e \in Events : e.source = s => Cooldown(e.type) = 0
               PROVE  \E k \in DOMAIN log' :
                        /\ log'[k].event = lastSeen'[s]
                        /\ \A m \in DOMAIN log' : m > k => log'[m].event.source # s
    BY DEF LastWord
  <2>1. CASE UNCHANGED <<log, lastSeen>>
    BY <2>1 DEF LastWord
  <2>2. ASSUME NEW r \in Runners, s # runner[r].item.event.source,
               lastSeen' = Put(lastSeen, runner[r].item.event.source, runner[r].item.event)
        PROVE  \E k \in DOMAIN log :
                 /\ log[k].event = lastSeen'[s]
                 /\ \A m \in DOMAIN log : m > k => log[m].event.source # s
    <3>1. s \in DOMAIN lastSeen /\ lastSeen'[s] = lastSeen[s]
      BY <2>2 DEF Put
    <3> QED
      BY <3>1 DEF LastWord
  <2>3. ASSUME NEW r \in Runners, Suppress(r)
        PROVE  \E k \in DOMAIN log' :
                 /\ log'[k].event = lastSeen'[s]
                 /\ \A m \in DOMAIN log' : m > k => log'[m].event.source # s
    <3> DEFINE e == runner[r].item.event
    <3>1. /\ log' = log /\ runner[r].at = "received"
          /\ lastSeen' = Put(lastSeen, e.source, e)
          /\ ~IsAllowed(cooledUntil, e, now) \/ ~IsNew(lastKeys, e)
      BY <2>3 DEF Suppress
    <3>2. e \in Events
      BY <3>1 DEF Typed, InHand, Item
    <3>3. CASE s = e.source
      <4>1. lastSeen'[s] = e
        BY <3>1, <3>3 DEF Put
      <4>2. ~(Cooldown(e.type) > 0)
        BY <3>2, <3>3
      <4> HIDE DEF e
      <4>3. PICK k \in DOMAIN log : log[k].event = e /\ LastOf(e.source, k)
        BY <3>1, <3>2, <4>2, Reason
      <4> QED
        BY <3>1, <3>3, <4>1, <4>3 DEF LastOf
    <3> QED
      BY <2>2, <3>1, <3>3
  <2>4. ASSUME NEW r \in Runners, Forward(r)
        PROVE  \E k \in DOMAIN log' :
                 /\ log'[k].event = lastSeen'[s]
                 /\ \A m \in DOMAIN log' : m > k => log'[m].event.source # s
    <3> DEFINE e == runner[r].item.event
               n == Len(log) + 1
    <3>1. lastSeen' = Put(lastSeen, e.source, e)
      BY <2>4 DEF Forward
    <3>2. DOMAIN log = 1..Len(log) /\ Len(log) \in Nat
      BY Domains DEF Typed
    <3>3. /\ DOMAIN log' = 1..n
          /\ \A k \in 1..Len(log) : log'[k] = log[k]
          /\ log'[n].event = e
      BY <2>4, ForwardEffect
    <3>4. n \in DOMAIN log' /\ \A m \in DOMAIN log' : ~(m > n) /\ (m = n \/ m \in DOMAIN log)
      BY <3>2, <3>3
    <3> HIDE DEF n
    <3>5. CASE s = e.source
      <4>1. lastSeen'[s] = e
        BY <3>1, <3>5 DEF Put
      <4> QED
        BY <3>3, <3>4, <4>1
    <3>6. CASE s # e.source
      <4>1. PICK k \in DOMAIN log : /\ log[k].event = lastSeen'[s]
                                    /\ \A m \in DOMAIN log : m > k => log[m].event.source # s
        BY <2>2, <3>1, <3>6
      <4>2. k \in DOMAIN log' /\ log'[k] = log[k]
        BY <3>2, <3>3 DEF n
      <4>3. \A m \in DOMAIN log' : m > k => log'[m].event.source # s
        BY <3>2, <3>3, <3>4, <3>6, <4>1
      <4> QED
        BY <4>1, <4>2, <4>3
    <3> QED
      BY <3>5, <3>6
  <2>5. \/ UNCHANGED <<log, lastSeen>>
        \/ \E r \in Runners : Suppress(r) \/ Forward(r)
    BY NextCases DEF ProducerPublish, DispatcherDone, Receive, Sent, Started, Signal,
       AnnounceShutdown, GraceEnds, Join, Exit, Tick, vars, historyVars
  <2> QED
    BY <2>1, <2>3, <2>4, <2>5
<1> QED
  BY <1>1, <1>2, TypedInvariant, FilterInvariant, PTL DEF Spec
-----------------------------------------------------------------------------
(* The shutdown. *)

\* The numbers in use are those of published events.
LEMMA Numbers ==
  ASSUME Typed, Flow
  PROVE  /\ published \in Nat /\ Out \in Nat /\ Out <= published
         /\ \A i \in DOMAIN bus : bus[i].no \in 1..published
         /\ \A r \in Runners : InHand(r) => runner[r].item.no \in 1..published
         /\ \A k \in DOMAIN log : log[k].no \in 1..published
         /\ suppressed \subseteq 1..published
<1>1. /\ published \in Nat /\ Out \in Nat /\ Len(bus) \in Nat /\ DOMAIN bus = 1..Len(bus)
      /\ published = Out + Len(bus)
  BY Domains DEF Typed, TypeOK, Flow, Out
<1> HIDE DEF Out
<1>2. Out <= published
  BY <1>1
<1>3. ASSUME NEW i \in DOMAIN bus
      PROVE  bus[i].no \in 1..published
  <2>1. bus[i].no = Out + i /\ i \in 1..Len(bus)
    BY <1>1 DEF Flow
  <2> QED
    BY <1>1, <2>1
<1> QED
  BY <1>1, <1>2, <1>3 DEF Flow

\* A step that publishes and suppresses nothing: events only move on.
LEMMA ShutdownFrame ==
  ASSUME TypeOK, ShutdownInv, UNCHANGED <<published, shutdownNo, suppressed>>,
         main' \in {"starting", "serving", "signalled"}
           <=> main \in {"starting", "serving", "signalled"},
         \A i \in DOMAIN bus' : \E j \in DOMAIN bus : bus'[i] = bus[j],
         \A r \in Runners : InHand(r)' =>
           \/ InHand(r) /\ runner'[r].item = runner[r].item
           \/ \E j \in DOMAIN bus : runner'[r].item = bus[j],
         \A k \in DOMAIN log' :
           \/ k \in DOMAIN log /\ log'[k] = log[k]
           \/ \E r \in Runners : /\ InHand(r) /\ log'[k].no = runner[r].item.no
                                 /\ log'[k].event = runner[r].item.event
  PROVE  ShutdownInv'
BY DEF ShutdownInv

\* No other event takes the number of the shutdown event, and no filter stops it:
\* no alert of its source was handed over before it.
LEMMA ShutdownStep ==
  ASSUME Typed, OneRunner, Flow, FilterInv, ShutdownInv, [Next]_vars
  PROVE  ShutdownInv'
<1>0. /\ TypeOK /\ DOMAIN bus = 1..Len(bus) /\ Len(bus) \in Nat
      /\ DOMAIN log = 1..Len(log) /\ Len(log) \in Nat
      /\ runner \in [Runners -> [at : {"idle", "received", "sending", "done"},
                                 item : Item \union {Nothing}]]
  BY Domains DEF Typed, TypeOK
<1>1. ASSUME NEW e \in Events, Publish(e), UNCHANGED <<runner, log, suppressed>>
      PROVE  /\ published' = published + 1
             /\ \A i \in DOMAIN bus' :
                  \/ i \in DOMAIN bus /\ bus'[i] = bus[i]
                  \/ bus'[i].no = published + 1 /\ bus'[i].event = e
  <2>1. /\ Len(bus') = Len(bus) + 1 /\ bus' \in Seq(Item) /\ published' = published + 1
        /\ \A i \in 1..Len(bus) : bus'[i] = bus[i]
        /\ bus'[Len(bus) + 1] = [no |-> published + 1, event |-> e]
    BY <1>0, <1>1, PublishEffect
  <2>2. DOMAIN bus' = 1..(Len(bus) + 1)
    BY <2>1, LenProperties
  <2>3. \A i \in DOMAIN bus' : i = Len(bus) + 1 \/ i \in DOMAIN bus
    BY <1>0, <2>2
  <2> QED
    BY <1>0, <2>1, <2>3
<1>2. ASSUME NEW e \in Events, e.source # "shutdown", Publish(e),
             UNCHANGED <<runner, log, suppressed, shutdownNo>>,
             main' \in {"starting", "serving", "signalled"}
               <=> main \in {"starting", "serving", "signalled"}
      PROVE  ShutdownInv'
  <2>1. /\ published' = published + 1
        /\ \A i \in DOMAIN bus' :
             \/ i \in DOMAIN bus /\ bus'[i] = bus[i]
             \/ bus'[i].no = published + 1 /\ bus'[i].event = e
    BY <1>1, <1>2
  <2>2. shutdownNo \in 0..published /\ published \in Nat
    BY Numbers DEF ShutdownInv
  <2>3. shutdownNo \in 0..published' /\ published + 1 # shutdownNo
    BY <2>1, <2>2
  <2>4. \A i \in DOMAIN bus' : bus'[i].no = shutdownNo <=> bus'[i].event.source = "shutdown"
    BY <1>2, <2>1, <2>3 DEF ShutdownInv
  <2> QED
    BY <1>2, <2>3, <2>4 DEF ShutdownInv, InHand
<1>3. ASSUME NEW e \in Reports, ProducerPublish(e)
      PROVE  ShutdownInv'
  BY <1>2, <1>3, ReportsAssumption DEF ProducerPublish, Events
<1>4. CASE Started
  BY <1>2, <1>4 DEF Started, Events, DaemonStart
<1>5. CASE AnnounceShutdown
  <2>1. /\ Publish(ShutdownStarted) /\ UNCHANGED <<runner, log, suppressed>>
        /\ main = "signalled" /\ main' = "grace" /\ shutdownNo' = published + 1
    BY <1>5 DEF AnnounceShutdown
  <2>2. /\ published' = published + 1
        /\ \A i \in DOMAIN bus' :
             \/ i \in DOMAIN bus /\ bus'[i] = bus[i]
             \/ bus'[i].no = published + 1 /\ bus'[i].event = ShutdownStarted
    BY <1>1, <2>1 DEF Events
  <2>3. shutdownNo = 0
    BY <2>1 DEF ShutdownInv
  <2>4. /\ \A i \in DOMAIN bus : bus[i].no # 0 /\ bus[i].no # published + 1
        /\ \A r \in Runners : InHand(r) =>
             runner[r].item.no # 0 /\ runner[r].item.no # published + 1
        /\ \A k \in DOMAIN log : log[k].no # 0 /\ log[k].no # published + 1
        /\ published + 1 \notin suppressed
        /\ published + 1 \in 0..(published + 1) /\ published + 1 # 0
    <3>1. \A n \in 1..published : n # 0 /\ n # published + 1
      BY Numbers
    <3>2. published \in Nat
      BY Numbers
    <3> QED
      BY <3>1, <3>2, Numbers
  <2>5. \A i \in DOMAIN bus' :
          bus'[i].no = published + 1 <=> bus'[i].event.source = "shutdown"
    BY <2>2, <2>3, <2>4 DEF ShutdownInv, ShutdownStarted
  <2> QED
    BY <2>1, <2>2, <2>3, <2>4, <2>5 DEF ShutdownInv, InHand
<1>6. ASSUME NEW r \in Runners, Receive(r)
      PROVE  ShutdownInv'
  <2>1. bus # <<>> /\ bus' = Tail(bus)
        /\ UNCHANGED <<main, published, log, suppressed, shutdownNo>>
        /\ runner' = [runner EXCEPT ![r] = [at |-> "received", item |-> Head(bus)]]
    BY <1>6 DEF Receive, historyVars
  <2>2. /\ Head(bus) = bus[1] /\ 1 \in DOMAIN bus
        /\ bus' \in Seq(Item) /\ Len(bus') = Len(bus) - 1
        /\ \A i \in 1..Len(bus') : bus'[i] = bus[i + 1]
    BY <1>0, <2>1, ReceiveEffect
  <2>3. \A i \in DOMAIN bus' : i + 1 \in DOMAIN bus /\ bus'[i] = bus[i + 1]
    BY <1>0, <2>2, LenProperties
  <2>4. \A s \in Runners : InHand(s)' =>
           \/ InHand(s) /\ runner'[s].item = runner[s].item
           \/ runner'[s].item = bus[1]
    BY <1>0, <2>1, <2>2 DEF InHand
  <2> QED
    BY <1>0, <2>1, <2>2, <2>3, <2>4, ShutdownFrame
<1>7. ASSUME NEW r \in Runners, Suppress(r)
      PROVE  ShutdownInv'
  <2>1. /\ runner[r].at = "received"
        /\ runner' = [runner EXCEPT ![r] = [at |-> "idle", item |-> Nothing]]
        /\ suppressed' = suppressed \union {runner[r].item.no}
        /\ UNCHANGED <<main, bus, published, log, shutdownNo>>
        /\ \/ ~IsAllowed(cooledUntil, runner[r].item.event, now)
           \/ ~IsNew(lastKeys, runner[r].item.event)
    BY <1>7 DEF Suppress
  <2>2. runner[r].item.no = Out /\ \A k \in DOMAIN log : log[k].no < Out
    BY <2>1 DEF Flow, InHand
  <2>3. runner[r].item.event \in Events
    BY <2>1 DEF Typed, InHand, Item
  <2>4. PICK k \in DOMAIN log : log[k].event.source = runner[r].item.event.source
    BY <2>1, <2>3, Reason
  <2>5. log[k].no \in Nat /\ Out \in Nat
    BY Domains, Numbers DEF Typed
  <2>6. runner[r].item.no # shutdownNo
    BY <2>1, <2>2, <2>4, <2>5 DEF ShutdownInv, InHand
  <2>7. \A s \in Runners : InHand(s)' => InHand(s) /\ runner'[s] = runner[s]
    BY <1>0, <2>1 DEF InHand
  <2> QED
    BY <2>1, <2>6, <2>7 DEF ShutdownInv
<1>8. ASSUME NEW r \in Runners, Forward(r)
      PROVE  ShutdownInv'
  <2>1. /\ UNCHANGED <<main, bus, published, suppressed, shutdownNo>>
        /\ runner[r].at = "received"
        /\ runner' = [runner EXCEPT ![r].at = "sending"]
    BY <1>8 DEF Forward
  <2>2. /\ DOMAIN log' = 1..(Len(log) + 1)
        /\ \A k \in 1..Len(log) : log'[k] = log[k]
        /\ log'[Len(log) + 1].no = runner[r].item.no
        /\ log'[Len(log) + 1].event = runner[r].item.event
    BY <1>8, ForwardEffect
  <2>3. \A k \in DOMAIN log' : \/ k \in DOMAIN log /\ log'[k] = log[k]
                               \/ /\ log'[k].no = runner[r].item.no
                                  /\ log'[k].event = runner[r].item.event
    <3>1. \A k \in DOMAIN log' : k = Len(log) + 1 \/ k \in DOMAIN log
      BY <1>0, <2>2
    <3> QED
      BY <1>0, <2>2, <3>1
  <2>4. \A s \in Runners : InHand(s)' => InHand(s) /\ runner'[s].item = runner[s].item
    BY <1>0, <2>1 DEF InHand
  <2> QED
    BY <1>0, <2>1, <2>3, <2>4, ShutdownFrame DEF InHand
<1>9. ASSUME NEW r \in Runners, Sent(r)
      PROVE  ShutdownInv'
  <2>1. UNCHANGED <<main, bus, published, log, suppressed, shutdownNo>>
    BY <1>9 DEF Sent, historyVars
  <2>2. \A s \in Runners : InHand(s)' => InHand(s) /\ runner'[s].item = runner[s].item
    BY <1>0, <1>9 DEF Sent, InHand
  <2> QED
    BY <1>0, <2>1, <2>2, ShutdownFrame
<1>10. CASE DispatcherDone
  <2>1. UNCHANGED <<main, bus, published, log, suppressed, shutdownNo>>
    BY <1>10 DEF DispatcherDone, historyVars
  <2>2. \A s \in Runners : InHand(s)' => InHand(s) /\ runner'[s].item = runner[s].item
    BY <1>0, <1>10 DEF DispatcherDone, InHand, Runners
  <2> QED
    BY <1>0, <2>1, <2>2, ShutdownFrame
<1>11. CASE Signal \/ GraceEnds \/ Join \/ Exit \/ Tick \/ UNCHANGED vars
  <2>1. /\ UNCHANGED <<bus, runner, published, log, suppressed, shutdownNo>>
        /\ main' \in {"starting", "serving", "signalled"}
             <=> main \in {"starting", "serving", "signalled"}
    BY <1>11 DEF Signal, GraceEnds, Join, Exit, Tick, vars, historyVars
  <2> QED
    BY <1>0, <2>1, ShutdownFrame DEF InHand
<1> QED
  BY NextCases, <1>3, <1>4, <1>5, <1>6, <1>7, <1>8, <1>9, <1>10, <1>11

\* main.go: "the dispatcher keeps running until the shutdown event has been
\* delivered or queued".  At the end everything published up to the shutdown
\* event has been handed over or suppressed, the shutdown alert was handed over,
\* and no call of Send is cut short, for every size of the bus.
THEOREM ShutdownTheorem == Spec => []ShutdownHandled
<1>1. Init => ShutdownInv
  <2> SUFFICES ASSUME Init PROVE ShutdownInv
    OBVIOUS
  <2>1. DOMAIN bus = {} /\ DOMAIN log = {} /\ suppressed = {} /\ shutdownNo = 0 /\ published = 0
        /\ main = "starting" /\ \A r \in Runners : ~InHand(r)
    BY DEF Init, InHand
  <2> QED
    BY <2>1 DEF ShutdownInv
<1>2. Spec => []ShutdownInv
  BY <1>1, ShutdownStep, TypedInvariant, OneRunnerInvariant, FlowInvariant,
     FilterInvariant, PTL DEF Spec
<1>3. Typed /\ OneRunner /\ Flow /\ ShutdownInv => ShutdownHandled
  <2> SUFFICES ASSUME Typed, OneRunner, Flow, ShutdownInv, main = "stopped"
               PROVE  /\ 1..shutdownNo \subseteq suppressed \union {log[k].no : k \in DOMAIN log}
                      /\ \E k \in DOMAIN log : log[k].no = shutdownNo
                      /\ \A r \in Runners : runner[r].at \in {"idle", "done"}
    BY DEF ShutdownHandled
  <2>1. bus = <<>> /\ \A r \in Runners : runner[r].at \in {"idle", "done"}
    BY DEF OneRunner, Runners
  <2>2. Out = published
    BY <2>1, EmptySeq, Numbers DEF Out
  <2>3. shutdownNo \in 1..Out /\ Out \in Nat /\ shutdownNo \notin suppressed
    BY <2>2, Numbers DEF ShutdownInv
  <2>4. \A n \in 1..Out : n \in suppressed \/ \E k \in DOMAIN log : log[k].no = n
    BY <2>1 DEF Flow
  <2>5. 1..shutdownNo \subseteq 1..Out
    BY <2>3
  <2> QED
    BY <2>1, <2>3, <2>4, <2>5
<1> QED
  BY <1>2, <1>3, TypedInvariant, OneRunnerInvariant, FlowInvariant, PTL
=============================================================================
