---------------------------- MODULE PollerProofs ----------------------------
(***************************************************************************)
(* Proofs about Poller, for any pollers, intervals and size of the bus:    *)
(* what the owner was last told of a source is the level it has reached,   *)
(* and levels are told in order.                                           *)
(*                                                                         *)
(* They rest on two facts about names.  That the types of the alerts of a  *)
(* source differ by severity is a fact about strings, which the provers do *)
(* not know (TLC checks it).  That none of these types has a cooldown      *)
(* holds for those in constants.go, which are named otherwise; the owner   *)
(* could give them one, and then a change of level could be hidden: it is  *)
(* a hypothesis of the theorems.                                           *)
(***************************************************************************)
EXTENDS Poller, SequenceTheorems, TLAPS

States     == {"ok", "warn", "critical"}
Severities == {"WARNING", "CRITICAL", "RECOVERED"}

NoPollerCooldown ==
  \A p \in Pollers : \A s \in Severities : EventType(p, s) \notin DOMAIN Duration

Types == {EventType(p, s) : p \in Pollers, s \in Severities}

\* What can be on the bus.
Item == [event : [source : Pollers, type : Types, text : {"value"}], severity : Severities]

Typed ==
  /\ reading \in [Pollers -> Readings]
  /\ state \in [Pollers -> States]
  /\ at \in [Pollers -> {"waiting", "publishing", "stopped"}]
  /\ shown \in [Pollers -> Severities \union {"none"}]
  /\ bus \in Seq(Item)
  /\ \A i \in DOMAIN bus :
       bus[i].event.type = EventType(bus[i].event.source, bus[i].severity)

Follows(a, b) ==
  <<a, b>> \in {<<"none", "WARNING">>, <<"RECOVERED", "WARNING">>,
    <<"WARNING", "CRITICAL">>, <<"WARNING", "RECOVERED">>, <<"CRITICAL", "RECOVERED">>}

\* An alert of this severity, or none so far, may be the last that a poller with
\* this program counter and state has published.
IsLast(a, pc, s) ==
  /\ pc = "publishing" => Follows(a, Severity(s))
  /\ pc # "publishing" => a = Severity(s) \/ (a = "none" /\ s = "ok")

Of(p, i)      == i \in DOMAIN bus /\ bus[i].event.source = p
FirstOf(p, i) == Of(p, i) /\ \A j \in DOMAIN bus : j < i => ~Of(p, j)
LastOf(p, i)  == Of(p, i) /\ \A j \in DOMAIN bus : i < j => ~Of(p, j)
NextTo(p, i, j) ==
  /\ Of(p, i) /\ Of(p, j) /\ i < j
  /\ \A k \in DOMAIN bus : i < k /\ k < j => ~Of(p, k)

\* The alerts of a poller, from the one shown last over those on the bus to its
\* state, follow each other level by level.
LevelOf(p) ==
  /\ ~InBus(p) => IsLast(shown[p], at[p], state[p])
  /\ \A i \in DOMAIN bus : FirstOf(p, i) => Follows(shown[p], bus[i].severity)
  /\ \A i, j \in DOMAIN bus : NextTo(p, i, j) => Follows(bus[i].severity, bus[j].severity)
  /\ \A i \in DOMAIN bus : LastOf(p, i) => IsLast(bus[i].severity, at[p], state[p])

LevelInv == \A p \in Pollers : LevelOf(p)

\* The filters let through what they have not just seen.
FilterInv ==
  /\ cooledUntil = NoEntries
  /\ \A p \in Pollers :
       p \in DOMAIN lastKeys =>
         /\ shown[p] # "none"
         /\ lastKeys[p] = <<p, EventType(p, shown[p]), "value">>
-----------------------------------------------------------------------------
(* The state machine of a poller, and the sequence of alerts on the bus. *)

(* A reading moves a poller by one level at most, up, or down from any level;
   the alert with which it enters the new one is never of the severity before. *)
LEMMA NextLevel ==
  ASSUME NEW s \in States, NEW r \in Readings
  PROVE  /\ NextState(s, r) \in States
         /\ NextState(s, r) # s =>
              /\ Follows(Severity(s), Severity(NextState(s, r)))
              /\ s = "ok" => Follows("none", Severity(NextState(s, r)))
<1> USE DEF NextState, Severity, Follows, AboveWarn, AboveCritical, States, Readings
<1>1. CASE r = "error"
  BY <1>1
<1>2. CASE r # "error" /\ s = "ok"
  BY <1>2
<1>3. CASE r # "error" /\ s = "warn"
  BY <1>3
<1>4. CASE r # "error" /\ s = "critical"
  BY <1>4
<1> QED
  BY <1>1, <1>2, <1>3, <1>4

(* Every level is announced with a severity of its own. *)
LEMMA SeverityType ==
  ASSUME NEW s \in States
  PROVE  Severity(s) \in Severities
BY DEF Severity, States, Severities

(* What is at the positions of the bus after a Publish. *)
LEMMA AppendEffect ==
  ASSUME NEW S, NEW s \in Seq(S), NEW e \in S
  PROVE  /\ Append(s, e) \in Seq(S)
         /\ Len(s) \in Nat /\ DOMAIN s = 1..Len(s)
         /\ DOMAIN Append(s, e) = 1..(Len(s) + 1)
         /\ \A i \in DOMAIN s : i < Len(s) + 1 /\ i \in 1..(Len(s) + 1) /\ Append(s, e)[i] = s[i]
         /\ Append(s, e)[Len(s) + 1] = e
         /\ \A i \in DOMAIN Append(s, e) : i = Len(s) + 1 \/ i \in DOMAIN s
BY AppendProperties, LenProperties

(* What is there after the dispatcher has received the first alert. *)
LEMMA TailEffect ==
  ASSUME NEW S, NEW s \in Seq(S), s # <<>>
  PROVE  /\ Head(s) = s[1] /\ s[1] \in S /\ 1 \in DOMAIN s
         /\ Tail(s) \in Seq(S)
         /\ Len(Tail(s)) = Len(s) - 1 /\ Len(s) \in Nat \ {0} /\ DOMAIN s = 1..Len(s)
         /\ DOMAIN Tail(s) = 1..(Len(s) - 1)
         /\ \A i \in DOMAIN Tail(s) : i + 1 \in DOMAIN s /\ i + 1 > 1 /\ Tail(s)[i] = s[i + 1]
<1>1. Tail(s) \in Seq(S) /\ Len(s) \in Nat \ {0} /\ Len(Tail(s)) = Len(s) - 1
  BY HeadTailProperties, EmptySeq, LenProperties
<1>2. DOMAIN s = 1..Len(s) /\ DOMAIN Tail(s) = 1..(Len(s) - 1)
  BY <1>1, LenProperties
<1>3. 1 \in DOMAIN s /\ Head(s) = s[1] /\ s[1] \in S
  BY <1>1, <1>2, ElementOfSeq, HeadTailProperties
<1>4. ASSUME NEW i \in 1..(Len(s) - 1)
      PROVE  i + 1 \in DOMAIN s /\ i + 1 > 1 /\ Tail(s)[i] = s[i + 1]
  BY <1>1, <1>2, <1>4, HeadTailProperties
<1> QED
  BY <1>1, <1>2, <1>3, <1>4
-----------------------------------------------------------------------------
(* Types and filters. *)

(* The only cases of a step: a poller polls, publishes or stops, the
   dispatcher takes an alert, or neither level, bus nor filters change. *)
LEMMA NextCases ==
  ASSUME [Next]_vars
  PROVE  \/ \E p \in Pollers : Poll(p)
         \/ \E p \in Pollers : Publish(p)
         \/ \E p \in Pollers : Stop(p)
         \/ \E p \in Pollers : Change(p)
         \/ Dispatch
         \/ UNCHANGED <<reading, state, at, bus, filterVars, shown>>
BY DEF Next, RunPoller, Tick, Cancel, vars, filterVars, historyVars

(* Only alerts of the pollers are on the bus, each with the type and severity
   of a level (makeEvent). *)
LEMMA TypedStep ==
  ASSUME Typed, [Next]_vars
  PROVE  Typed'
<1>1. CASE \E p \in Pollers : Poll(p)
  <2>1. PICK p \in Pollers : Poll(p)
    BY <1>1
  <2>2. Value(p) \in Readings
    BY DEF Typed, Value, Readings
  <2>3. NextState(state[p], Value(p)) \in States
    BY <2>2, NextLevel DEF Typed
  <2>4. state' \in [Pollers -> States]
    BY <2>1, <2>3 DEF Poll, Typed
  <2>5. at' \in [Pollers -> {"waiting", "publishing", "stopped"}]
    BY <2>1 DEF Poll, Typed
  <2> QED
    BY <2>1, <2>4, <2>5 DEF Poll, Typed, historyVars
<1>2. CASE \E p \in Pollers : Publish(p)
  <2>1. PICK p \in Pollers : Publish(p)
    BY <1>2
  <2>2. state[p] \in States /\ Severity(state[p]) \in Severities
    BY SeverityType DEF Typed
  <2> DEFINE e == [event |-> Event(p), severity |-> Severity(state[p])]
  <2>3. /\ e \in Item /\ e.severity = Severity(state[p])
        /\ e.event.type = EventType(p, e.severity) /\ e.event.source = p
    BY <2>2 DEF Event, Item, Types
  <2>4. bus' = Append(bus, e)
    BY <2>1 DEF Publish
  <2> HIDE DEF e
  <2>5. /\ bus' \in Seq(Item)
        /\ \A i \in DOMAIN bus' :
             bus'[i].event.type = EventType(bus'[i].event.source, bus'[i].severity)
    BY <2>3, <2>4, AppendEffect DEF Typed
  <2>6. at' \in [Pollers -> {"waiting", "publishing", "stopped"}]
    BY <2>1 DEF Publish, Typed
  <2> QED
    BY <2>1, <2>5, <2>6 DEF Publish, Typed, historyVars
<1>3. CASE \E p \in Pollers : Stop(p)
  BY <1>3 DEF Stop, Typed, historyVars
<1>4. CASE \E p \in Pollers : Change(p)
  BY <1>4 DEF Change, Typed, historyVars
<1>5. CASE Dispatch
  <2>1. bus # <<>> /\ bus' = Tail(bus) /\ bus \in Seq(Item)
    BY <1>5 DEF Dispatch, Typed
  <2>2. /\ bus' \in Seq(Item)
        /\ \A i \in DOMAIN bus' :
             bus'[i].event.type = EventType(bus'[i].event.source, bus'[i].severity)
    BY <2>1, TailEffect DEF Typed
  <2>3. Head(bus).severity \in Severities /\ Head(bus).event.source \in Pollers
    <3>1. Head(bus) = bus[1] /\ bus[1] \in Item
      BY <2>1, TailEffect
    <3> QED
      BY <3>1 DEF Item
  <2>4. shown' \in [Pollers -> Severities \union {"none"}]
    BY <1>5, <2>3 DEF Dispatch, Typed, historyVars
  <2> QED
    BY <1>5, <2>2, <2>4 DEF Dispatch, Typed
<1>6. CASE UNCHANGED <<reading, state, at, bus, filterVars, shown>>
  BY <1>6 DEF Typed
<1> QED
  BY <1>1, <1>2, <1>3, <1>4, <1>5, <1>6, NextCases

(* What the dispatcher does with the alert it receives: the level follows the
   one shown last, so neither filter hides it, and it is shown. *)
LEMMA DispatchEffect ==
  ASSUME Typed, LevelInv, FilterInv, NoPollerCooldown, Dispatch
  PROVE  /\ bus # <<>> /\ bus' = Tail(bus)
         /\ Follows(shown[bus[1].event.source], bus[1].severity)
         /\ shown' = [shown EXCEPT ![bus[1].event.source] = bus[1].severity]
         /\ cooledUntil' = cooledUntil
         /\ lastKeys' = Put(lastKeys, bus[1].event.source,
                 <<bus[1].event.source, EventType(bus[1].event.source, bus[1].severity), "value">>)
         /\ UNCHANGED <<state, at>>
<1> DEFINE e == bus[1].event
           s == bus[1].severity
           p == e.source
<1>1. bus # <<>> /\ bus' = Tail(bus) /\ UNCHANGED <<state, at>>
  BY DEF Dispatch
<1>2. Head(bus) = bus[1] /\ bus[1] \in Item /\ 1 \in DOMAIN bus /\ DOMAIN bus = 1..Len(bus)
  BY <1>1, TailEffect DEF Typed
<1>3. p \in Pollers /\ s \in Severities /\ e.type = EventType(p, s) /\ e.text = "value"
  BY <1>2 DEF Typed, Item
<1>4. Follows(shown[p], s)
  <2>1. FirstOf(p, 1)
    BY <1>1, <1>2, TailEffect DEF FirstOf, Of, Typed
  <2> QED
    BY <1>2, <1>3, <2>1 DEF LevelInv, LevelOf
<1>5. IsAllowed(cooledUntil, e, now)
  BY DEF FilterInv, IsAllowed, NoEntries
<1>6. IsNew(lastKeys, e)
  <2>1. shown[p] \in Severities \union {"none"} /\ shown[p] # s
    BY <1>3, <1>4 DEF Follows, Typed
  <2>2. p \in DOMAIN lastKeys => lastKeys[p] = <<p, EventType(p, shown[p]), "value">> /\ shown[p] # "none"
    BY <1>3 DEF FilterInv
  <2>3. shown[p] # "none" => EventType(p, shown[p]) # EventType(p, s)
    BY <1>3, <2>1, NamesAssumption DEF Severities
  <2> QED
    BY <1>3, <2>2, <2>3 DEF IsNew, DedupKey
<1>7. Cooldown(e.type) = 0
  BY <1>3 DEF NoPollerCooldown, Cooldown
<1>8. /\ cooledUntil' = RecordCooldown(cooledUntil, e, now)
      /\ lastKeys' = RecordKey(lastKeys, e)
      /\ shown' = [shown EXCEPT ![p] = s]
  BY <1>2, <1>5, <1>6 DEF Dispatch
<1>9. cooledUntil' = cooledUntil
  BY <1>7, <1>8 DEF RecordCooldown
<1>10. lastKeys' = Put(lastKeys, p, <<p, EventType(p, s), "value">>)
  BY <1>3, <1>8 DEF RecordKey, DedupKey
<1> QED
  BY <1>1, <1>4, <1>8, <1>9, <1>10

(* The duplicate filter remembers of each source what was shown of it. *)
LEMMA FilterStep ==
  ASSUME Typed, LevelInv, FilterInv, NoPollerCooldown, [Next]_vars
  PROVE  FilterInv'
<1>1. CASE Dispatch
  <2> DEFINE p == bus[1].event.source
             s == bus[1].severity
  <2>1. /\ shown' = [shown EXCEPT ![p] = s] /\ cooledUntil' = cooledUntil
        /\ lastKeys' = Put(lastKeys, p, <<p, EventType(p, s), "value">>)
    BY <1>1, DispatchEffect
  <2>2. p \in Pollers /\ s \in Severities
    <3>1. bus # <<>>
      BY <1>1 DEF Dispatch
    <3>2. bus[1] \in Item
      BY <3>1, TailEffect DEF Typed
    <3> QED
      BY <3>2 DEF Item
  <2> HIDE DEF p, s
  <2>3. ASSUME NEW r \in Pollers, r \in DOMAIN lastKeys'
        PROVE  shown'[r] # "none" /\ lastKeys'[r] = <<r, EventType(r, shown'[r]), "value">>
    <3>1. CASE r = p
      BY <2>1, <2>2, <2>3, <3>1 DEF Put, Typed, Severities
    <3>2. CASE r # p
      <4>1. r \in DOMAIN lastKeys /\ lastKeys'[r] = lastKeys[r] /\ shown'[r] = shown[r]
        BY <2>1, <2>3, <3>2 DEF Put, Typed
      <4> QED
        BY <4>1 DEF FilterInv
    <3> QED
      BY <3>1, <3>2
  <2> QED
    BY <2>1, <2>3 DEF FilterInv
<1>2. CASE UNCHANGED <<filterVars, shown>>
  BY <1>2 DEF FilterInv, filterVars
<1>3. Dispatch \/ UNCHANGED <<filterVars, shown>>
  BY NextCases DEF Poll, Publish, Stop, Change, historyVars
<1> QED
  BY <1>1, <1>2, <1>3
-----------------------------------------------------------------------------
(* Levels. *)

(* A step that leaves alone what is on the bus and what was shown keeps the
   levels in order, if it does so for the alert each poller published last. *)
LEMMA LevelFrame ==
  ASSUME Typed, LevelInv, UNCHANGED <<bus, shown>>,
         \A p \in Pollers : \A a : IsLast(a, at[p], state[p]) => IsLast(a, at'[p], state'[p])
  PROVE  LevelInv'
<1> SUFFICES ASSUME NEW p \in Pollers
             PROVE  LevelOf(p)'
  BY DEF LevelInv
<1>1. /\ InBus(p)' => InBus(p)
      /\ InBus(p) => InBus(p)'
      /\ \A i \in DOMAIN bus : FirstOf(p, i)' => FirstOf(p, i)
      /\ \A i, j \in DOMAIN bus : NextTo(p, i, j)' => NextTo(p, i, j)
      /\ \A i \in DOMAIN bus : LastOf(p, i)' => LastOf(p, i)
  BY DEF InBus, FirstOf, NextTo, LastOf, Of
<1>2. LevelOf(p)
  BY DEF LevelInv
<1> QED
  BY <1>1, <1>2 DEF LevelOf

(* A poll moves the level by one, and only when the poller has nothing left to
   publish. *)
LEMMA PollStep ==
  ASSUME Typed, LevelInv, NEW p \in Pollers, Poll(p)
  PROVE  LevelInv'
<1>1. Value(p) \in Readings /\ state[p] \in States
  BY DEF Typed, Value, Readings
<1>2. /\ at[p] = "waiting"
      /\ state' = [state EXCEPT ![p] = NextState(state[p], Value(p))]
      /\ at' = [at EXCEPT ![p] = IF state'[p] = state[p] THEN "waiting" ELSE "publishing"]
      /\ UNCHANGED <<bus, shown>>
  BY DEF Poll, historyVars
<1>3. ASSUME NEW r \in Pollers, NEW a, IsLast(a, at[r], state[r])
      PROVE  IsLast(a, at'[r], state'[r])
  <2>1. CASE r # p
    BY <1>2, <1>3, <2>1 DEF IsLast, Typed
  <2>2. CASE r = p /\ state'[p] = state[p]
    BY <1>2, <1>3, <2>2 DEF IsLast, Typed
  <2>3. CASE r = p /\ state'[p] # state[p]
    <3>1. state'[p] = NextState(state[p], Value(p)) /\ at'[p] = "publishing"
      BY <1>2, <2>3 DEF Typed
    <3>2. /\ Follows(Severity(state[p]), Severity(state'[p]))
          /\ state[p] = "ok" => Follows("none", Severity(state'[p]))
      BY <1>1, <2>3, <3>1, NextLevel
    <3>3. a = Severity(state[p]) \/ (a = "none" /\ state[p] = "ok")
      BY <1>2, <1>3, <2>3 DEF IsLast
    <3> QED
      BY <2>3, <3>1, <3>2, <3>3 DEF IsLast
  <2> QED
    BY <2>1, <2>2, <2>3
<1> QED
  BY <1>2, <1>3, LevelFrame

(* The alert a poller publishes is behind its last one and a level from it. *)
LEMMA PublishStep ==
  ASSUME Typed, LevelInv, NEW p \in Pollers, Publish(p)
  PROVE  LevelInv'
<1> PICK e : e = [event |-> Event(p), severity |-> Severity(state[p])]
  OBVIOUS
<1> PICK n \in Nat : n = Len(bus)
  BY LenProperties DEF Typed
<1>1. state[p] \in States /\ Severity(state[p]) \in Severities
  BY SeverityType DEF Typed
<1>2. /\ e \in Item /\ e.severity = Severity(state[p]) /\ e.event.source = p
  BY <1>1 DEF Event, Item, Types
<1>3. /\ at[p] = "publishing" /\ at' = [at EXCEPT ![p] = "waiting"]
      /\ bus' = Append(bus, e)
      /\ UNCHANGED <<state, shown>>
  BY DEF Publish, historyVars
<1>4. /\ n \in Nat /\ DOMAIN bus = 1..n /\ DOMAIN bus' = 1..(n + 1)
      /\ \A i \in DOMAIN bus : i < n + 1 /\ i \in 1..(n + 1) /\ bus'[i] = bus[i]
      /\ bus'[n + 1] = e
      /\ \A i \in DOMAIN bus' : i = n + 1 \/ i \in DOMAIN bus
  BY <1>2, <1>3, AppendEffect DEF Typed
<1> SUFFICES ASSUME NEW r \in Pollers
             PROVE  LevelOf(r)'
  BY DEF LevelInv
<1>5. /\ \A i \in DOMAIN bus : Of(r, i)' <=> Of(r, i)
      /\ Of(r, n + 1)' <=> r = p
      /\ InBus(r) <=> \E i \in DOMAIN bus : Of(r, i)
      /\ InBus(r)' <=> \E i \in DOMAIN bus' : Of(r, i)'
  BY <1>2, <1>4 DEF Of, InBus
<1>6. /\ ~InBus(r) => IsLast(shown[r], at[r], state[r])
      /\ \A i \in DOMAIN bus : FirstOf(r, i) => Follows(shown[r], bus[i].severity)
      /\ \A i, j \in DOMAIN bus : NextTo(r, i, j) => Follows(bus[i].severity, bus[j].severity)
      /\ \A i \in DOMAIN bus : LastOf(r, i) => IsLast(bus[i].severity, at[r], state[r])
  BY DEF LevelInv, LevelOf
<1>7. /\ \A i \in DOMAIN bus : FirstOf(r, i)' => FirstOf(r, i)
      /\ \A i, j \in DOMAIN bus : NextTo(r, i, j)' => NextTo(r, i, j)
      /\ \A i \in DOMAIN bus : LastOf(r, i)' => LastOf(r, i)
  BY <1>4, <1>5 DEF FirstOf, NextTo, LastOf
<1>8. CASE r # p
  <2>1. \A a : IsLast(a, at'[r], state'[r]) <=> IsLast(a, at[r], state[r])
    BY <1>3, <1>8 DEF IsLast, Typed
  <2>2. \A i \in DOMAIN bus' : Of(r, i)' => i \in DOMAIN bus
    BY <1>4, <1>5, <1>8
  <2>3. InBus(r)' <=> InBus(r)
    BY <1>4, <1>5, <2>2
  <2>4. \A i \in DOMAIN bus' : FirstOf(r, i)' \/ LastOf(r, i)' => i \in DOMAIN bus
    BY <2>2 DEF FirstOf, LastOf
  <2>5. \A i, j \in DOMAIN bus' : NextTo(r, i, j)' => i \in DOMAIN bus /\ j \in DOMAIN bus
    BY <2>2 DEF NextTo
  <2>6. ~InBus(r)' => IsLast(shown'[r], at'[r], state'[r])
    BY <1>3, <1>6, <2>1, <2>3
  <2>7. \A i \in DOMAIN bus' : FirstOf(r, i)' => Follows(shown'[r], bus'[i].severity)
    BY <1>3, <1>4, <1>6, <1>7, <2>4
  <2>8. \A i, j \in DOMAIN bus' : NextTo(r, i, j)' => Follows(bus'[i].severity, bus'[j].severity)
    BY <1>4, <1>6, <1>7, <2>5
  <2>9. \A i \in DOMAIN bus' : LastOf(r, i)' => IsLast(bus'[i].severity, at'[r], state'[r])
    BY <1>4, <1>6, <1>7, <2>1, <2>4
  <2> QED
    BY <2>6, <2>7, <2>8, <2>9 DEF LevelOf
<1>9. CASE r = p
  <2>1. InBus(r)' /\ n + 1 \in DOMAIN bus'
    BY <1>4, <1>5, <1>9
  <2>2. \A a : IsLast(a, at[r], state[r]) => Follows(a, e.severity)
    BY <1>2, <1>3, <1>9 DEF IsLast
  <2>3. IsLast(e.severity, at'[r], state'[r])
    BY <1>2, <1>3, <1>9 DEF IsLast, Typed
  <2>4. FirstOf(r, n + 1)' => ~InBus(r)
    BY <1>4, <1>5 DEF FirstOf
  <2>5. \A i \in DOMAIN bus : NextTo(r, i, n + 1)' => LastOf(r, i)
    BY <1>4, <1>5 DEF NextTo, LastOf
  <2>6. \A i \in DOMAIN bus : ~LastOf(r, i)'
    BY <1>4, <1>5, <1>9 DEF LastOf
  <2>7. \A i, j \in DOMAIN bus' : NextTo(r, i, j)' => i \in DOMAIN bus
    BY <1>4 DEF NextTo
  <2>8. \A i \in DOMAIN bus' : FirstOf(r, i)' => Follows(shown'[r], bus'[i].severity)
    BY <1>3, <1>4, <1>6, <1>7, <2>2, <2>4
  <2>9. \A i, j \in DOMAIN bus' : NextTo(r, i, j)' => Follows(bus'[i].severity, bus'[j].severity)
    BY <1>4, <1>6, <1>7, <2>2, <2>5, <2>7
  <2>10. \A i \in DOMAIN bus' : LastOf(r, i)' => IsLast(bus'[i].severity, at'[r], state'[r])
    BY <1>4, <2>3, <2>6
  <2> QED
    BY <2>1, <2>8, <2>9, <2>10 DEF LevelOf
<1> QED
  BY <1>8, <1>9

(* The dispatcher takes the alerts of a source in the order of its levels, and
   shows each of them. *)
LEMMA DispatchStep ==
  ASSUME Typed, LevelInv, FilterInv, NoPollerCooldown, Dispatch
  PROVE  LevelInv'
<1> DEFINE p == bus[1].event.source
           s == bus[1].severity
<1>1. /\ bus # <<>> /\ bus' = Tail(bus)
      /\ shown' = [shown EXCEPT ![p] = s]
      /\ UNCHANGED <<state, at>>
  BY DispatchEffect
<1>2. /\ 1 \in DOMAIN bus /\ bus[1] \in Item
      /\ Len(bus) \in Nat \ {0} /\ DOMAIN bus = 1..Len(bus)
      /\ DOMAIN bus' = 1..(Len(bus) - 1)
      /\ \A i \in DOMAIN bus' : i + 1 \in DOMAIN bus /\ i + 1 > 1 /\ bus'[i] = bus[i + 1]
  BY <1>1, TailEffect DEF Typed
<1>3. p \in Pollers /\ s \in Severities /\ Of(p, 1)
  BY <1>2 DEF Item, Of
<1> SUFFICES ASSUME NEW r \in Pollers
             PROVE  LevelOf(r)'
  BY DEF LevelInv
<1>4. /\ shown'[r] = IF r = p THEN s ELSE shown[r]
      /\ \A a : IsLast(a, at'[r], state'[r]) <=> IsLast(a, at[r], state[r])
  BY <1>1 DEF Typed, IsLast
<1>5. Of(r, 1) <=> r = p
  BY <1>2, <1>3 DEF Of
<1>6. s = bus[1].severity
  OBVIOUS
<1> HIDE DEF p, s
<1>7. /\ \A i \in DOMAIN bus' : Of(r, i)' <=> Of(r, i + 1)
      /\ InBus(r) <=> \E i \in DOMAIN bus : Of(r, i)
      /\ InBus(r)' <=> \E i \in DOMAIN bus' : Of(r, i)'
      /\ \A i \in DOMAIN bus : i > 1 => i - 1 \in DOMAIN bus' /\ (i - 1) + 1 = i
      /\ \A i \in DOMAIN bus : i = 1 \/ i > 1
  BY <1>2 DEF Of, InBus
<1>8. /\ ~InBus(r) => IsLast(shown[r], at[r], state[r])
      /\ \A i \in DOMAIN bus : FirstOf(r, i) => Follows(shown[r], bus[i].severity)
      /\ \A i, j \in DOMAIN bus : NextTo(r, i, j) => Follows(bus[i].severity, bus[j].severity)
      /\ \A i \in DOMAIN bus : LastOf(r, i) => IsLast(bus[i].severity, at[r], state[r])
  BY DEF LevelInv, LevelOf
<1>9. \A i \in DOMAIN bus' : LastOf(r, i)' => LastOf(r, i + 1)
  <2> SUFFICES ASSUME NEW i \in DOMAIN bus', LastOf(r, i)'
               PROVE  LastOf(r, i + 1)
    OBVIOUS
  <2>1. Of(r, i + 1)
    BY <1>7 DEF LastOf
  <2>2. ASSUME NEW j \in DOMAIN bus, i + 1 < j
        PROVE  ~Of(r, j)
    <3>1. j - 1 \in DOMAIN bus' /\ (j - 1) + 1 = j /\ i < j - 1
      BY <1>2, <1>7, <2>2
    <3> QED
      BY <1>7, <3>1 DEF LastOf
  <2> QED
    BY <2>1, <2>2 DEF LastOf
<1>10. \A i, j \in DOMAIN bus' : NextTo(r, i, j)' => NextTo(r, i + 1, j + 1)
  <2> SUFFICES ASSUME NEW i \in DOMAIN bus', NEW j \in DOMAIN bus', NextTo(r, i, j)'
               PROVE  NextTo(r, i + 1, j + 1)
    OBVIOUS
  <2>1. Of(r, i + 1) /\ Of(r, j + 1) /\ i + 1 < j + 1
    BY <1>2, <1>7 DEF NextTo
  <2>2. ASSUME NEW k \in DOMAIN bus, i + 1 < k, k < j + 1
        PROVE  ~Of(r, k)
    <3>1. k - 1 \in DOMAIN bus' /\ (k - 1) + 1 = k /\ i < k - 1 /\ k - 1 < j
      BY <1>2, <1>7, <2>2
    <3> QED
      BY <1>7, <3>1 DEF NextTo
  <2> QED
    BY <2>1, <2>2 DEF NextTo
<1>11. \A i \in DOMAIN bus' : FirstOf(r, i)' =>
         IF r = p THEN NextTo(r, 1, i + 1) ELSE FirstOf(r, i + 1)
  <2> SUFFICES ASSUME NEW i \in DOMAIN bus', FirstOf(r, i)'
               PROVE  IF r = p THEN NextTo(r, 1, i + 1) ELSE FirstOf(r, i + 1)
    OBVIOUS
  <2>1. Of(r, i + 1) /\ 1 < i + 1
    BY <1>2, <1>7 DEF FirstOf
  <2>2. ASSUME NEW k \in DOMAIN bus, 1 < k, k < i + 1
        PROVE  ~Of(r, k)
    <3>1. k - 1 \in DOMAIN bus' /\ (k - 1) + 1 = k /\ k - 1 < i
      BY <1>2, <1>7, <2>2
    <3> QED
      BY <1>7, <3>1 DEF FirstOf
  <2> QED
    BY <1>2, <1>5, <1>7, <2>1, <2>2 DEF FirstOf, NextTo
<1>12. ~InBus(r)' => IsLast(shown'[r], at'[r], state'[r])
  <2>1. CASE r = p
    <3>1. ~InBus(r)' => LastOf(r, 1)
      BY <1>2, <1>5, <1>7, <2>1 DEF LastOf
    <3> QED
      BY <1>2, <1>4, <1>6, <1>8, <2>1, <3>1
  <2>2. CASE r # p
    <3>1. ~InBus(r)' => ~InBus(r)
      BY <1>5, <1>7, <2>2
    <3> QED
      BY <1>4, <1>8, <2>2, <3>1
  <2> QED
    BY <2>1, <2>2
<1>13. \A i \in DOMAIN bus' : FirstOf(r, i)' => Follows(shown'[r], bus'[i].severity)
  BY <1>2, <1>4, <1>6, <1>8, <1>11
<1>14. \A i, j \in DOMAIN bus' : NextTo(r, i, j)' => Follows(bus'[i].severity, bus'[j].severity)
  BY <1>2, <1>8, <1>10
<1>15. \A i \in DOMAIN bus' : LastOf(r, i)' => IsLast(bus'[i].severity, at'[r], state'[r])
  BY <1>2, <1>4, <1>8, <1>9
<1> QED
  BY <1>12, <1>13, <1>14, <1>15 DEF LevelOf
-----------------------------------------------------------------------------
(* What holds at every step: types, filters that hide nothing, levels. *)
LEMMA LevelInvariant ==
  ASSUME NoPollerCooldown
  PROVE  Spec => [](Typed /\ LevelInv /\ FilterInv)
<1>1. Init => Typed /\ LevelInv /\ FilterInv
  <2> SUFFICES ASSUME Init
               PROVE  Typed /\ LevelInv /\ FilterInv
    OBVIOUS
  <2>1. bus = <<>> /\ bus \in Seq(Item) /\ DOMAIN bus = {}
    BY EmptySeq DEF Init
  <2>2. Typed
    BY <2>1 DEF Init, Typed, States
  <2>3. LevelInv
    BY <2>1 DEF Init, LevelInv, LevelOf, IsLast
  <2>4. FilterInv
    BY DEF Init, FilterInv, NoEntries
  <2> QED
    BY <2>2, <2>3, <2>4
<1>2. Typed /\ LevelInv /\ FilterInv /\ [Next]_vars => Typed' /\ LevelInv' /\ FilterInv'
  <2> SUFFICES ASSUME Typed, LevelInv, FilterInv, [Next]_vars
               PROVE  Typed' /\ LevelInv' /\ FilterInv'
    OBVIOUS
  <2>1. Typed' /\ FilterInv'
    BY TypedStep, FilterStep
  <2> SUFFICES LevelInv'
    BY <2>1
  <2>2. CASE \E p \in Pollers : Poll(p)
    BY <2>2, PollStep
  <2>3. CASE \E p \in Pollers : Publish(p)
    BY <2>3, PublishStep
  <2>4. CASE \E p \in Pollers : Stop(p)
    <3>1. PICK p \in Pollers : Stop(p)
      BY <2>4
    <3>2. /\ at[p] = "waiting" /\ at' = [at EXCEPT ![p] = "stopped"]
          /\ UNCHANGED <<bus, shown, state>>
      BY <3>1 DEF Stop, historyVars
    <3>3. \A r \in Pollers : \A a : IsLast(a, at[r], state[r]) => IsLast(a, at'[r], state'[r])
      BY <3>2 DEF IsLast, Typed
    <3> QED
      BY <3>2, <3>3, LevelFrame
  <2>5. CASE \E p \in Pollers : Change(p)
    BY <2>5, LevelFrame DEF Change, historyVars
  <2>6. CASE Dispatch
    BY <2>6, DispatchStep
  <2>7. CASE UNCHANGED <<reading, state, at, bus, filterVars, shown>>
    BY <2>7, LevelFrame
  <2> QED
    BY <2>2, <2>3, <2>4, <2>5, <2>6, <2>7, NextCases
<1> QED
  BY <1>1, <1>2, PTL DEF Spec

(* When a poller has nothing to publish and the bus none of its alerts, the   *)
(* owner was last told the level its poller is at: neither the cooldowns nor  *)
(* the duplicate filter nor the bus hides a change (poller.go, check;         *)
(* dispatcher.go, process).                                                   *)
THEOREM LevelTheorem ==
  ASSUME NoPollerCooldown
  PROVE  Spec => []LevelShown
<1>1. LevelInv => LevelShown
  BY DEF LevelInv, LevelOf, IsLast, LevelShown
<1> QED
  BY <1>1, LevelInvariant, PTL

(* The alerts the owner gets of a source go up one level at a time, and down  *)
(* from any to RECOVERED (poller.go, check).                                  *)
THEOREM OrderTheorem ==
  ASSUME NoPollerCooldown
  PROVE  Spec => LevelsInOrder
<1>1. Typed /\ LevelInv /\ FilterInv /\ [Next]_vars =>
      [\A p \in Pollers :
         shown'[p] # shown[p] =>
           <<shown[p], shown'[p]>> \in {<<"none", "WARNING">>, <<"RECOVERED", "WARNING">>,
             <<"WARNING", "CRITICAL">>, <<"WARNING", "RECOVERED">>, <<"CRITICAL", "RECOVERED">>}]_vars
  <2> SUFFICES ASSUME Typed, LevelInv, FilterInv, [Next]_vars, NEW p \in Pollers,
                      shown'[p] # shown[p]
               PROVE  Follows(shown[p], shown'[p])
    BY DEF Follows
  <2>1. Dispatch
    BY NextCases DEF Poll, Publish, Stop, Change, historyVars
  <2>2. /\ Follows(shown[bus[1].event.source], bus[1].severity)
        /\ shown' = [shown EXCEPT ![bus[1].event.source] = bus[1].severity]
    BY <2>1, DispatchEffect
  <2> QED
    BY <2>2 DEF Typed
<1> QED
  BY <1>1, LevelInvariant, PTL DEF Spec, LevelsInOrder
=============================================================================
