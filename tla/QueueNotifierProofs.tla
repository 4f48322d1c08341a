------------------------ MODULE QueueNotifierProofs ------------------------
(***************************************************************************)
(* Proofs about the queueing notifier, for every cap, every number of      *)
(* alerts and every budget of faults.  First its types and the shape of    *)
(* queue and file, by which Remove takes the right entry; then that alerts *)
(* reach Telegram in the order they were handed over, that none vanishes,  *)
(* and that copies and announcements have their reasons; last that it      *)
(* implements AlertChannel.                                                *)
(***************************************************************************)
EXTENDS QueueNotifier, SequenceTheorems, FiniteSetTheorems, FunctionTheorems,
        WellFoundedInduction, TLAPS

(***************************************************************************)
(* What the operators of Queue do to a queue, position by position.  The   *)
(* proofs about the notifier use a queue only through these lemmas.        *)
(***************************************************************************)

\* Push (queue.go, Push) keeps the old entries, less the oldest when the queue
\* was full, puts the new one behind them, and counts what it discarded.
LEMMA PushEffect ==
  ASSUME NEW u \in QueueState, Len(u.entries) <= Max, NEW e \in Nat
  PROVE  /\ Push(u, e) \in QueueState
         /\ Push(u, e).nextSeq = u.nextSeq + 1
         /\ Len(u.entries) < Max =>
              /\ Len(Push(u, e).entries) = Len(u.entries) + 1
              /\ \A i \in 1..Len(u.entries) : Push(u, e).entries[i] = u.entries[i]
              /\ Push(u, e).entries[Len(u.entries) + 1]
                   = [seq |-> u.nextSeq + 1, event |-> e]
              /\ Push(u, e).dropped = u.dropped
         /\ Len(u.entries) = Max =>
              /\ Len(Push(u, e).entries) = Max
              /\ \A i \in 1..(Max - 1) : Push(u, e).entries[i] = u.entries[i + 1]
              /\ Push(u, e).entries[Max] = [seq |-> u.nextSeq + 1, event |-> e]
              /\ Push(u, e).dropped = u.dropped + 1
<1> DEFINE n == Len(u.entries)
           x == [seq |-> u.nextSeq + 1, event |-> e]
           a == appendLocked(u, e)
<1>1. /\ u.entries \in Seq(Entry) /\ u.nextSeq \in Nat /\ u.dropped \in Nat
      /\ n \in Nat
  BY DEF QueueState
<1>2. x \in Entry
  BY <1>1 DEF Entry
<1>3. /\ a.entries \in Seq(Entry) /\ Len(a.entries) = n + 1
      /\ \A i \in 1..n : a.entries[i] = u.entries[i]
      /\ a.entries[n + 1] = x
      /\ a.nextSeq = u.nextSeq + 1 /\ a.dropped = u.dropped
      /\ a \in QueueState
  BY <1>1, <1>2, AppendProperties DEF appendLocked, QueueState
<1> HIDE DEF a, x
<1>4. CASE n < Max
  <2>1. ~(Excess(a) > 0)
    BY <1>1, <1>3, <1>4, MaxAssumption DEF Excess
  <2>2. Push(u, e) = a
    BY <2>1 DEF Push, trimLocked, a
  <2> QED
    BY <1>1, <1>3, <1>4, <2>2, MaxAssumption DEF x
<1>5. CASE n = Max
  <2>1. Excess(a) = 1
    BY <1>1, <1>3, <1>5, MaxAssumption DEF Excess
  <2> DEFINE s == SubSeq(a.entries, 2, n + 1)
  <2>2. Push(u, e) = [entries |-> s, nextSeq |-> a.nextSeq, dropped |-> a.dropped + 1]
    BY <2>1, <1>3 DEF Push, trimLocked, a
  <2>3. /\ s \in Seq(Entry) /\ Len(s) = n
        /\ \A i \in 1..n : s[i] = a.entries[i + 1]
    <3>1. \A i \in 2..(n + 1) : a.entries[i] \in Entry
      BY <1>1, <1>3, ElementOfSeq
    <3>2. n >= 1
      BY <1>1, <1>5, MaxAssumption
    <3> HIDE DEF n
    <3> QED
      BY <1>1, <1>3, <3>1, <3>2, SubSeqProperties
  <2> HIDE DEF s
  <2>4. Push(u, e) \in QueueState
    BY <2>2, <2>3, <1>1, <1>3 DEF QueueState
  <2>5. /\ Push(u, e).entries = s
        /\ Push(u, e).nextSeq = u.nextSeq + 1
        /\ Push(u, e).dropped = u.dropped + 1
    BY <2>2, <1>3
  <2>6. s[Max] = x
    <3>1. Max \in 1..n
      BY <1>5, MaxAssumption
    <3> HIDE DEF n
    <3> QED
      BY <1>3, <1>5, <2>3, <3>1
  <2>7. ASSUME NEW i \in 1..(Max - 1)
        PROVE  s[i] = u.entries[i + 1]
    <3>1. i \in 1..n /\ i + 1 \in 1..n
      BY <1>5, MaxAssumption
    <3> HIDE DEF n
    <3> QED
      BY <1>3, <2>3, <3>1
  <2> QED
    BY <1>5, <2>3, <2>4, <2>5, <2>6, <2>7 DEF x
<1> QED
  BY <1>1, <1>4, <1>5, MaxAssumption

\* The same without the case distinction: k is what the cap discards.
LEMMA PushShift ==
  ASSUME NEW u \in QueueState, Len(u.entries) <= Max, NEW e \in Nat
  PROVE  \E k \in {0, 1} :
            /\ Len(u.entries) >= k
            /\ Len(Push(u, e).entries) = Len(u.entries) - k + 1
            /\ \A i \in 1..(Len(u.entries) - k) :
                  Push(u, e).entries[i] = u.entries[i + k]
            /\ Push(u, e).entries[Len(u.entries) - k + 1]
                 = [seq |-> u.nextSeq + 1, event |-> e]
            /\ Push(u, e).dropped = u.dropped + k
            /\ Push(u, e).nextSeq = u.nextSeq + 1
            /\ k = 1 => Len(u.entries) = Max
<1> DEFINE n == Len(u.entries)
<1>1. n \in Nat /\ u.dropped \in Nat
  BY DEF QueueState
<1>2. CASE n < Max
  <2>1. /\ Len(Push(u, e).entries) = n + 1
        /\ \A i \in 1..n : Push(u, e).entries[i] = u.entries[i]
        /\ Push(u, e).entries[n + 1] = [seq |-> u.nextSeq + 1, event |-> e]
        /\ Push(u, e).dropped = u.dropped /\ Push(u, e).nextSeq = u.nextSeq + 1
    BY <1>2, PushEffect
  <2> HIDE DEF n
  <2> QED
    BY <1>1, <2>1 DEF n
<1>3. CASE n = Max
  <2>1. /\ Len(Push(u, e).entries) = Max
        /\ \A i \in 1..(Max - 1) : Push(u, e).entries[i] = u.entries[i + 1]
        /\ Push(u, e).entries[Max] = [seq |-> u.nextSeq + 1, event |-> e]
        /\ Push(u, e).dropped = u.dropped + 1 /\ Push(u, e).nextSeq = u.nextSeq + 1
    BY <1>3, PushEffect
  <2>2. n - 1 + 1 = n /\ n >= 1
    BY <1>1, <1>3, MaxAssumption
  <2> QED
    BY <1>3, <2>1, <2>2
<1>4. n < Max \/ n = Max
  BY <1>1, MaxAssumption
<1> QED
  BY <1>2, <1>3, <1>4

\* A set of positive numbers that is not empty has a least element.
LEMMA LeastExists ==
  ASSUME NEW S \in SUBSET Nat, S # {}
  PROVE  \E i \in S : \A j \in S : i <= j
<1>1. \E i \in S : \A j \in S : ~(<<j, i>> \in OpToRel(<, Nat))
  BY NatLessThanWellFounded, WFMin
<1>2. PICK i \in S : \A j \in S : ~(<<j, i>> \in OpToRel(<, Nat))
  BY <1>1
<1>3. \A j \in S : ~(j < i)
  BY <1>2 DEF OpToRel
<1> QED
  BY <1>3

\* Remove (queue.go, Remove) leaves the queue as it is when no entry has the id,
\* and otherwise closes the gap that such an entry leaves.
LEMMA RemoveEffect ==
  ASSUME NEW u \in QueueState, NEW id
  PROVE  \/ /\ \A i \in 1..Len(u.entries) : u.entries[i].seq # id
            /\ Remove(u, id) = u
         \/ \E k \in 1..Len(u.entries) :
               /\ u.entries[k].seq = id
               /\ Remove(u, id) \in QueueState
               /\ Len(Remove(u, id).entries) = Len(u.entries) - 1
               /\ \A i \in 1..(Len(u.entries) - 1) :
                    Remove(u, id).entries[i] = u.entries[IF i < k THEN i ELSE i + 1]
               /\ Remove(u, id).nextSeq = u.nextSeq
               /\ Remove(u, id).dropped = u.dropped
<1> DEFINE n == Len(u.entries)
           H == Position(u, id)
           s == u.entries
<1>1. /\ s \in Seq(Entry) /\ u.nextSeq \in Nat /\ u.dropped \in Nat
      /\ n \in Nat /\ DOMAIN s = 1..n
      /\ u = [entries |-> s, nextSeq |-> u.nextSeq, dropped |-> u.dropped]
  BY DEF QueueState
<1>2. H = {i \in 1..n : s[i].seq = id}
  BY <1>1 DEF Position
<1>3. CASE H = {}
  BY <1>2, <1>3 DEF Remove
<1>4. CASE H # {}
  <2> DEFINE k == CHOOSE i \in H : \A j \in H : i <= j
             a == SubSeq(s, 1, k - 1)
             b == SubSeq(s, k + 1, n)
             t == a \o b
  <2>1. k \in 1..n /\ s[k].seq = id
    <3>1. H \in SUBSET Nat
      BY <1>1, <1>2
    <3>2. \E i \in H : \A j \in H : i <= j
      BY <3>1, <1>4, LeastExists
    <3> QED
      BY <3>2, <1>2
  <2>2. Remove(u, id) = [entries |-> t, nextSeq |-> u.nextSeq, dropped |-> u.dropped]
    BY <1>1, <1>4 DEF Remove
  <2> HIDE DEF k
  <2>3. \A i \in 1..n : s[i] \in Entry
    BY <1>1, ElementOfSeq
  <2>4. /\ a \in Seq(Entry) /\ Len(a) = k - 1
        /\ \A i \in 1..(k - 1) : a[i] = s[i]
    <3>1. \A i \in 1..(k - 1) : s[i] \in Entry
      BY <1>1, <2>1, <2>3
    <3> HIDE DEF s, n
    <3> QED
      BY <1>1, <2>1, <3>1, SubSeqProperties, SMTT(30)
  <2>5. /\ b \in Seq(Entry) /\ Len(b) = n - k
        /\ \A i \in 1..(n - k) : b[i] = s[i + k]
    <3>1. \A i \in (k + 1)..n : s[i] \in Entry
      BY <1>1, <2>1, <2>3
    <3> HIDE DEF s, n
    <3> QED
      BY <1>1, <2>1, <3>1, SubSeqProperties, SMTT(30)
  <2> HIDE DEF a, b
  <2>6. /\ t \in Seq(Entry) /\ Len(t) = n - 1
        /\ \A i \in 1..(n - 1) : t[i] = s[IF i < k THEN i ELSE i + 1]
    <3>1. /\ t \in Seq(Entry) /\ Len(t) = Len(a) + Len(b)
          /\ \A i \in 1..(Len(a) + Len(b)) :
                t[i] = IF i <= Len(a) THEN a[i] ELSE b[i - Len(a)]
      BY <2>4, <2>5, ConcatProperties
    <3> HIDE DEF s, n, t
    <3>2. Len(t) = n - 1
      BY <1>1, <2>1, <2>4, <2>5, <3>1
    <3>3. ASSUME NEW i \in 1..(n - 1), i < k
          PROVE  t[i] = s[i]
      <4>1. t[i] = a[i] /\ i \in 1..(k - 1)
        BY <1>1, <2>1, <2>4, <2>5, <3>1, <3>3, SMTT(30)
      <4> QED
        BY <2>4, <4>1
    <3>4. ASSUME NEW i \in 1..(n - 1), ~(i < k)
          PROVE  t[i] = s[i + 1]
      <4> DEFINE j == i - (k - 1)
      <4>1. j \in 1..(n - k) /\ j + k = i + 1
        BY <1>1, <2>1, <3>4
      <4>2. t[i] = b[j]
        BY <1>1, <2>1, <2>4, <2>5, <3>1, <3>4, SMTT(30)
      <4> HIDE DEF j
      <4> QED
        BY <2>5, <4>1, <4>2
    <3> QED
      BY <3>1, <3>2, <3>3, <3>4
  <2> HIDE DEF t
  <2>7. Remove(u, id) \in QueueState
    BY <1>1, <2>2, <2>6 DEF QueueState
  <2> QED
    BY <2>1, <2>2, <2>6, <2>7
<1> QED
  BY <1>3, <1>4

\* The image of a queue (queue.go, persistLocked) holds its events in order.
LEMMA ImageEffect ==
  ASSUME NEW u \in QueueState
  PROVE  /\ Image(u) \in FileState
         /\ Image(u).dropped = u.dropped
         /\ DOMAIN Image(u).events = 1..Len(u.entries)
         /\ Len(Image(u).events) = Len(u.entries)
         /\ \A i \in 1..Len(u.entries) : Image(u).events[i] = u.entries[i].event
<1>1. u.entries \in Seq(Entry) /\ u.dropped \in Nat
  BY DEF QueueState
<1>2. \A i \in 1..Len(u.entries) : u.entries[i].event \in Nat
  <2>1. \A i \in 1..Len(u.entries) : u.entries[i] \in Entry
    BY <1>1, ElementOfSeq
  <2> QED
    BY <2>1 DEF Entry
<1> DEFINE s == [i \in DOMAIN u.entries |-> u.entries[i].event]
<1>3. s \in Seq(Nat) /\ Len(s) = Len(u.entries)
  <2>1. /\ DOMAIN u.entries = 1..Len(u.entries) /\ Len(u.entries) \in Nat
    BY <1>1
  <2>2. s \in [1..Len(u.entries) -> Nat]
    BY <1>2, <2>1
  <2>3. \A t : t \in [1..Len(u.entries) -> Nat] =>
                 t \in Seq(Nat) /\ Len(t) = Len(u.entries)
    BY <2>1
  <2> QED
    BY <2>2, <2>3
<1> QED
  BY <1>1, <1>3 DEF Image, FileState

\* Opening a file that holds no more events than the cap (queue.go, Open) brings
\* all of them back, in order.
LEMMA OpenEffect ==
  ASSUME NEW file0 \in FileState, Len(file0.events) <= Max
  PROVE  /\ Open(file0) \in QueueState
         /\ Len(Open(file0).entries) = Len(file0.events)
         /\ \A i \in 1..Len(file0.events) :
              Open(file0).entries[i] = [seq |-> i, event |-> file0.events[i]]
         /\ Open(file0).nextSeq = Len(file0.events)
         /\ Open(file0).dropped = file0.dropped
<1> DEFINE n == Len(file0.events)
           s == [i \in DOMAIN file0.events |-> [seq |-> i, event |-> file0.events[i]]]
<1>1. /\ file0.events \in Seq(Nat) /\ file0.dropped \in Nat /\ n \in Nat
      /\ DOMAIN file0.events = 1..n
  BY DEF FileState
<1>2. \A i \in 1..n : file0.events[i] \in Nat
  BY <1>1, ElementOfSeq
<1>3. s \in [1..n -> Entry]
  BY <1>1, <1>2 DEF Entry
<1>a. \A t : t \in [1..n -> Entry] => t \in Seq(Entry) /\ Len(t) = n
  BY <1>1
<1>4. s \in Seq(Entry) /\ Len(s) = n
  BY <1>3, <1>a
<1> DEFINE r == [entries |-> s, nextSeq |-> n, dropped |-> file0.dropped]
<1>5. ~(Excess(r) > 0)
  BY <1>1, <1>4, MaxAssumption DEF Excess
<1>6. Open(file0) = r
  BY <1>1, <1>5 DEF Open, trimLocked
<1>7. r \in QueueState
  BY <1>1, <1>4 DEF QueueState
<1> QED
  BY <1>1, <1>4, <1>6, <1>7

\* The events of a queue after Push and Remove.
LEMMA PushEvents ==
  ASSUME NEW u \in QueueState, Len(u.entries) <= Max, NEW e \in Nat
  PROVE  /\ Events(Push(u, e)) \subseteq Events(u) \union {e}
         /\ e \in Events(Push(u, e))
<1> DEFINE n == Len(u.entries)
           p == Push(u, e)
<1>1. PICK k \in {0, 1} :
            /\ n >= k
            /\ Len(p.entries) = n - k + 1
            /\ \A i \in 1..(n - k) : p.entries[i] = u.entries[i + k]
            /\ p.entries[n - k + 1] = [seq |-> u.nextSeq + 1, event |-> e]
  BY PushShift
<1>2. /\ n \in Nat /\ DOMAIN u.entries = 1..n
      /\ DOMAIN p.entries = 1..Len(p.entries)
  BY PushEffect DEF QueueState
<1> HIDE DEF n, p
<1>3. ASSUME NEW i \in 1..Len(p.entries)
      PROVE  p.entries[i].event \in Events(u) \union {e}
  <2>1. CASE i = n - k + 1
    BY <1>1, <2>1
  <2>2. CASE i \in 1..(n - k)
    <3>1. p.entries[i] = u.entries[i + k] /\ i + k \in 1..n
      BY <1>1, <1>2, <2>2
    <3> QED
      BY <1>2, <3>1 DEF Events
  <2> QED
    BY <1>1, <1>2, <2>1, <2>2
<1>4. n - k + 1 \in 1..Len(p.entries) /\ p.entries[n - k + 1].event = e
  BY <1>1, <1>2
<1> QED
  BY <1>2, <1>3, <1>4 DEF Events, p

\* Remove takes no other alert than the one whose id Front gave out.
LEMMA RemoveEvents ==
  ASSUME NEW u \in QueueState, NEW id, NEW e,
         \A i \in 1..Len(u.entries) : u.entries[i].seq = id => u.entries[i].event = e
  PROVE  /\ Events(Remove(u, id)) \subseteq Events(u)
         /\ Events(u) \subseteq Events(Remove(u, id)) \union {e}
<1> DEFINE n == Len(u.entries)
           r == Remove(u, id)
<1>1. n \in Nat /\ DOMAIN u.entries = 1..n
  BY DEF QueueState
<1>2. CASE r = u
  BY <1>2
<1>3. ASSUME NEW k \in 1..n, u.entries[k].seq = id, r \in QueueState,
             Len(r.entries) = n - 1,
             \A i \in 1..(n - 1) : r.entries[i] = u.entries[IF i < k THEN i ELSE i + 1]
      PROVE  /\ Events(r) \subseteq Events(u)
             /\ Events(u) \subseteq Events(r) \union {e}
  <2> HIDE DEF n, r
  <2>1. DOMAIN r.entries = 1..(n - 1)
    BY <1>1, <1>3 DEF QueueState
  <2>2. ASSUME NEW i \in 1..(n - 1)
        PROVE  r.entries[i].event \in Events(u)
    <3>1. (IF i < k THEN i ELSE i + 1) \in 1..n
      BY <1>1
    <3> QED
      BY <1>1, <1>3, <3>1 DEF Events
  <2>3. ASSUME NEW j \in 1..n
        PROVE  u.entries[j].event \in Events(r) \union {e}
    <3>1. CASE j = k
      BY <1>3, <3>1 DEF n
    <3>2. CASE j < k
      <4>1. j \in 1..(n - 1) /\ r.entries[j] = u.entries[j]
        BY <1>1, <1>3, <3>2
      <4> QED
        BY <2>1, <4>1 DEF Events
    <3>3. CASE j > k
      <4>1. j - 1 \in 1..(n - 1) /\ ~(j - 1 < k) /\ j - 1 + 1 = j
        BY <1>1, <3>3
      <4>2. r.entries[j - 1] = u.entries[j]
        BY <1>3, <4>1
      <4> QED
        BY <2>1, <4>1, <4>2 DEF Events
    <3> QED
      BY <1>1, <3>1, <3>2, <3>3
  <2> QED
    BY <1>1, <2>1, <2>2, <2>3 DEF Events
<1> QED
  BY <1>2, <1>3, RemoveEffect
-----------------------------------------------------------------------------
(***************************************************************************)
(* The notifier: types, the lock, and the shape of the queue.              *)
(***************************************************************************)

\* Memory and file hold no more alerts than the cap (queue.go, trimLocked).
Capacity == Len(q.entries) <= Max /\ Len(file.events) <= Max

\* What it means for the parts of a queue that it is one.
LEMMA EntryType ==
  ASSUME NEW r \in QueueState
  PROVE  /\ r.entries \in Seq(Entry) /\ Len(r.entries) \in Nat
         /\ DOMAIN r.entries = 1..Len(r.entries)
         /\ r.nextSeq \in Nat /\ r.dropped \in Nat
         /\ \A i \in 1..Len(r.entries) :
               r.entries[i].seq \in Nat /\ r.entries[i].event \in Nat
         /\ Events(r) \subseteq Nat
<1>1. r.entries \in Seq(Entry) /\ r.nextSeq \in Nat /\ r.dropped \in Nat
  BY DEF QueueState
<1>2. /\ DOMAIN r.entries = 1..Len(r.entries)
      /\ Len(r.entries) \in Nat
  BY <1>1
<1>3. \A i \in 1..Len(r.entries) : r.entries[i] \in Entry
  BY <1>1, ElementOfSeq
<1>4. \A i \in 1..Len(r.entries) : r.entries[i].seq \in Nat /\ r.entries[i].event \in Nat
  BY <1>3 DEF Entry
<1> QED
  BY <1>1, <1>2, <1>4 DEF Events

\* Writing the file (queue.go, persistLocked) leaves the old or the new image.
LEMMA PersistEffect ==
  ASSUME TypeOK, Capacity, NEW r \in QueueState, Len(r.entries) <= Max, Persist(r)
  PROVE  /\ file' \in FileState /\ Len(file'.events) <= Max
         /\ faults' \in [FaultKinds -> Nat]
         /\ \/ file' = Image(r) /\ faults' = faults
            \/ file' = file /\ faults' = [faults EXCEPT !["disk"] = faults["disk"] + 1]
<1>1. CASE file' = Image(r) /\ UNCHANGED faults
  BY <1>1, ImageEffect DEF TypeOK
<1>2. CASE Fault("disk") /\ UNCHANGED file
  BY <1>2 DEF TypeOK, Capacity, Fault, FaultKinds
<1> QED
  BY <1>1, <1>2 DEF Persist

\* However the inner notifier answers, faults are counted in numbers.
LEMMA AnswerType ==
  ASSUME TypeOK, NEW o \in Outcomes, Answered(o)
  PROVE  faults' \in [FaultKinds -> Nat]
BY DEF TypeOK, Answered, Fault, Outcomes, FaultKinds

\* However it answers, only alerts are noted as taken or refused.
LEMMA DeliverType ==
  ASSUME TypeOK, NEW o \in Outcomes, NEW e \in Nat, Deliver(e, o)
  PROVE  delivered' \subseteq Nat /\ rejected' \subseteq Nat /\ repeats' \in Nat
BY DEF TypeOK, Deliver

(* Every variable keeps its type, and neither memory nor file ever holds more *)
(* alerts than the cap (queue.go, Push and Open).                             *)
THEOREM TypeCorrect == Spec => [](TypeOK /\ Capacity)
<1>1. Init => TypeOK /\ Capacity
  BY MaxAssumption DEF Init, TypeOK, Capacity, NewQueue, NoFile, QueueState, FileState,
       NoFront, FaultKinds
<1>2. TypeOK /\ Capacity /\ [Next]_vars => TypeOK' /\ Capacity'
  <2> SUFFICES ASSUME TypeOK, Capacity, [Next]_vars
               PROVE  TypeOK' /\ Capacity'
    OBVIOUS
  <2> USE DEF historyVars, threadVars, queueVars
  <2>1. CASE SendCheck
    BY <2>1 DEF SendCheck, TypeOK, Capacity
  <2>2. CASE SendLock
    BY <2>2 DEF SendLock, TypeOK, Capacity
  <2>3. CASE SendRecheck
    BY <2>3 DEF SendRecheck, TypeOK, Capacity
  <2>4. ASSUME NEW o \in Outcomes, SendDirect(o)
        PROVE  TypeOK' /\ Capacity'
    <3>1. handed \in Nat /\ Answered(o) /\ Deliver(handed, o)
      BY <2>4 DEF SendDirect, TypeOK
    <3> QED
      BY <2>4, <3>1, AnswerType, DeliverType DEF SendDirect, SenderUnlock, TypeOK, Capacity
  <2>5. CASE SendPush
    <3>1. q' \in QueueState /\ Len(q'.entries) <= Max
      <4>1. /\ q \in QueueState /\ handed \in Nat /\ Len(q.entries) \in Nat
            /\ Len(q.entries) <= Max
        BY EntryType DEF TypeOK, Capacity
      <4>2. q' = Push(q, handed)
        BY <2>5 DEF SendPush
      <4>3. /\ Push(q, handed) \in QueueState
            /\ Len(q.entries) < Max =>
                  Len(Push(q, handed).entries) = Len(q.entries) + 1
            /\ Len(q.entries) = Max => Len(Push(q, handed).entries) = Max
        BY <4>1, PushEffect
      <4> QED
        BY <4>1, <4>2, <4>3, MaxAssumption
    <3>2. Persist(q')
      BY <2>5 DEF SendPush
    <3>3. file' \in FileState /\ Len(file'.events) <= Max /\ faults' \in [FaultKinds -> Nat]
      BY <3>1, <3>2, PersistEffect
    <3>4. capped' \subseteq Nat
      <4>1. Events(q) \subseteq Nat
        BY EntryType DEF TypeOK
      <4> QED
        BY <2>5, <4>1 DEF SendPush, TypeOK
    <3> QED
      BY <2>5, <3>1, <3>3, <3>4 DEF SendPush, SenderUnlock, TypeOK, Capacity
  <2>6. CASE FlushCheckLen
    BY <2>6 DEF FlushCheckLen, TypeOK, Capacity
  <2>7. CASE FlushCheckDropped
    BY <2>7 DEF FlushCheckDropped, TypeOK, Capacity
  <2>8. CASE FlushLock
    BY <2>8 DEF FlushLock, TypeOK, Capacity
  <2>9. CASE FlushReadDropped
    <3>1. q.dropped \in Nat
      BY EntryType DEF TypeOK
    <3> QED
      BY <2>9, <3>1 DEF FlushReadDropped, TypeOK, Capacity
  <2>10. ASSUME NEW o \in Outcomes, FlushSummary(o)
         PROVE  TypeOK' /\ Capacity'
    <3>1. Answered(o)
      BY <2>10 DEF FlushSummary
    <3>2. faults' \in [FaultKinds -> Nat]
      BY <3>1, AnswerType
    <3>3. /\ announced' \in Nat /\ snap' \in Nat /\ front' \in [id : Nat, event : Nat]
          /\ sendMu' \in {"free", "sender", "flusher"} /\ flusher' \in {"idle", "reset"}
      BY <2>10 DEF FlushSummary, FlushReturn, NoFront, TypeOK
    <3> QED
      BY <2>10, <3>2, <3>3 DEF FlushSummary, TypeOK, Capacity
  <2>11. CASE FlushReset
    <3>1. q' = ResetDropped(q) /\ Persist(q')
      BY <2>11 DEF FlushReset
    <3>2. q' \in QueueState /\ q'.entries = q.entries
      BY <3>1 DEF ResetDropped, QueueState, TypeOK
    <3>3. file' \in FileState /\ Len(file'.events) <= Max /\ faults' \in [FaultKinds -> Nat]
      BY <3>1, <3>2, PersistEffect DEF Capacity
    <3> QED
      BY <2>11, <3>2, <3>3 DEF FlushReset, TypeOK, Capacity
  <2>12. CASE FlushFront
    <3>1. q.entries # <<>> => Head(q.entries).seq \in Nat /\ Head(q.entries).event \in Nat
      <4>1. q.entries \in Seq(Entry)
        BY EntryType DEF TypeOK
      <4>2. q.entries # <<>> => Head(q.entries) \in Entry
        BY <4>1, HeadTailProperties
      <4> QED
        BY <4>2 DEF Entry
    <3>2. /\ front' \in [id : Nat, event : Nat]
          /\ flusher' \in {"idle", "sending"}
          /\ sendMu' \in {"free", "flusher", "sender"} /\ snap' \in Nat
      <4>1. CASE q.entries = <<>>
        BY <2>12, <4>1 DEF FlushFront, FlushReturn, NoFront
      <4>2. CASE q.entries # <<>>
        BY <2>12, <3>1, <4>2 DEF FlushFront, TypeOK
      <4> QED
        BY <4>1, <4>2
    <3> QED
      BY <2>12, <3>2 DEF FlushFront, TypeOK, Capacity
  <2>13. ASSUME NEW o \in Outcomes, FlushSend(o)
         PROVE  TypeOK' /\ Capacity'
    <3>1. front.event \in Nat /\ Answered(o) /\ Deliver(front.event, o)
      BY <2>13 DEF FlushSend, TypeOK
    <3>2. /\ faults' \in [FaultKinds -> Nat]
          /\ delivered' \subseteq Nat /\ rejected' \subseteq Nat /\ repeats' \in Nat
      BY <3>1, AnswerType, DeliverType
    <3>3. /\ snap' \in Nat /\ front' \in [id : Nat, event : Nat]
          /\ sendMu' \in {"free", "sender", "flusher"} /\ flusher' \in {"idle", "remove"}
      BY <2>13 DEF FlushSend, FlushReturn, NoFront, TypeOK
    <3> QED
      BY <2>13, <3>2, <3>3 DEF FlushSend, TypeOK, Capacity
  <2>14. CASE FlushRemove
    <3>1. q' \in QueueState /\ Len(q'.entries) <= Max
      <4>1. q \in QueueState /\ Len(q.entries) \in Nat
        BY EntryType DEF TypeOK
      <4>2. q' = Remove(q, front.id)
        BY <2>14 DEF FlushRemove
      <4> QED
        BY <4>1, <4>2, RemoveEffect, MaxAssumption DEF Capacity
    <3>2. file' \in FileState /\ Len(file'.events) <= Max /\ faults' \in [FaultKinds -> Nat]
      <4>1. CASE UNCHANGED <<file, faults>>
        BY <4>1 DEF TypeOK, Capacity
      <4>2. CASE Persist(q')
        BY <4>2, <3>1, PersistEffect
      <4> QED
        BY <2>14, <4>1, <4>2 DEF FlushRemove
    <3> QED
      BY <2>14, <3>1, <3>2 DEF FlushRemove, NoFront, TypeOK, Capacity
  <2>15. CASE Crash
    <3>1. NewQueue \in QueueState /\ Len(NewQueue.entries) = 0
      BY DEF NewQueue, QueueState
    <3>2. faults' \in [FaultKinds -> Nat]
      BY <2>15 DEF Crash, Fault, TypeOK, FaultKinds
    <3>3. lost' \subseteq Nat
      BY <2>15 DEF Crash, TypeOK
    <3>4. q' \in QueueState /\ Len(q'.entries) <= Max
      BY <2>15, <3>1, MaxAssumption DEF Crash
    <3> QED
      BY <2>15, <3>2, <3>3, <3>4 DEF Crash, NoFront, TypeOK, Capacity
  <2>16. CASE Restart
    <3>1. q' \in QueueState /\ Len(q'.entries) <= Max
      <4>1. NewQueue \in QueueState /\ Len(NewQueue.entries) = 0
        BY DEF NewQueue, QueueState
      <4>2. Open(file) \in QueueState /\ Len(Open(file).entries) = Len(file.events)
        BY OpenEffect DEF TypeOK, Capacity
      <4> QED
        BY <2>16, <4>1, <4>2, MaxAssumption DEF Restart, Capacity
    <3>2. faults' \in [FaultKinds -> Nat]
      BY <2>16 DEF Restart, Fault, TypeOK, FaultKinds
    <3> QED
      BY <2>16, <3>1, <3>2 DEF Restart, TypeOK, Capacity
  <2>17. CASE UNCHANGED vars
    BY <2>17 DEF vars, TypeOK, Capacity
  <2> QED
    BY <2>1, <2>2, <2>3, <2>4, <2>5, <2>6, <2>7, <2>8, <2>9, <2>10, <2>11, <2>12,
       <2>13, <2>14, <2>15, <2>16, <2>17 DEF Next, SenderStep, FlusherStep
<1> QED
  BY <1>1, <1>2, PTL DEF Spec
-----------------------------------------------------------------------------
(* The inductive invariant, part by part. *)

\* Who holds sendMu (notifier.go, sendMu) follows from where the two are, and a
\* direct send happens on an empty queue.
LockInv ==
  /\ sendMu = "flusher" <=>
       flusher \in {"readDropped", "summary", "reset", "next", "sending", "remove"}
  /\ sender \in {"recheck", "sending"} => sendMu = "sender"
  /\ sendMu = "sender" => sender \in {"recheck", "sending", "push"}
  /\ sender = "sending" => q.entries = <<>>
  /\ sender # "idle" => handed > 0
  /\ ~up => sender = "idle" /\ flusher = "idle"

\* The newest alert that can be in the queue: not the one in the hands of Send.
Top == IF sender = "idle" THEN handed ELSE handed - 1

\* The queue and the file hold alerts in the order of their arrival, and
\* sequence numbers are as unique as the alerts.
QueueInv ==
  \A i \in 1..Len(q.entries) :
    /\ q.entries[i].event \in 1..Top
    /\ q.entries[i].seq \in 1..q.nextSeq
    /\ \A j \in 1..Len(q.entries) :
         i < j => /\ q.entries[i].event < q.entries[j].event
                  /\ q.entries[i].seq < q.entries[j].seq

FileInv ==
  \A i \in 1..Len(file.events) :
    /\ file.events[i] \in 1..Top
    /\ \A j \in 1..Len(file.events) : i < j => file.events[i] < file.events[j]

\* What Flush holds from Front is no younger than anything queued.
FrontInv ==
  flusher \in {"sending", "remove"} =>
    /\ front.event \in 1..Top
    /\ front.id \in 1..q.nextSeq
    /\ \A i \in 1..Len(q.entries) :
         /\ q.entries[i].event >= front.event
         /\ q.entries[i].seq = front.id <=> q.entries[i].event = front.event

Shape == LockInv /\ QueueInv /\ FileInv /\ FrontInv
-----------------------------------------------------------------------------
(* Shape is invariant. *)

\* There is an alert in the hands of Send only if one was handed over.
LEMMA TopType ==
  ASSUME TypeOK, LockInv
  PROVE  Top \in Nat
BY DEF TypeOK, LockInv, Top

\* A step that leaves queue and file alone, and the flusher's front unless it
\* is dropped, keeps what is said of them.
LEMMA Frame ==
  ASSUME TypeOK, QueueInv, FileInv, FrontInv, q' = q, file' = file,
         Top \in Nat, Top' \in Nat, Top <= Top',
         flusher' \in {"sending", "remove"} =>
            flusher \in {"sending", "remove"} /\ front' = front
  PROVE  QueueInv' /\ FileInv' /\ FrontInv'
<1>1. \A x \in 1..Top : x \in 1..Top'
  OBVIOUS
<1>2. QueueInv'
  BY <1>1 DEF QueueInv
<1>3. FileInv'
  BY <1>1 DEF FileInv
<1>4. FrontInv'
  BY <1>1 DEF FrontInv
<1> QED
  BY <1>2, <1>3, <1>4

\* What the image of a sorted queue is, and that writing keeps the file sorted.
LEMMA FileKept ==
  ASSUME TypeOK, TypeOK', FileInv, QueueInv', Top \in Nat, Top' \in Nat, Top <= Top',
         file' = Image(q') \/ file' = file
  PROVE  FileInv'
<1>1. CASE file' = file
  <2>1. \A x \in 1..Top : x \in 1..Top'
    OBVIOUS
  <2> QED
    BY <1>1, <2>1 DEF FileInv
<1>2. CASE file' = Image(q')
  <2>1. q' \in QueueState
    BY DEF TypeOK
  <2>2. /\ Len(file'.events) = Len(q'.entries)
        /\ \A i \in 1..Len(q'.entries) : file'.events[i] = q'.entries[i].event
    BY <1>2, <2>1, ImageEffect
  <2> QED
    BY <2>2 DEF FileInv, QueueInv
<1> QED
  BY <1>1, <1>2

(* sendMu is held by who the program counters say; queue and file are sorted  *)
(* by age, with unique ids; and the flusher holds nothing younger than what   *)
(* is queued (notifier.go, Send and Flush).                                   *)
THEOREM ShapeInvariant == Spec => []Shape
<1>1. Init => Shape
  BY DEF Init, Shape, LockInv, QueueInv, FileInv, FrontInv, NewQueue, NoFile
<1>2. /\ TypeOK /\ Capacity /\ TypeOK' /\ Capacity' /\ Shape /\ [Next]_vars
      => Shape'
  <2> SUFFICES ASSUME TypeOK, Capacity, TypeOK', Capacity', Shape, [Next]_vars
               PROVE  Shape'
    OBVIOUS
  <2> USE DEF historyVars, threadVars, queueVars
  <2>a. LockInv /\ QueueInv /\ FileInv /\ FrontInv /\ Top \in Nat
    BY TopType DEF Shape
  <2>b. /\ q.entries \in Seq(Entry) /\ Len(q.entries) \in Nat
        /\ DOMAIN q.entries = 1..Len(q.entries) /\ q.nextSeq \in Nat
        /\ Len(q.entries) = 0 => q.entries = <<>>
    BY EntryType, EmptySeq DEF TypeOK
  <2>1. CASE SendCheck
    <3>1. LockInv' /\ q' = q /\ file' = file
      BY <2>1, <2>a, <2>b DEF SendCheck, LockInv, TypeOK
    <3>2. Top' \in Nat /\ Top <= Top'
      BY <2>1, <2>a DEF SendCheck, Top, LockInv, TypeOK
    <3>3. flusher' \in {"sending", "remove"} =>
             flusher \in {"sending", "remove"} /\ front' = front
      BY <2>1 DEF SendCheck, TypeOK
    <3> QED
      BY <2>a, <3>1, <3>2, <3>3, Frame DEF Shape
  <2>2. CASE SendLock
    <3>1. LockInv' /\ q' = q /\ file' = file
      BY <2>2, <2>a, <2>b DEF SendLock, LockInv, TypeOK
    <3>2. Top' \in Nat /\ Top <= Top'
      BY <2>2, <2>a DEF SendLock, Top, LockInv, TypeOK
    <3>3. flusher' \in {"sending", "remove"} =>
             flusher \in {"sending", "remove"} /\ front' = front
      BY <2>2 DEF SendLock, TypeOK
    <3> QED
      BY <2>a, <3>1, <3>2, <3>3, Frame DEF Shape
  <2>3. CASE SendRecheck
    <3>1. LockInv' /\ q' = q /\ file' = file
      BY <2>3, <2>a, <2>b DEF SendRecheck, LockInv, TypeOK
    <3>2. Top' \in Nat /\ Top <= Top'
      BY <2>3, <2>a DEF SendRecheck, Top, LockInv, TypeOK
    <3>3. flusher' \in {"sending", "remove"} =>
             flusher \in {"sending", "remove"} /\ front' = front
      BY <2>3 DEF SendRecheck, TypeOK
    <3> QED
      BY <2>a, <3>1, <3>2, <3>3, Frame DEF Shape
  <2>6. CASE FlushCheckLen
    <3>1. LockInv' /\ q' = q /\ file' = file
      BY <2>6, <2>a, <2>b DEF FlushCheckLen, LockInv, TypeOK
    <3>2. Top' \in Nat /\ Top <= Top'
      BY <2>6, <2>a DEF FlushCheckLen, Top, LockInv, TypeOK
    <3>3. flusher' \in {"sending", "remove"} =>
             flusher \in {"sending", "remove"} /\ front' = front
      BY <2>6 DEF FlushCheckLen, TypeOK
    <3> QED
      BY <2>a, <3>1, <3>2, <3>3, Frame DEF Shape
  <2>7. CASE FlushCheckDropped
    <3>1. LockInv' /\ q' = q /\ file' = file
      BY <2>7, <2>a, <2>b DEF FlushCheckDropped, LockInv, TypeOK
    <3>2. Top' \in Nat /\ Top <= Top'
      BY <2>7, <2>a DEF FlushCheckDropped, Top, LockInv, TypeOK
    <3>3. flusher' \in {"sending", "remove"} =>
             flusher \in {"sending", "remove"} /\ front' = front
      BY <2>7 DEF FlushCheckDropped, TypeOK
    <3> QED
      BY <2>a, <3>1, <3>2, <3>3, Frame DEF Shape
  <2>8. CASE FlushLock
    <3>1. LockInv' /\ q' = q /\ file' = file
      BY <2>8, <2>a, <2>b DEF FlushLock, LockInv, TypeOK
    <3>2. Top' \in Nat /\ Top <= Top'
      BY <2>8, <2>a DEF FlushLock, Top, LockInv, TypeOK
    <3>3. flusher' \in {"sending", "remove"} =>
             flusher \in {"sending", "remove"} /\ front' = front
      BY <2>8 DEF FlushLock, TypeOK
    <3> QED
      BY <2>a, <3>1, <3>2, <3>3, Frame DEF Shape
  <2>9. CASE FlushReadDropped
    <3>1. LockInv' /\ q' = q /\ file' = file
      BY <2>9, <2>a, <2>b DEF FlushReadDropped, LockInv, TypeOK
    <3>2. Top' \in Nat /\ Top <= Top'
      BY <2>9, <2>a DEF FlushReadDropped, Top, LockInv, TypeOK
    <3>3. flusher' \in {"sending", "remove"} =>
             flusher \in {"sending", "remove"} /\ front' = front
      BY <2>9 DEF FlushReadDropped, TypeOK
    <3> QED
      BY <2>a, <3>1, <3>2, <3>3, Frame DEF Shape
  <2>4. ASSUME NEW o \in Outcomes, SendDirect(o)
        PROVE  Shape'
    <3>1. LockInv' /\ q' = q /\ file' = file
      BY <2>4, <2>a DEF SendDirect, SenderUnlock, LockInv, TypeOK
    <3>2. Top' \in Nat /\ Top <= Top'
      BY <2>4, <2>a DEF SendDirect, SenderUnlock, Top, LockInv, TypeOK
    <3>3. flusher' \in {"sending", "remove"} =>
             flusher \in {"sending", "remove"} /\ front' = front
      BY <2>4 DEF SendDirect, SenderUnlock, TypeOK
    <3> QED
      BY <2>a, <3>1, <3>2, <3>3, Frame DEF Shape
  <2>10. ASSUME NEW o \in Outcomes, FlushSummary(o)
        PROVE  Shape'
    <3>1. LockInv' /\ q' = q /\ file' = file
      BY <2>10, <2>a DEF FlushSummary, FlushReturn, LockInv, TypeOK
    <3>2. Top' \in Nat /\ Top <= Top'
      BY <2>10, <2>a DEF FlushSummary, FlushReturn, Top, LockInv, TypeOK
    <3>3. flusher' \in {"sending", "remove"} =>
             flusher \in {"sending", "remove"} /\ front' = front
      BY <2>10 DEF FlushSummary, FlushReturn, TypeOK
    <3> QED
      BY <2>a, <3>1, <3>2, <3>3, Frame DEF Shape
  <2>13. ASSUME NEW o \in Outcomes, FlushSend(o)
        PROVE  Shape'
    <3>1. LockInv' /\ q' = q /\ file' = file
      BY <2>13, <2>a DEF FlushSend, FlushReturn, LockInv, TypeOK
    <3>2. Top' \in Nat /\ Top <= Top'
      BY <2>13, <2>a DEF FlushSend, FlushReturn, Top, LockInv, TypeOK
    <3>3. flusher' \in {"sending", "remove"} =>
             flusher \in {"sending", "remove"} /\ front' = front
      BY <2>13 DEF FlushSend, FlushReturn, TypeOK
    <3> QED
      BY <2>a, <3>1, <3>2, <3>3, Frame DEF Shape
  <2>5. CASE SendPush
    <3> DEFINE n == Len(q.entries)
    <3>1. /\ q' = Push(q, handed) /\ Persist(q') /\ sender # "idle" /\ sender' = "idle"
          /\ UNCHANGED <<flusher, front, handed>> /\ handed > 0
          /\ Top = handed - 1 /\ Top' = handed
      BY <2>5, <2>a DEF SendPush, Top, LockInv
    <3>2. LockInv'
      BY <2>5, <2>a DEF SendPush, SenderUnlock, LockInv, TypeOK
    <3>4. PICK k \in {0, 1} :
            /\ n >= k
            /\ Len(q'.entries) = n - k + 1
            /\ \A i \in 1..(n - k) : q'.entries[i] = q.entries[i + k]
            /\ q'.entries[n - k + 1] = [seq |-> q.nextSeq + 1, event |-> handed]
            /\ q'.nextSeq = q.nextSeq + 1
      <4>1. q \in QueueState /\ handed \in Nat /\ n <= Max
        BY DEF TypeOK, Capacity
      <4> QED
        BY <3>1, <4>1, PushShift
    <3>5. handed \in Nat /\ n \in Nat /\ q.nextSeq \in Nat
      BY <2>b DEF TypeOK
    <3> HIDE DEF n
    <3>6. \A i \in 1..(n - k) :
            /\ i + k \in 1..n
            /\ q.entries[i + k].event \in 1..(handed - 1)
            /\ q.entries[i + k].seq \in 1..q.nextSeq
      BY <2>a, <3>1, <3>4, <3>5 DEF QueueInv, n
    <3>7. QueueInv'
      <4> SUFFICES ASSUME NEW i \in 1..Len(q'.entries)
                   PROVE  /\ q'.entries[i].event \in 1..handed
                          /\ q'.entries[i].seq \in 1..(q.nextSeq + 1)
                          /\ \A j \in 1..Len(q'.entries) :
                               i < j => /\ q'.entries[i].event < q'.entries[j].event
                                        /\ q'.entries[i].seq < q'.entries[j].seq
        BY <3>1, <3>4 DEF QueueInv
      <4>1. CASE i = n - k + 1
        <5>1. q'.entries[i].event = handed /\ q'.entries[i].seq = q.nextSeq + 1
          BY <3>4, <4>1
        <5>2. \A j \in 1..Len(q'.entries) : ~(i < j)
          BY <3>4, <3>5, <4>1
        <5> QED
          BY <3>1, <3>5, <5>1, <5>2
      <4>2. CASE i \in 1..(n - k)
        <5>1. /\ q'.entries[i].event \in 1..(handed - 1)
              /\ q'.entries[i].seq \in 1..q.nextSeq
          BY <3>4, <3>6, <4>2
        <5>2. ASSUME NEW j \in 1..Len(q'.entries), i < j
              PROVE  /\ q'.entries[i].event < q'.entries[j].event
                     /\ q'.entries[i].seq < q'.entries[j].seq
          <6>1. CASE j = n - k + 1
            <7>1. /\ q'.entries[j].event = handed
                  /\ q'.entries[j].seq = q.nextSeq + 1
              BY <3>4, <6>1
            <7> QED
              BY <3>5, <5>1, <7>1, SMTT(30)
          <6>2. CASE j \in 1..(n - k)
            <7>1. i + k < j + k /\ i + k \in 1..n /\ j + k \in 1..n
              BY <3>4, <3>5, <3>6, <4>2, <5>2, <6>2
            <7>2. /\ q'.entries[i] = q.entries[i + k]
                  /\ q'.entries[j] = q.entries[j + k]
              BY <3>4, <4>2, <6>2
            <7>3. /\ q.entries[i + k].event < q.entries[j + k].event
                  /\ q.entries[i + k].seq < q.entries[j + k].seq
              BY <2>a, <7>1 DEF QueueInv, n
            <7> QED
              BY <7>2, <7>3
          <6> QED
            BY <3>4, <3>5, <5>2, <6>1, <6>2
        <5> QED
          BY <3>1, <3>5, <5>1, <5>2
      <4> QED
        BY <3>4, <3>5, <4>1, <4>2
    <3>8. FileInv'
      <4>1. file' = Image(q') \/ file' = file
        BY <3>1 DEF Persist
      <4> QED
        BY <2>a, <3>1, <3>5, <3>7, <4>1, FileKept
    <3>9. FrontInv'
      <4> SUFFICES ASSUME flusher' \in {"sending", "remove"}
                   PROVE  /\ front'.event \in 1..Top'
                          /\ front'.id \in 1..q'.nextSeq
                          /\ \A i \in 1..Len(q'.entries) :
                               /\ q'.entries[i].event >= front'.event
                               /\ q'.entries[i].seq = front'.id
                                    <=> q'.entries[i].event = front'.event
        BY DEF FrontInv
      <4>1. /\ front' = front
            /\ front.event \in 1..(handed - 1) /\ front.id \in 1..q.nextSeq
            /\ \A i \in 1..n :
                 /\ q.entries[i].event >= front.event
                 /\ q.entries[i].seq = front.id <=> q.entries[i].event = front.event
        BY <2>a, <3>1 DEF FrontInv, n
      <4>2. front'.event \in 1..Top' /\ front'.id \in 1..q'.nextSeq
        BY <3>1, <3>4, <3>5, <4>1
      <4>3. ASSUME NEW i \in 1..Len(q'.entries)
            PROVE  /\ q'.entries[i].event >= front.event
                   /\ q'.entries[i].seq = front.id <=> q'.entries[i].event = front.event
        <5>1. CASE i = n - k + 1
          <6>1. /\ q'.entries[i].event = handed
                /\ q'.entries[i].seq = q.nextSeq + 1
            BY <3>4, <5>1
          <6> QED
            BY <3>5, <4>1, <6>1
        <5>2. CASE i \in 1..(n - k)
          <6>1. q'.entries[i] = q.entries[i + k] /\ i + k \in 1..n
            BY <3>4, <3>6, <5>2
          <6> QED
            BY <4>1, <6>1
        <5> QED
          BY <3>4, <3>5, <5>1, <5>2
      <4> QED
        BY <4>1, <4>2, <4>3
    <3> QED
      BY <3>2, <3>7, <3>8, <3>9 DEF Shape
  <2>11. CASE FlushReset
    <3>1. /\ q' = ResetDropped(q) /\ Persist(q') /\ flusher' = "next"
          /\ UNCHANGED <<up, sender, handed, sendMu>> /\ flusher = "reset" /\ up
      BY <2>11 DEF FlushReset
    <3>2. q'.entries = q.entries /\ q'.nextSeq = q.nextSeq
      BY <3>1 DEF ResetDropped, QueueState, TypeOK
    <3>3. LockInv' /\ Top' = Top
      BY <2>a, <3>1, <3>2 DEF LockInv, Top
    <3>4. QueueInv'
      BY <2>a, <3>2, <3>3 DEF QueueInv
    <3>5. FileInv'
      BY <2>a, <3>1, <3>3, <3>4, FileKept DEF Persist
    <3>6. FrontInv'
      BY <3>1 DEF FrontInv
    <3> QED
      BY <3>3, <3>4, <3>5, <3>6 DEF Shape
  <2>12. CASE FlushFront
    <3>1. CASE q.entries = <<>>
      <4>1. flusher' = "idle" /\ LockInv' /\ q' = q /\ file' = file /\ Top' = Top
        BY <2>12, <2>a, <3>1 DEF FlushFront, FlushReturn, LockInv, Top, TypeOK
      <4> QED
        BY <2>a, <4>1, Frame DEF Shape
    <3>2. CASE q.entries # <<>>
      <4>1. /\ LockInv' /\ q' = q /\ file' = file /\ Top' = Top
            /\ front' = [id |-> Head(q.entries).seq, event |-> Head(q.entries).event]
        BY <2>12, <2>a, <3>2 DEF FlushFront, LockInv, Top, TypeOK
      <4>2. QueueInv' /\ FileInv'
        BY <2>a, <4>1 DEF QueueInv, FileInv
      <4>3. 1 \in 1..Len(q.entries) /\ Head(q.entries) = q.entries[1]
        BY <2>b, <3>2
      <4>4. /\ front'.id = q.entries[1].seq /\ front'.event = q.entries[1].event
            /\ front'.event \in 1..Top /\ front'.id \in 1..q.nextSeq
        BY <2>a, <4>1, <4>3 DEF QueueInv
      <4>5. ASSUME NEW i \in 1..Len(q.entries)
            PROVE  /\ q.entries[i].event >= front'.event
                   /\ q.entries[i].seq = front'.id <=> q.entries[i].event = front'.event
        <5>1. CASE i = 1
          BY <2>a, <4>4, <5>1 DEF QueueInv
        <5>2. CASE 1 < i
          <6>1. /\ q.entries[1].event < q.entries[i].event
                /\ q.entries[1].seq < q.entries[i].seq
            BY <2>a, <4>3, <5>2 DEF QueueInv
          <6>2. /\ q.entries[1].event \in Nat /\ q.entries[i].event \in Nat
                /\ q.entries[1].seq \in Nat /\ q.entries[i].seq \in Nat
            BY <2>b, <4>3, EntryType DEF TypeOK
          <6> QED
            BY <4>4, <6>1, <6>2
        <5> QED
          BY <2>b, <5>1, <5>2
      <4>6. FrontInv'
        BY <4>1, <4>4, <4>5 DEF FrontInv
      <4> QED
        BY <4>1, <4>2, <4>6 DEF Shape
    <3> QED
      BY <3>1, <3>2
  <2>14. CASE FlushRemove
    <3>1. /\ q' = Remove(q, front.id) /\ flusher' = "next"
          /\ UNCHANGED <<up, sender, handed, sendMu>> /\ flusher = "remove" /\ up
          /\ file' = Image(q') \/ file' = file
      BY <2>14 DEF FlushRemove, Persist
    <3>2. Top' = Top
      BY <3>1 DEF Top
    <3>3. QueueInv' /\ (q.entries = <<>> => q'.entries = <<>>)
      <4>1. CASE q' = q
        BY <2>a, <3>2, <4>1 DEF QueueInv
      <4>2. CASE \E k \in 1..Len(q.entries) :
                   /\ Len(q'.entries) = Len(q.entries) - 1
                   /\ \A i \in 1..(Len(q.entries) - 1) :
                        q'.entries[i] = q.entries[IF i < k THEN i ELSE i + 1]
                   /\ q'.nextSeq = q.nextSeq
        <5>1. PICK k \in 1..Len(q.entries) :
                   /\ Len(q'.entries) = Len(q.entries) - 1
                   /\ \A i \in 1..(Len(q.entries) - 1) :
                        q'.entries[i] = q.entries[IF i < k THEN i ELSE i + 1]
                   /\ q'.nextSeq = q.nextSeq
          BY <4>2
        <5> DEFINE at(i) == IF i < k THEN i ELSE i + 1
        <5>2. \A i \in 1..(Len(q.entries) - 1) :
                 at(i) \in 1..Len(q.entries) /\ q'.entries[i] = q.entries[at(i)]
          BY <2>b, <5>1
        <5>3. \A i, j \in 1..(Len(q.entries) - 1) : i < j => at(i) < at(j)
          BY <2>b, <5>1
        <5> HIDE DEF at
        <5>4. QueueInv'
          <6> SUFFICES ASSUME NEW i \in 1..Len(q'.entries)
                       PROVE  /\ q'.entries[i].event \in 1..Top
                              /\ q'.entries[i].seq \in 1..q.nextSeq
                              /\ \A j \in 1..Len(q'.entries) :
                                   i < j => /\ q'.entries[i].event < q'.entries[j].event
                                            /\ q'.entries[i].seq < q'.entries[j].seq
            BY <3>2, <5>1 DEF QueueInv
          <6>1. /\ i \in 1..(Len(q.entries) - 1)
                /\ at(i) \in 1..Len(q.entries) /\ q'.entries[i] = q.entries[at(i)]
            BY <5>1, <5>2
          <6>2. ASSUME NEW j \in 1..Len(q'.entries), i < j
                PROVE  /\ q'.entries[i].event < q'.entries[j].event
                       /\ q'.entries[i].seq < q'.entries[j].seq
            <7>1. /\ j \in 1..(Len(q.entries) - 1)
                  /\ at(j) \in 1..Len(q.entries) /\ q'.entries[j] = q.entries[at(j)]
              BY <5>1, <5>2
            <7>2. at(i) < at(j)
              BY <5>3, <6>1, <6>2, <7>1
            <7> QED
              BY <2>a, <6>1, <7>1, <7>2 DEF QueueInv
          <6> QED
            BY <2>a, <6>1, <6>2 DEF QueueInv
        <5> QED
          BY <5>4, <5>1
      <4> QED
        <5>1. q \in QueueState
          BY DEF TypeOK
        <5>2. \/ Remove(q, front.id) = q
              \/ \E k \in 1..Len(q.entries) :
                   /\ Len(Remove(q, front.id).entries) = Len(q.entries) - 1
                   /\ \A i \in 1..(Len(q.entries) - 1) :
                        Remove(q, front.id).entries[i]
                          = q.entries[IF i < k THEN i ELSE i + 1]
                   /\ Remove(q, front.id).nextSeq = q.nextSeq
          BY <5>1, RemoveEffect
        <5>3. q' = Remove(q, front.id)
          BY <3>1
        <5> QED
          BY <4>1, <4>2, <5>2, <5>3
    <3>4. LockInv'
      BY <2>a, <3>1, <3>3 DEF LockInv
    <3>5. FileInv'
      BY <2>a, <3>1, <3>2, <3>3, FileKept
    <3>6. FrontInv'
      BY <3>1 DEF FrontInv
    <3> QED
      BY <3>3, <3>4, <3>5, <3>6 DEF Shape
  <2>15. CASE Crash
    <3>1. /\ q'.entries = <<>> /\ file' = file /\ Top' = handed /\ handed \in Nat
          /\ Top <= handed
      BY <2>15 DEF Crash, NewQueue, Top, TypeOK
    <3>2. LockInv'
      BY <2>15 DEF Crash, LockInv
    <3>3. QueueInv'
      BY <3>1 DEF QueueInv
    <3>4. FileInv'
      BY <2>a, <3>1, <3>3, FileKept
    <3>5. FrontInv'
      BY <2>15 DEF Crash, FrontInv
    <3> QED
      BY <3>2, <3>3, <3>4, <3>5 DEF Shape
  <2>16. CASE Restart
    <3>1. /\ q' = Open(file) \/ q' = NewQueue
          /\ UNCHANGED <<file, sendMu, sender, flusher, front, handed>>
      BY <2>16 DEF Restart
    <3>2. Top' = Top
      BY <3>1 DEF Top
    <3>3. QueueInv'
      <4>1. CASE q' = NewQueue
        BY <4>1 DEF QueueInv, NewQueue
      <4>2. CASE q' = Open(file)
        <5>1. /\ Len(q'.entries) = Len(file.events)
              /\ \A i \in 1..Len(file.events) :
                   q'.entries[i] = [seq |-> i, event |-> file.events[i]]
              /\ q'.nextSeq = Len(file.events)
          BY <4>2, OpenEffect DEF TypeOK, Capacity
        <5>2. q'.entries \in Seq(Entry)
          BY EntryType DEF TypeOK
        <5>3. Len(file.events) \in Nat
          BY <5>1, <5>2
        <5>4. \A i \in 1..Len(file.events) :
                /\ q'.entries[i].seq = i
                /\ q'.entries[i].event = file.events[i]
                /\ file.events[i] \in 1..Top'
          <6>1. \A i \in 1..Len(file.events) : file.events[i] \in 1..Top'
            BY <2>a, <3>2 DEF FileInv
          <6>2. ASSUME NEW i \in 1..Len(file.events)
                PROVE  q'.entries[i].seq = i /\ q'.entries[i].event = file.events[i]
            <7>1. q'.entries[i] = [seq |-> i, event |-> file.events[i]]
              BY <5>1
            <7> QED
              BY <7>1
          <6> QED
            BY <6>1, <6>2
        <5>5. \A i, j \in 1..Len(file.events) : i < j => file.events[i] < file.events[j]
          BY <2>a DEF FileInv
        <5> QED
          BY <5>1, <5>3, <5>4, <5>5 DEF QueueInv
      <4> QED
        BY <3>1, <4>1, <4>2
    <3>4. ~up /\ up'
      BY <2>16 DEF Restart
    <3>5. LockInv'
      BY <2>a, <3>1, <3>4 DEF LockInv
    <3>6. FileInv'
      BY <2>a, <3>1, <3>2, <3>3, FileKept
    <3>7. FrontInv'
      BY <2>a, <3>1, <3>4 DEF FrontInv, LockInv
    <3> QED
      BY <3>3, <3>5, <3>6, <3>7 DEF Shape
  <2>17. CASE UNCHANGED vars
    <3>1. LockInv' /\ q' = q /\ file' = file /\ Top' = Top /\ UNCHANGED <<flusher, front>>
      BY <2>17, <2>a DEF vars, LockInv, Top
    <3> QED
      BY <2>a, <3>1, Frame DEF Shape
  <2> QED
    BY <2>1, <2>2, <2>3, <2>4, <2>5, <2>6, <2>7, <2>8, <2>9, <2>10, <2>11, <2>12,
       <2>13, <2>14, <2>15, <2>16, <2>17 DEF Next, SenderStep, FlusherStep
<1> QED
  BY <1>1, <1>2, TypeCorrect, PTL DEF Spec

\* Remove takes the entry the flusher has sent, or none (FrontStaysInFront).
THEOREM FrontTheorem == Spec => []FrontStaysInFront
<1>1. TypeOK /\ Shape => FrontStaysInFront
  <2> SUFFICES ASSUME TypeOK, Shape, flusher \in {"sending", "remove"},
                      NEW i \in 1..Len(q.entries)
               PROVE  /\ q.entries[i].event >= front.event
                      /\ q.entries[i].seq = front.id <=> q.entries[i].event = front.event
                      /\ q.entries[i].seq = front.id => i = 1
    BY EntryType DEF TypeOK, FrontStaysInFront
  <2>1. /\ q.entries[i].event >= front.event /\ q.entries[1].event >= front.event
        /\ q.entries[i].seq = front.id <=> q.entries[i].event = front.event
        /\ Len(q.entries) \in Nat /\ 1 \in 1..Len(q.entries)
    BY EntryType DEF TypeOK, Shape, FrontInv
  <2>2. /\ 1 < i => q.entries[1].event < q.entries[i].event
        /\ q.entries[1].event \in Int /\ q.entries[i].event \in Int
        /\ front.event \in Int
    BY <2>1, EntryType DEF TypeOK, Shape, QueueInv
  <2> QED
    BY <2>1, <2>2
<1> QED
  BY <1>1, TypeCorrect, ShapeInvariant, PTL

\* Faults are only ever counted up.
LEMMA FaultsGrow ==
  ASSUME TypeOK, [Next]_vars, NEW k \in FaultKinds
  PROVE  faults'[k] \in Nat /\ faults[k] \in Nat /\ faults[k] <= faults'[k]
<1>1. ASSUME NEW j \in FaultKinds, Fault(j)
      PROVE  faults'[k] \in Nat /\ faults[k] \in Nat /\ faults[k] <= faults'[k]
  BY <1>1 DEF Fault, TypeOK
<1>2. ASSUME UNCHANGED faults
      PROVE  faults'[k] \in Nat /\ faults[k] \in Nat /\ faults[k] <= faults'[k]
  BY <1>2 DEF TypeOK
<1>3. \A r : Persist(r) => Fault("disk") \/ UNCHANGED faults
  BY DEF Persist
<1>4. \A o \in Outcomes : Answered(o) => UNCHANGED faults \/ \E j \in FaultKinds : Fault(j)
  BY DEF Answered, Outcomes, FaultKinds
<1>5. UNCHANGED faults \/ \E j \in FaultKinds : Fault(j)
  <2>1. "disk" \in FaultKinds /\ "crash" \in FaultKinds
    BY DEF FaultKinds
  <2>2. CASE SendCheck \/ SendLock \/ SendRecheck \/ FlushCheckLen \/ FlushCheckDropped
    BY <2>2 DEF SendCheck, SendLock, SendRecheck, FlushCheckLen, FlushCheckDropped
  <2>3. CASE FlushLock \/ FlushReadDropped \/ FlushFront
    BY <2>3 DEF FlushLock, FlushReadDropped, FlushFront
  <2>4. CASE SendPush \/ FlushReset \/ FlushRemove
    BY <1>3, <2>1, <2>4 DEF SendPush, FlushReset, FlushRemove
  <2>5. ASSUME NEW o \in Outcomes, SendDirect(o) \/ FlushSummary(o) \/ FlushSend(o)
        PROVE  UNCHANGED faults \/ \E j \in FaultKinds : Fault(j)
    BY <1>4, <2>5 DEF SendDirect, FlushSummary, FlushSend
  <2>6. CASE Crash \/ Restart
    BY <2>1, <2>6 DEF Crash, Restart
  <2>7. CASE UNCHANGED vars
    BY <2>7 DEF vars
  <2> QED
    BY <2>2, <2>3, <2>4, <2>5, <2>6, <2>7 DEF Next, SenderStep, FlusherStep
<1> QED
  BY <1>1, <1>2, <1>5

-----------------------------------------------------------------------------
(***************************************************************************)
(* Order, and what becomes of every alert.                                 *)
(***************************************************************************)

\* The file is up to date as long as every write succeeded.
Saved == up => file = Image(q)

\* First deliveries to come are newer than those that were.
IsNewer(e) == e \in delivered \/ \A d \in delivered : d < e

OrderInv ==
  faults["disk"] = 0 =>
    /\ Saved
    /\ delivered \subseteq 1..handed
    /\ sender \in {"wait", "recheck", "sending"} => delivered \subseteq 1..Top
    /\ \A i \in 1..Len(file.events) : IsNewer(file.events[i])
    /\ flusher = "sending" => IsNewer(front.event)

-----------------------------------------------------------------------------
\* A step that leaves memory and file alone and delivers nothing keeps the order.
LEMMA OrderFrame ==
  ASSUME TypeOK, TypeOK', LockInv, OrderInv, q' = q, file' = file, up' = up,
         delivered' = delivered,
         faults["disk"] \in Nat, faults'["disk"] \in Nat, faults["disk"] <= faults'["disk"],
         \/ handed' = handed /\ (sender' \in {"wait", "recheck", "sending"}
                                   => sender \in {"wait", "recheck", "sending"})
         \/ sender = "idle" /\ handed' = handed + 1,
         flusher' = "sending" => flusher = "sending" /\ front' = front
  PROVE  OrderInv'
<1> SUFFICES ASSUME faults'["disk"] = 0
             PROVE  /\ Saved'
                    /\ delivered \subseteq 1..handed'
                    /\ sender' \in {"wait", "recheck", "sending"} => delivered \subseteq 1..Top'
                    /\ \A i \in 1..Len(file.events) : IsNewer(file.events[i])
                    /\ flusher' = "sending" => IsNewer(front'.event)
  BY DEF OrderInv, IsNewer
<1>1. /\ Saved /\ delivered \subseteq 1..handed
      /\ sender \in {"wait", "recheck", "sending"} => delivered \subseteq 1..Top
      /\ \A i \in 1..Len(file.events) : IsNewer(file.events[i])
      /\ flusher = "sending" => IsNewer(front.event)
  BY DEF OrderInv
<1>2. Saved'
  BY <1>1 DEF Saved
<1>3. delivered \subseteq 1..handed' /\ handed \in Nat /\ handed' \in Nat
  BY <1>1 DEF TypeOK
<1>4. sender' \in {"wait", "recheck", "sending"} => delivered \subseteq 1..Top'
  <2> SUFFICES ASSUME sender' \in {"wait", "recheck", "sending"}
               PROVE  delivered \subseteq 1..Top'
    OBVIOUS
  <2>1. CASE sender \in {"wait", "recheck", "sending"} /\ handed' = handed
    <3>1. Top' = Top
      BY <2>1 DEF Top
    <3> QED
      BY <1>1, <2>1, <3>1
  <2>2. CASE sender = "idle" /\ handed' = handed + 1
    <3>1. Top' = handed
      BY <1>3, <2>2 DEF Top
    <3> QED
      BY <1>1, <3>1
  <2> QED
    BY <2>1, <2>2
<1> QED
  BY <1>1, <1>2, <1>3, <1>4

\* The file after a write in which nothing failed.
LEMMA SavedEvents ==
  ASSUME TypeOK, file = Image(q)
  PROVE  /\ Len(file.events) = Len(q.entries)
         /\ \A i \in 1..Len(q.entries) : file.events[i] = q.entries[i].event
         /\ Events(q) = {file.events[i] : i \in 1..Len(file.events)}
<1>1. /\ Len(file.events) = Len(q.entries)
      /\ \A i \in 1..Len(q.entries) : file.events[i] = q.entries[i].event
  BY ImageEffect DEF TypeOK
<1>2. DOMAIN q.entries = 1..Len(q.entries)
  BY EntryType DEF TypeOK
<1> QED
  BY <1>1, <1>2 DEF Events

\* A step that writes the file and delivers nothing keeps the order when what
\* it writes was there before or is the newest alert.
LEMMA OrderWrite ==
  ASSUME TypeOK, TypeOK', OrderInv, Persist(q'), up, up' = up,
         delivered' = delivered, handed' = handed,
         faults["disk"] \in Nat, faults'["disk"] \in Nat, faults["disk"] <= faults'["disk"],
         sender' = sender \/ sender' = "idle",
         flusher' = "sending" => flusher = "sending" /\ front' = front,
         Events(q') \subseteq Events(q) \union {handed}
  PROVE  OrderInv'
<1> SUFFICES ASSUME faults'["disk"] = 0
             PROVE  /\ Saved'
                    /\ delivered \subseteq 1..handed
                    /\ sender' \in {"wait", "recheck", "sending"} => delivered \subseteq 1..Top'
                    /\ \A i \in 1..Len(file'.events) : IsNewer(file'.events[i])
                    /\ flusher' = "sending" => IsNewer(front'.event)
  BY DEF OrderInv, IsNewer
<1>1. /\ Saved /\ delivered \subseteq 1..handed
      /\ sender \in {"wait", "recheck", "sending"} => delivered \subseteq 1..Top
      /\ \A i \in 1..Len(file.events) : IsNewer(file.events[i])
      /\ flusher = "sending" => IsNewer(front.event)
  BY DEF OrderInv
<1>2. file' = Image(q')
  <2>1. "disk" \in FaultKinds
    BY DEF FaultKinds
  <2>2. ~Fault("disk")
    BY <2>1 DEF Fault, TypeOK
  <2> QED
    BY <2>2 DEF Persist
<1>3. Events(q') = {file'.events[i] : i \in 1..Len(file'.events)}
  <2>1. /\ Len(file'.events) = Len(q'.entries)
        /\ \A i \in 1..Len(q'.entries) : file'.events[i] = q'.entries[i].event
    BY <1>2, ImageEffect DEF TypeOK
  <2>2. DOMAIN q'.entries = 1..Len(q'.entries)
    BY EntryType DEF TypeOK
  <2> QED
    BY <2>1, <2>2 DEF Events
<1>4. Events(q) = {file.events[i] : i \in 1..Len(file.events)}
  BY <1>1, SavedEvents DEF Saved
<1>5. IsNewer(handed)
  BY <1>1 DEF IsNewer, TypeOK
<1>6. \A e \in Events(q') : IsNewer(e)
  BY <1>1, <1>4, <1>5
<1>7. \A i \in 1..Len(file'.events) : IsNewer(file'.events[i])
  BY <1>3, <1>6
<1>8. Saved' /\ (sender' \in {"wait", "recheck", "sending"} => Top' = Top /\ sender' = sender)
  BY <1>2 DEF Saved, Top
<1> QED
  BY <1>1, <1>7, <1>8

\* The order invariant holds throughout.
LEMMA OrderStep ==
  ASSUME TypeOK, Capacity, Shape, TypeOK', Capacity', Shape', OrderInv, [Next]_vars
  PROVE  OrderInv'
<1> USE DEF historyVars, threadVars, queueVars
<1>a. LockInv /\ QueueInv /\ FileInv /\ FrontInv
  BY DEF Shape
<1>b. faults["disk"] \in Nat /\ faults'["disk"] \in Nat /\ faults["disk"] <= faults'["disk"]
  BY FaultsGrow DEF FaultKinds
<1>1. CASE SendCheck
  <2>1. q' = q /\ file' = file /\ up' = up /\ delivered' = delivered
    BY <1>1 DEF SendCheck
  <2>2. \/ handed' = handed /\ (sender' \in {"wait", "recheck", "sending"}
                                   => sender \in {"wait", "recheck", "sending"})
        \/ sender = "idle" /\ handed' = handed + 1
    BY <1>1 DEF SendCheck
  <2>3. flusher' = "sending" => flusher = "sending" /\ front' = front
    BY <1>1 DEF SendCheck
  <2> QED
    BY <1>a, <1>b, <2>1, <2>2, <2>3, OrderFrame
<1>2. CASE SendLock
  <2>1. q' = q /\ file' = file /\ up' = up /\ delivered' = delivered
    BY <1>2 DEF SendLock
  <2>2. \/ handed' = handed /\ (sender' \in {"wait", "recheck", "sending"}
                                   => sender \in {"wait", "recheck", "sending"})
        \/ sender = "idle" /\ handed' = handed + 1
    BY <1>2 DEF SendLock
  <2>3. flusher' = "sending" => flusher = "sending" /\ front' = front
    BY <1>2 DEF SendLock
  <2> QED
    BY <1>a, <1>b, <2>1, <2>2, <2>3, OrderFrame
<1>3. CASE SendRecheck
  <2>1. q' = q /\ file' = file /\ up' = up /\ delivered' = delivered
    BY <1>3 DEF SendRecheck
  <2>2. \/ handed' = handed /\ (sender' \in {"wait", "recheck", "sending"}
                                   => sender \in {"wait", "recheck", "sending"})
        \/ sender = "idle" /\ handed' = handed + 1
    BY <1>3 DEF SendRecheck
  <2>3. flusher' = "sending" => flusher = "sending" /\ front' = front
    BY <1>3 DEF SendRecheck
  <2> QED
    BY <1>a, <1>b, <2>1, <2>2, <2>3, OrderFrame
<1>6. CASE FlushCheckLen
  <2>1. q' = q /\ file' = file /\ up' = up /\ delivered' = delivered
    BY <1>6 DEF FlushCheckLen
  <2>2. \/ handed' = handed /\ (sender' \in {"wait", "recheck", "sending"}
                                   => sender \in {"wait", "recheck", "sending"})
        \/ sender = "idle" /\ handed' = handed + 1
    BY <1>6 DEF FlushCheckLen
  <2>3. flusher' = "sending" => flusher = "sending" /\ front' = front
    BY <1>6 DEF FlushCheckLen
  <2> QED
    BY <1>a, <1>b, <2>1, <2>2, <2>3, OrderFrame
<1>7. CASE FlushCheckDropped
  <2>1. q' = q /\ file' = file /\ up' = up /\ delivered' = delivered
    BY <1>7 DEF FlushCheckDropped
  <2>2. \/ handed' = handed /\ (sender' \in {"wait", "recheck", "sending"}
                                   => sender \in {"wait", "recheck", "sending"})
        \/ sender = "idle" /\ handed' = handed + 1
    BY <1>7 DEF FlushCheckDropped
  <2>3. flusher' = "sending" => flusher = "sending" /\ front' = front
    BY <1>7 DEF FlushCheckDropped
  <2> QED
    BY <1>a, <1>b, <2>1, <2>2, <2>3, OrderFrame
<1>8. CASE FlushLock
  <2>1. q' = q /\ file' = file /\ up' = up /\ delivered' = delivered
    BY <1>8 DEF FlushLock
  <2>2. \/ handed' = handed /\ (sender' \in {"wait", "recheck", "sending"}
                                   => sender \in {"wait", "recheck", "sending"})
        \/ sender = "idle" /\ handed' = handed + 1
    BY <1>8 DEF FlushLock
  <2>3. flusher' = "sending" => flusher = "sending" /\ front' = front
    BY <1>8 DEF FlushLock
  <2> QED
    BY <1>a, <1>b, <2>1, <2>2, <2>3, OrderFrame
<1>9. CASE FlushReadDropped
  <2>1. q' = q /\ file' = file /\ up' = up /\ delivered' = delivered
    BY <1>9 DEF FlushReadDropped
  <2>2. \/ handed' = handed /\ (sender' \in {"wait", "recheck", "sending"}
                                   => sender \in {"wait", "recheck", "sending"})
        \/ sender = "idle" /\ handed' = handed + 1
    BY <1>9 DEF FlushReadDropped
  <2>3. flusher' = "sending" => flusher = "sending" /\ front' = front
    BY <1>9 DEF FlushReadDropped
  <2> QED
    BY <1>a, <1>b, <2>1, <2>2, <2>3, OrderFrame
<1>4. ASSUME NEW o \in Outcomes, SendDirect(o)
      PROVE  OrderInv'
  <2>1. /\ q' = q /\ file' = file /\ up' = up /\ handed' = handed /\ up
        /\ sender = "sending" /\ sender' \in {"push", "idle"}
        /\ delivered' \subseteq delivered \union {handed}
        /\ UNCHANGED <<flusher, front>>
    BY <1>4 DEF SendDirect, Deliver
  <2> SUFFICES ASSUME faults'["disk"] = 0
               PROVE  /\ Saved' /\ delivered' \subseteq 1..handed
                      /\ Len(file.events) = 0 /\ flusher # "sending"
    BY <2>1 DEF OrderInv
  <2>2. /\ Saved /\ delivered \subseteq 1..Top
    BY <1>b, <2>1 DEF OrderInv
  <2>3. Saved'
    BY <2>1, <2>2 DEF Saved
  <2>4. handed \in Nat /\ handed > 0 /\ Top = handed - 1
    BY <1>a, <2>1 DEF LockInv, Top, TypeOK
  <2>5. delivered' \subseteq 1..handed
    BY <2>1, <2>2, <2>4
  <2>6. Len(file.events) = 0
    <3>1. file = Image(q) /\ q.entries = <<>>
      BY <1>a, <2>1, <2>2 DEF Saved, LockInv
    <3> QED
      BY <3>1, SavedEvents
  <2>7. flusher # "sending"
    BY <1>a, <2>1 DEF LockInv
  <2> QED
    BY <2>3, <2>5, <2>6, <2>7
<1>5. CASE SendPush
  <2>1. /\ q' = Push(q, handed) /\ Persist(q') /\ up /\ up' = up /\ sender' = "idle"
        /\ delivered' = delivered /\ handed' = handed
        /\ UNCHANGED <<flusher, front>>
    BY <1>5 DEF SendPush
  <2>2. Events(q') \subseteq Events(q) \union {handed}
    BY <2>1, PushEvents DEF TypeOK, Capacity
  <2> QED
    BY <1>b, <2>1, <2>2, OrderWrite
<1>10. ASSUME NEW o \in Outcomes, FlushSummary(o)
       PROVE  OrderInv'
  <2>1. q' = q /\ file' = file /\ up' = up /\ delivered' = delivered
        /\ handed' = handed /\ sender' = sender /\ flusher' # "sending"
    BY <1>10 DEF FlushSummary, FlushReturn
  <2> QED
    BY <1>a, <1>b, <2>1, OrderFrame
<1>11. CASE FlushReset
  <2>1. /\ q' = ResetDropped(q) /\ Persist(q') /\ up /\ up' = up /\ sender' = sender
        /\ delivered' = delivered /\ handed' = handed /\ flusher' = "next"
    BY <1>11 DEF FlushReset
  <2>2. q'.entries = q.entries
    BY <2>1 DEF ResetDropped, QueueState, TypeOK
  <2>3. Events(q') \subseteq Events(q) \union {handed}
    BY <2>2 DEF Events
  <2> QED
    BY <1>b, <2>1, <2>3, OrderWrite
<1>12. CASE FlushFront
  <2>1. /\ q' = q /\ file' = file /\ up' = up /\ up /\ delivered' = delivered
        /\ handed' = handed /\ sender' = sender
    BY <1>12 DEF FlushFront
  <2>2. CASE q.entries = <<>>
    <3>1. flusher' # "sending"
      BY <1>12, <2>2 DEF FlushFront, FlushReturn
    <3> QED
      BY <1>a, <1>b, <2>1, <3>1, OrderFrame
  <2>3. CASE q.entries # <<>>
    <3>1. /\ front'.event = q.entries[1].event /\ 1 \in 1..Len(q.entries)
      <4>1. q.entries \in Seq(Entry)
        BY EntryType DEF TypeOK
      <4> QED
        BY <1>12, <2>3, <4>1 DEF FlushFront
    <3> SUFFICES ASSUME faults'["disk"] = 0
                 PROVE  /\ Saved' /\ delivered' \subseteq 1..handed
                        /\ sender' \in {"wait", "recheck", "sending"}
                             => delivered' \subseteq 1..Top'
                        /\ \A i \in 1..Len(file'.events) : IsNewer(file'.events[i])
                        /\ IsNewer(front'.event)
      BY <2>1 DEF OrderInv, IsNewer
    <3>2. /\ Saved /\ delivered \subseteq 1..handed
          /\ sender \in {"wait", "recheck", "sending"} => delivered \subseteq 1..Top
          /\ \A i \in 1..Len(file.events) : IsNewer(file.events[i])
      BY <1>b DEF OrderInv
    <3>3. file = Image(q) /\ Saved' /\ Top' = Top
      BY <2>1, <3>2 DEF Saved, Top
    <3>4. front'.event = file.events[1] /\ 1 \in 1..Len(file.events)
      BY <3>1, <3>3, SavedEvents
    <3> QED
      BY <2>1, <3>2, <3>3, <3>4
  <2> QED
    BY <2>2, <2>3
<1>13. ASSUME NEW o \in Outcomes, FlushSend(o)
       PROVE  OrderInv'
  <2>1. /\ q' = q /\ file' = file /\ up' = up /\ up /\ handed' = handed
        /\ sender' = sender /\ flusher = "sending" /\ flusher' # "sending"
        /\ delivered' = delivered \/ delivered' = delivered \union {front.event}
    BY <1>13 DEF FlushSend, FlushReturn, Deliver
  <2>2. CASE delivered' = delivered
    BY <1>a, <1>b, <2>1, <2>2, OrderFrame
  <2>3. CASE delivered' = delivered \union {front.event}
    <3> DEFINE e == front.event
    <3> SUFFICES ASSUME faults'["disk"] = 0
                 PROVE  /\ Saved' /\ delivered' \subseteq 1..handed
                        /\ sender' \in {"wait", "recheck", "sending"}
                             => delivered' \subseteq 1..Top'
                        /\ \A i \in 1..Len(file.events) :
                             \/ file.events[i] \in delivered'
                             \/ \A d \in delivered' : d < file.events[i]
      BY <2>1 DEF OrderInv, IsNewer
    <3>1. /\ Saved /\ delivered \subseteq 1..handed
          /\ sender \in {"wait", "recheck", "sending"} => delivered \subseteq 1..Top
          /\ \A i \in 1..Len(file.events) : IsNewer(file.events[i])
          /\ IsNewer(e)
      BY <1>b, <2>1 DEF OrderInv
    <3>2. file = Image(q) /\ Saved' /\ Top' = Top
      BY <2>1, <3>1 DEF Saved, Top
    <3>3. e \in 1..Top /\ Top \in Nat /\ Top <= handed /\ handed \in Nat
      BY <1>a, <2>1, TopType DEF FrontInv, Top, TypeOK
    <3>4. \A i \in 1..Len(file.events) : file.events[i] >= e /\ file.events[i] \in Nat
      <4>1. \A i \in 1..Len(q.entries) : q.entries[i].event >= e /\ q.entries[i].event \in Nat
        BY <1>a, <2>1, EntryType DEF FrontInv, TypeOK
      <4> QED
        BY <3>2, <4>1, SavedEvents
    <3>5. ASSUME NEW i \in 1..Len(file.events)
          PROVE  \/ file.events[i] \in delivered'
                 \/ \A d \in delivered' : d < file.events[i]
      <4> DEFINE x == file.events[i]
      <4>1. IsNewer(x) /\ x >= e /\ x \in Nat /\ e \in Nat
        BY <3>1, <3>3, <3>4
      <4>2. CASE x = e \/ x \in delivered
        BY <2>3, <4>2
      <4>3. CASE x # e /\ x \notin delivered
        <5>1. e < x /\ \A d \in delivered : d < x
          BY <4>1, <4>3 DEF IsNewer
        <5> HIDE DEF x, e
        <5> QED
          BY <2>3, <5>1 DEF e, x
      <4> QED
        BY <4>2, <4>3
    <3>6. delivered' \subseteq 1..handed
      <4>1. e \in 1..handed
        BY <3>3
      <4> QED
        BY <2>3, <3>1, <4>1
    <3>7. sender' \in {"wait", "recheck", "sending"} => delivered' \subseteq 1..Top'
      BY <2>1, <2>3, <3>1, <3>2, <3>3
    <3> QED
      BY <3>2, <3>5, <3>6, <3>7
  <2> QED
    BY <2>1, <2>2, <2>3
<1>14. CASE FlushRemove
  <2>1. /\ q' = Remove(q, front.id) /\ up /\ up' = up /\ sender' = sender
        /\ delivered' = delivered /\ handed' = handed /\ flusher' = "next"
        /\ flusher = "remove"
        /\ Persist(q') \/ (q' = q /\ file' = file)
    BY <1>14 DEF FlushRemove
  <2>2. CASE q' = q /\ file' = file
    BY <1>a, <1>b, <2>1, <2>2, OrderFrame
  <2>3. CASE Persist(q')
    <3>1. \A i \in 1..Len(q.entries) :
             q.entries[i].seq = front.id => q.entries[i].event = front.event
      BY <1>a, <2>1 DEF FrontInv
    <3>2. q \in QueueState
      BY DEF TypeOK
    <3>3. Events(q') \subseteq Events(q)
      BY <2>1, <3>1, <3>2, RemoveEvents
    <3> QED
      BY <1>b, <2>1, <2>3, <3>3, OrderWrite
  <2> QED
    BY <2>1, <2>2, <2>3
<1>15. CASE Crash
  <2>1. /\ file' = file /\ ~up' /\ sender' = "idle" /\ flusher' = "idle"
        /\ delivered' = delivered /\ handed' = handed
    BY <1>15 DEF Crash
  <2> QED
    BY <1>b, <2>1 DEF OrderInv, Saved, IsNewer
<1>16. CASE Restart
  <2>1. /\ file' = file /\ ~up /\ UNCHANGED <<sender, flusher, front, handed, delivered>>
        /\ q' = Open(file) \/ Fault("disk")
    BY <1>16 DEF Restart
  <2> SUFFICES ASSUME faults'["disk"] = 0
               PROVE  file = Image(q')
    BY <1>b, <2>1 DEF OrderInv, Saved, IsNewer, Top
  <2>2. q' = Open(file)
    BY <2>1 DEF Fault, FaultKinds, TypeOK
  <2>3. file = [dropped |-> file.dropped, events |-> file.events]
        /\ file.events \in Seq(Nat) /\ Len(file.events) \in Nat
    BY DEF TypeOK, FileState
  <2>4. /\ Len(q'.entries) = Len(file.events)
        /\ \A i \in 1..Len(file.events) :
              q'.entries[i] = [seq |-> i, event |-> file.events[i]]
        /\ q'.dropped = file.dropped
    BY <2>2, OpenEffect DEF TypeOK, Capacity
  <2>5. DOMAIN q'.entries = 1..Len(file.events)
    BY <2>4, EntryType DEF TypeOK
  <2>6. [i \in DOMAIN q'.entries |-> q'.entries[i].event] = file.events
    <3>1. \A i \in 1..Len(file.events) : q'.entries[i].event = file.events[i]
      <4> TAKE i \in 1..Len(file.events)
      <4>1. q'.entries[i] = [seq |-> i, event |-> file.events[i]]
        BY <2>4
      <4> QED
        BY <4>1
    <3>2. file.events = [i \in 1..Len(file.events) |-> file.events[i]]
      BY <2>3
    <3> QED
      BY <2>5, <3>1, <3>2
  <2> QED
    BY <2>3, <2>4, <2>6 DEF Image
<1>17. CASE UNCHANGED vars
  <2>1. /\ q' = q /\ file' = file /\ up' = up /\ delivered' = delivered
        /\ UNCHANGED <<handed, sender, flusher, front>>
    BY <1>17 DEF vars
  <2> QED
    BY <1>a, <1>b, <2>1, OrderFrame
<1> QED
  BY <1>1, <1>2, <1>3, <1>4, <1>5, <1>6, <1>7, <1>8, <1>9, <1>10, <1>11, <1>12,
     <1>13, <1>14, <1>15, <1>16, <1>17 DEF Next, SenderStep, FlusherStep

(* As long as the file could be written, nothing that can still be sent for   *)
(* the first time is older than what Telegram has taken (notifier.go, Send).  *)
THEOREM OrderInvariant == Spec => []OrderInv
<1>1. Init => OrderInv
  BY DEF Init, OrderInv, Saved, Image, NewQueue, NoFile
<1>2. /\ TypeOK /\ Capacity /\ Shape /\ (TypeOK /\ Capacity /\ Shape)' /\ OrderInv
      /\ [Next]_vars
      => OrderInv'
  BY OrderStep
<1> QED
  BY <1>1, <1>2, TypeCorrect, ShapeInvariant, PTL DEF Spec

\* First deliveries happen in the order in which the dispatcher handed the
\* alerts over (OrderKept): notifier.go, Send and Flush, share one queue and
\* one lock, and neither overtakes the other.
THEOREM OrderTheorem == Spec => OrderKept
<1> DEFINE Step == faults'["disk"] = 0 =>
                     \A e \in delivered' \ delivered : \A d \in delivered : d < e
<1>1. TypeOK /\ Shape /\ OrderInv /\ [Next]_vars => [Step]_vars
  <2> SUFFICES ASSUME TypeOK, Shape, OrderInv, [Next]_vars, faults'["disk"] = 0,
                      NEW e \in delivered' \ delivered, NEW d \in delivered
               PROVE  d < e
    OBVIOUS
  <2>1. faults["disk"] = 0
    <3>1. "disk" \in FaultKinds
      BY DEF FaultKinds
    <3> QED
      BY <3>1, FaultsGrow
  <2>2. CASE \E o \in Outcomes : SendDirect(o)
    <3>1. /\ sender = "sending" /\ e = handed
      BY <2>2 DEF SendDirect, Deliver
    <3>2. /\ delivered \subseteq 1..Top /\ Top = handed - 1 /\ handed \in Nat
      BY <2>1, <3>1 DEF OrderInv, Top, TypeOK
    <3> QED
      BY <3>1, <3>2
  <2>3. CASE \E o \in Outcomes : FlushSend(o)
    <3>1. /\ flusher = "sending" /\ e = front.event
      BY <2>3 DEF FlushSend, Deliver
    <3> QED
      BY <2>1, <3>1 DEF OrderInv, IsNewer
  <2>4. CASE UNCHANGED delivered
    BY <2>4
  <2>5. \/ \E o \in Outcomes : SendDirect(o)
        \/ \E o \in Outcomes : FlushSend(o)
        \/ UNCHANGED delivered
    BY DEF Next, SenderStep, FlusherStep, SendCheck, SendLock, SendRecheck, SendPush,
           FlushCheckLen, FlushCheckDropped, FlushLock, FlushReadDropped, FlushSummary,
           FlushReset, FlushFront, FlushRemove, Crash, Restart, vars, historyVars
  <2> QED
    BY <2>2, <2>3, <2>4, <2>5
<1> QED
  BY <1>1, TypeCorrect, ShapeInvariant, OrderInvariant, PTL DEF Spec, OrderKept
-----------------------------------------------------------------------------
(***************************************************************************)
(* No alert vanishes.                                                      *)
(***************************************************************************)

Settled == delivered \union rejected \union capped \union lost

\* What was handed over is settled or still there.
Accounted ==
  faults["disk"] = 0 \/ faults["crash"] = 0 => 1..handed \subseteq Settled \union Unsettled

\* Between Front and Remove (notifier.go, Flush) the alert in the flusher's hands
\* is still in the queue or has been capped; it is removed only once it is settled.
InHand ==
  /\ flusher = "sending" => front.event \in Events(q) \union capped
  /\ flusher = "remove" => front.event \in delivered \union rejected

\* At most one alert is lost with the process, and there is none without an end.
LossInv ==
  /\ faults["crash"] = 0 => up
  /\ IsFiniteSet(lost) /\ Cardinality(lost) <= faults["crash"]

Account == Accounted /\ InHand /\ LossInv
-----------------------------------------------------------------------------
\* A step in which the process does not end keeps the account when whatever was
\* unsettled is so still, or is settled.
LEMMA Steady ==
  ASSUME TypeOK, [Next]_vars, Account, lost' = lost,
         up' = up \/ up',
         Settled \subseteq Settled',
         faults'["disk"] = 0 \/ faults'["crash"] = 0
            => Unsettled \subseteq Settled' \union Unsettled',
         handed' = handed \/ (handed' = handed + 1 /\ handed' \in Unsettled'),
         InHand'
  PROVE  Account'
<1>1. /\ faults["disk"] \in Nat /\ faults'["disk"] \in Nat
      /\ faults["disk"] <= faults'["disk"]
      /\ faults["crash"] \in Nat /\ faults'["crash"] \in Nat
      /\ faults["crash"] <= faults'["crash"]
  BY FaultsGrow DEF FaultKinds
<1>2. Accounted'
  <2> SUFFICES ASSUME faults'["disk"] = 0 \/ faults'["crash"] = 0,
                      NEW n \in 1..handed'
               PROVE  n \in Settled' \union Unsettled'
    BY DEF Accounted
  <2>1. 1..handed \subseteq Settled \union Unsettled
    BY <1>1 DEF Account, Accounted
  <2>2. n \in 1..handed \/ n \in Unsettled'
    BY DEF TypeOK
  <2> QED
    BY <2>1, <2>2
<1>3. LossInv'
  <2>1. IsFiniteSet(lost) /\ Cardinality(lost) \in Nat
    BY FS_CardinalityType DEF Account, LossInv
  <2>2. Cardinality(lost) <= faults'["crash"]
    BY <1>1, <2>1 DEF Account, LossInv
  <2>3. faults'["crash"] = 0 => up'
    BY <1>1 DEF Account, LossInv
  <2> QED
    BY <2>1, <2>2, <2>3 DEF LossInv
<1> QED
  BY <1>2, <1>3 DEF Account

\* A step of a goroutine that only moves it on.
LEMMA Quiet ==
  ASSUME TypeOK, [Next]_vars, Account, q' = q, file' = file, up' = up, handed' = handed,
         delivered' = delivered, rejected' = rejected, capped' = capped, lost' = lost,
         sender # "idle" => sender' # "idle",
         flusher = "sending" <=> flusher' = "sending",
         flusher' = "remove" => flusher = "remove",
         flusher' \in {"sending", "remove"} => front' = front
  PROVE  Account'
<1>1. Settled' = Settled
  BY DEF Settled
<1>2. Queued' = Queued
  BY DEF Queued, Events
<1>3. InSend \subseteq InSend' /\ InFlight \subseteq InFlight'
  BY DEF InSend, InFlight
<1>4. Unsettled \subseteq Settled' \union Unsettled'
  BY <1>2, <1>3 DEF Unsettled
<1>5. InHand'
  BY DEF Account, InHand, Events
<1> QED
  BY <1>1, <1>4, <1>5, Steady

\* Nothing unsettled disappears in a step, and the account is kept.
LEMMA AccountStep ==
  ASSUME TypeOK, Capacity, Shape, OrderInv, TypeOK', Account, [Next]_vars
  PROVE  Account'
<1> USE DEF historyVars, threadVars, queueVars
<1>a. LockInv /\ FrontInv /\ InHand /\ LossInv
  BY DEF Shape, Account
<1>1. CASE SendCheck
  <2>1. /\ UNCHANGED <<q, file, up, flusher, front, delivered, rejected, capped, lost>>
        /\ up /\ sender = "idle" /\ sender' # "idle" /\ handed' = handed + 1
    BY <1>1 DEF SendCheck
  <2>2. Settled' = Settled /\ Queued' = Queued /\ InFlight' = InFlight /\ InSend = {}
        /\ InSend' = {handed'}
    BY <2>1 DEF Settled, Queued, InFlight, InSend, Events
  <2>3. Unsettled \subseteq Unsettled' /\ handed' \in Unsettled'
    BY <2>2 DEF Unsettled
  <2>4. InHand'
    BY <1>a, <2>1 DEF InHand, Events
  <2> QED
    BY <2>1, <2>2, <2>3, <2>4, Steady
<1>2. CASE SendLock
  BY <1>2, Quiet DEF SendLock
<1>3. CASE SendRecheck
  BY <1>3, Quiet DEF SendRecheck
<1>4. ASSUME NEW o \in Outcomes, SendDirect(o)
      PROVE  Account'
  <2>1. /\ UNCHANGED <<q, file, up, flusher, front, capped, lost, handed>> /\ up
        /\ delivered \subseteq delivered' /\ rejected \subseteq rejected'
        /\ \/ sender' = "push"
           \/ sender' = "idle" /\ handed \in delivered' \union rejected'
    BY <1>4 DEF SendDirect, Deliver, Retry, Taken, Outcomes
  <2>2. Settled \subseteq Settled'
    BY <2>1 DEF Settled
  <2>3. Queued' = Queued /\ InFlight' = InFlight /\ InSend \subseteq Settled' \union InSend'
    BY <2>1 DEF Queued, InFlight, InSend, Events, Settled
  <2>4. Unsettled \subseteq Settled' \union Unsettled'
    BY <2>3 DEF Unsettled
  <2>5. InHand'
    BY <1>a, <2>1 DEF InHand, Events
  <2> QED
    BY <2>1, <2>2, <2>4, <2>5, Steady
<1>5. CASE SendPush
  <2>1. /\ UNCHANGED <<up, flusher, front, handed, delivered, rejected, lost>> /\ up
        /\ q' = Push(q, handed)
        /\ capped' = capped \union ((Events(q) \union {handed}) \ Events(q'))
        /\ sender' = "idle"
    BY <1>5 DEF SendPush
  <2>2. Settled \subseteq Settled'
    BY <2>1 DEF Settled
  <2>3. /\ Events(q) \union {handed} \subseteq Events(q') \union capped'
        /\ Queued = Events(q) /\ Queued' = Events(q') /\ InFlight' = InFlight
        /\ InSend \subseteq {handed}
    BY <2>1 DEF Queued, InFlight, InSend
  <2>4. Unsettled \subseteq Settled' \union Unsettled'
    BY <2>3 DEF Unsettled, Settled
  <2>5. InHand'
    BY <1>a, <2>1, <2>3 DEF InHand
  <2> QED
    BY <2>1, <2>2, <2>4, <2>5, Steady
<1>6. CASE FlushCheckLen
  BY <1>6, Quiet DEF FlushCheckLen
<1>7. CASE FlushCheckDropped
  BY <1>7, Quiet DEF FlushCheckDropped
<1>8. CASE FlushLock
  BY <1>8, Quiet DEF FlushLock
<1>9. CASE FlushReadDropped
  BY <1>9, Quiet DEF FlushReadDropped
<1>10. ASSUME NEW o \in Outcomes, FlushSummary(o)
       PROVE  Account'
  BY <1>10, Quiet DEF FlushSummary, FlushReturn
<1>11. CASE FlushReset
  <2>1. /\ UNCHANGED <<up, handed, sender, delivered, rejected, capped, lost>> /\ up
        /\ q' = ResetDropped(q) /\ flusher = "reset" /\ flusher' = "next"
    BY <1>11 DEF FlushReset
  <2>2. Events(q') = Events(q)
    BY <2>1 DEF ResetDropped, QueueState, TypeOK, Events
  <2>3. Settled' = Settled /\ Queued' = Queued /\ InSend' = InSend /\ InFlight = {}
    BY <2>1, <2>2 DEF Settled, Queued, InSend, InFlight
  <2>4. Unsettled \subseteq Unsettled'
    BY <2>3 DEF Unsettled
  <2>5. InHand'
    BY <2>1 DEF InHand
  <2> QED
    BY <2>1, <2>3, <2>4, <2>5, Steady
<1>12. CASE FlushFront
  <2>1. UNCHANGED <<q, file, up, handed, sender, delivered, rejected, capped, lost>>
        /\ flusher = "next" /\ flusher' \in {"idle", "sending"} /\ up
    BY <1>12 DEF FlushFront, FlushReturn
  <2>2. Settled' = Settled /\ Queued' = Queued /\ InSend' = InSend /\ InFlight = {}
    BY <2>1 DEF Settled, Queued, InSend, InFlight, Events
  <2>3. Unsettled \subseteq Unsettled'
    BY <2>2 DEF Unsettled
  <2>4. InHand'
    <3>1. CASE q.entries = <<>>
      BY <1>12, <3>1 DEF FlushFront, FlushReturn, InHand
    <3>2. CASE q.entries # <<>>
      <4>1. front'.event = q.entries[1].event /\ 1 \in DOMAIN q.entries
        <5>1. q.entries \in Seq(Entry)
          BY EntryType DEF TypeOK
        <5> QED
          BY <1>12, <3>2, <5>1 DEF FlushFront
      <4>2. front'.event \in Events(q')
        BY <2>1, <4>1 DEF Events
      <4> QED
        BY <2>1, <4>2 DEF InHand
    <3> QED
      BY <3>1, <3>2
  <2> QED
    BY <2>1, <2>2, <2>3, <2>4, Steady
<1>13. ASSUME NEW o \in Outcomes, FlushSend(o)
       PROVE  Account'
  <2>1. /\ UNCHANGED <<q, file, up, handed, sender, capped, lost>> /\ up
        /\ delivered \subseteq delivered' /\ rejected \subseteq rejected'
        /\ flusher = "sending"
        /\ \/ flusher' = "idle"
           \/ /\ flusher' = "remove" /\ front' = front
              /\ front.event \in delivered' \union rejected'
    BY <1>13 DEF FlushSend, FlushReturn, Deliver, Retry, Taken, Outcomes
  <2>2. Settled \subseteq Settled'
    BY <2>1 DEF Settled
  <2>3. /\ Queued = Events(q) /\ Queued' = Queued /\ InSend' = InSend
        /\ InFlight = {front.event} /\ front.event \in Events(q) \union capped
    BY <1>a, <2>1 DEF Queued, InSend, InFlight, Events, InHand
  <2>4. Unsettled \subseteq Settled' \union Unsettled'
    BY <2>1, <2>3 DEF Unsettled, Settled
  <2>5. InHand'
    BY <2>1 DEF InHand
  <2> QED
    BY <2>1, <2>2, <2>4, <2>5, Steady
<1>14. CASE FlushRemove
  <2>1. /\ UNCHANGED <<up, handed, sender, delivered, rejected, capped, lost>> /\ up
        /\ q' = Remove(q, front.id) /\ flusher = "remove" /\ flusher' = "next"
    BY <1>14 DEF FlushRemove
  <2>2. Events(q) \subseteq Events(q') \union {front.event}
    <3>1. \A i \in 1..Len(q.entries) :
             q.entries[i].seq = front.id => q.entries[i].event = front.event
      BY <1>a, <2>1 DEF FrontInv
    <3>2. q \in QueueState
      BY DEF TypeOK
    <3> QED
      BY <2>1, <3>1, <3>2, RemoveEvents
  <2>3. /\ Settled' = Settled /\ Queued = Events(q) /\ Queued' = Events(q')
        /\ InSend' = InSend /\ InFlight = {} /\ front.event \in Settled
    BY <1>a, <2>1 DEF Settled, Queued, InSend, InFlight, InHand
  <2>4. Unsettled \subseteq Settled' \union Unsettled'
    BY <2>2, <2>3 DEF Unsettled
  <2>5. InHand'
    BY <2>1 DEF InHand
  <2> QED
    BY <2>1, <2>3, <2>4, <2>5, Steady
<1>15. CASE Crash
  <2>1. /\ up /\ ~up' /\ sender' = "idle" /\ flusher' = "idle"
        /\ UNCHANGED <<file, handed, delivered, rejected, capped>>
        /\ lost' = IF sender = "idle" THEN lost ELSE lost \union {handed}
        /\ faults' = [faults EXCEPT !["crash"] = @ + 1]
    BY <1>15 DEF Crash, Fault
  <2>2. /\ faults'["crash"] = faults["crash"] + 1 /\ faults["crash"] \in Nat
        /\ faults'["disk"] = faults["disk"]
    BY <2>1 DEF TypeOK, FaultKinds
  <2>3. LossInv'
    <3>1. /\ IsFiniteSet(lost) /\ Cardinality(lost) \in Nat
          /\ Cardinality(lost) <= faults["crash"]
      BY <1>a, FS_CardinalityType DEF LossInv
    <3>2. /\ IsFiniteSet(lost \union {handed})
          /\ \/ Cardinality(lost \union {handed}) = Cardinality(lost)
             \/ Cardinality(lost \union {handed}) = Cardinality(lost) + 1
      BY <3>1, FS_AddElement
    <3> QED
      BY <2>1, <2>2, <3>1, <3>2 DEF LossInv
  <2>4. Accounted'
    <3> SUFFICES ASSUME faults["disk"] = 0
                 PROVE  1..handed \subseteq Settled' \union Unsettled'
      BY <2>1, <2>2 DEF Accounted
    <3>1. 1..handed \subseteq Settled \union Unsettled
      BY DEF Account, Accounted
    <3>2. Queued = Events(q) /\ Queued' = Events(q)
      <4>1. file = Image(q)
        BY <2>1 DEF OrderInv, Saved
      <4>2. Events(q) = {file.events[i] : i \in 1..Len(file.events)}
        BY <4>1, SavedEvents
      <4>3. DOMAIN file.events = 1..Len(file.events)
        BY DEF TypeOK, FileState
      <4> QED
        BY <2>1, <4>2, <4>3 DEF Queued
    <3>3. InSend \subseteq lost' /\ InFlight \subseteq Events(q) \union capped
      BY <1>a, <2>1 DEF InSend, InFlight, InHand
    <3>4. Settled \subseteq Settled' /\ capped \subseteq Settled' /\ lost' \subseteq Settled'
      BY <2>1 DEF Settled
    <3>5. Unsettled \subseteq Settled' \union Unsettled'
      BY <3>2, <3>3, <3>4 DEF Unsettled
    <3> QED
      BY <3>1, <3>4, <3>5
  <2>5. InHand'
    BY <2>1 DEF InHand
  <2> QED
    BY <2>3, <2>4, <2>5 DEF Account
<1>16. CASE Restart
  <2>1. /\ ~up /\ up'
        /\ UNCHANGED <<file, sender, flusher, front, handed, delivered, rejected, capped, lost>>
        /\ q' = Open(file) \/ Fault("disk")
    BY <1>16 DEF Restart
  <2>2. sender = "idle" /\ flusher = "idle"
    BY <1>a, <2>1 DEF LockInv
  <2>3. Settled' = Settled
    BY <2>1 DEF Settled
  <2>4. ASSUME faults'["disk"] = 0 \/ faults'["crash"] = 0
        PROVE  Unsettled \subseteq Settled' \union Unsettled'
    <3>1. q' = Open(file)
      <4>1. "disk" \in FaultKinds /\ "crash" \in FaultKinds
        BY DEF FaultKinds
      <4>2. faults["crash"] # 0 /\ faults["crash"] \in Nat /\ faults'["crash"] \in Nat
            /\ faults["crash"] <= faults'["crash"]
        BY <1>a, <2>1, <4>1, FaultsGrow DEF LossInv
      <4>3. faults'["disk"] = 0
        BY <2>4, <4>2
      <4> QED
        BY <2>1, <4>1, <4>3 DEF Fault, TypeOK
    <3>2. /\ Len(q'.entries) = Len(file.events)
          /\ \A i \in 1..Len(file.events) :
               q'.entries[i] = [seq |-> i, event |-> file.events[i]]
      BY <3>1, OpenEffect DEF TypeOK, Capacity
    <3>3. /\ DOMAIN file.events = 1..Len(file.events)
          /\ DOMAIN q'.entries = 1..Len(file.events)
      BY <3>2, EntryType DEF TypeOK, FileState
    <3>4. \A i \in 1..Len(file.events) : q'.entries[i].event = file.events[i]
      <4> TAKE i \in 1..Len(file.events)
      <4>1. q'.entries[i] = [seq |-> i, event |-> file.events[i]]
        BY <3>2
      <4> QED
        BY <4>1
    <3>5. Queued \subseteq Queued'
      BY <2>1, <3>3, <3>4 DEF Queued, Events
    <3> QED
      BY <2>2, <3>5 DEF Unsettled, InSend, InFlight
  <2>5. InHand'
    BY <2>1, <2>2 DEF InHand
  <2> QED
    BY <2>1, <2>3, <2>4, <2>5, Steady
<1>17. CASE UNCHANGED vars
  BY <1>17, Quiet DEF vars
<1> QED
  BY <1>1, <1>2, <1>3, <1>4, <1>5, <1>6, <1>7, <1>8, <1>9, <1>10, <1>11, <1>12,
     <1>13, <1>14, <1>15, <1>16, <1>17 DEF Next, SenderStep, FlusherStep

\* The account is kept throughout.
LEMMA AccountInvariant == Spec => []Account
<1>1. Init => Account
  <2> SUFFICES ASSUME Init
               PROVE  Account
    OBVIOUS
  <2>1. 1..handed = {} /\ faults["crash"] = 0 /\ lost = {} /\ up /\ flusher = "idle"
    BY DEF Init, FaultKinds
  <2>2. IsFiniteSet({}) /\ Cardinality({}) = 0
    BY FS_EmptySet
  <2> QED
    BY <2>1, <2>2 DEF Account, Accounted, InHand, LossInv
<1>2. /\ TypeOK /\ Capacity /\ Shape /\ OrderInv /\ TypeOK' /\ Account /\ [Next]_vars
      => Account'
  BY AccountStep
<1> QED
  BY <1>1, <1>2, TypeCorrect, ShapeInvariant, OrderInvariant, PTL DEF Spec

\* What was handed to Send is delivered, refused, counted as dropped, lost with
\* the process while Send had it (one at most each time), or still there
\* (NothingVanishes; notifier.go and queue.go together).
THEOREM NothingVanishesTheorem == Spec => []NothingVanishes
<1>1. Account => NothingVanishes
  BY DEF Account, Accounted, LossInv, NothingVanishes, Settled
<1> QED
  BY <1>1, AccountInvariant, PTL
-----------------------------------------------------------------------------
(* Copies and announcements. *)

\* Alerts Telegram has taken that may be sent again: they are still there, and
\* the flusher is not about to remove them.
Owed == (delivered \intersect Unsettled) \ (IF flusher = "remove" THEN {front.event} ELSE {})

\* Every copy sent, or still to come, goes back to an answer that was lost or an
\* end of the process.
RepeatInv ==
  faults["disk"] = 0 => repeats + Cardinality(Owed) <= faults["unacked"] + faults["crash"]

Excuses == faults["unacked"] + faults["crash"]

\* An entry the flusher removes is gone: no other entry holds its alert.
LEMMA RemoveGone ==
  ASSUME TypeOK, Shape, flusher = "remove"
  PROVE  front.event \notin Events(Remove(q, front.id))
<1> DEFINE r == Remove(q, front.id)
           n == Len(q.entries)
<1>1. /\ q \in QueueState /\ n \in Nat /\ DOMAIN q.entries = 1..n
      /\ \A i \in 1..n : q.entries[i].event \in Nat
  BY EntryType DEF TypeOK
<1>2. \A i \in 1..n : q.entries[i].seq = front.id <=> q.entries[i].event = front.event
  BY DEF Shape, FrontInv
<1>3. CASE \A i \in 1..n : q.entries[i].seq # front.id
  <2>1. r = q
    BY <1>1, <1>3, RemoveEffect
  <2> QED
    BY <1>1, <1>2, <1>3, <2>1 DEF Events
<1>4. ASSUME NEW k \in 1..n, q.entries[k].seq = front.id, r \in QueueState,
             Len(r.entries) = n - 1,
             \A i \in 1..(n - 1) : r.entries[i] = q.entries[IF i < k THEN i ELSE i + 1]
      PROVE  front.event \notin Events(r)
  <2>1. DOMAIN r.entries = 1..(n - 1)
    BY <1>4, EntryType
  <2>2. ASSUME NEW i \in 1..(n - 1)
        PROVE  r.entries[i].event # front.event
    <3>1. PICK j \in 1..n : j # k /\ r.entries[i] = q.entries[j]
      <4>1. (IF i < k THEN i ELSE i + 1) \in 1..n /\ (IF i < k THEN i ELSE i + 1) # k
        BY <1>1
      <4> QED
        BY <1>4, <4>1
    <3>2. q.entries[j].event # q.entries[k].event
      <4>1. /\ j < k => q.entries[j].event < q.entries[k].event
            /\ k < j => q.entries[k].event < q.entries[j].event
        BY <1>1 DEF Shape, QueueInv
      <4>2. j < k \/ k < j
        BY <1>1, <3>1
      <4>3. q.entries[j].event \in Nat /\ q.entries[k].event \in Nat
        BY <1>1
      <4> QED
        BY <4>1, <4>2, <4>3
    <3> QED
      BY <1>2, <1>4, <3>1, <3>2
  <2> QED
    BY <2>1, <2>2 DEF Events
<1> QED
  BY <1>1, <1>3, <1>4, RemoveEffect

\* How a step may change what was and will be sent twice, while writes succeed.
LEMMA OwedCases ==
  ASSUME TypeOK, TypeOK', OrderInv, RepeatInv, [Next]_vars,
         faults'["disk"] = 0 =>
            \/ repeats' = repeats /\ Owed' \subseteq Owed
            \/ repeats' = repeats /\ Excuses' = Excuses + 1 /\ \E e : Owed' \subseteq Owed \union {e}
            \/ repeats' = repeats + 1 /\ Excuses' = Excuses + 1 /\ Owed' \subseteq Owed
            \/ repeats' = repeats + 1 /\ \E e \in Owed : Owed' \subseteq Owed \ {e}
  PROVE  RepeatInv'
<1> SUFFICES ASSUME faults'["disk"] = 0
             PROVE  repeats' + Cardinality(Owed') <= Excuses'
  BY DEF RepeatInv, Excuses
<1>1. /\ faults["disk"] = 0
      /\ Excuses \in Nat /\ Excuses' \in Nat /\ Excuses <= Excuses'
  <2>1. \A k \in FaultKinds : /\ faults'[k] \in Nat /\ faults[k] \in Nat
                              /\ faults[k] <= faults'[k]
    BY FaultsGrow
  <2> QED
    BY <2>1 DEF Excuses, FaultKinds
<1>2. IsFiniteSet(Owed) /\ Cardinality(Owed) \in Nat
  <2>1. Owed \in SUBSET (1..handed) /\ handed \in Nat
    BY <1>1 DEF Owed, OrderInv, TypeOK
  <2>2. IsFiniteSet(1..handed)
    BY <2>1, FS_Interval
  <2> QED
    BY <2>1, <2>2, FS_Subset, FS_CardinalityType
<1>3. repeats + Cardinality(Owed) <= Excuses /\ repeats \in Nat
  BY <1>1 DEF RepeatInv, Excuses, TypeOK
<1>4. ASSUME Owed' \subseteq Owed
      PROVE  Cardinality(Owed') \in Nat /\ Cardinality(Owed') <= Cardinality(Owed)
  BY <1>2, <1>4, FS_Subset, FS_CardinalityType
<1>5. ASSUME NEW e, Owed' \subseteq Owed \union {e}
      PROVE  Cardinality(Owed') \in Nat /\ Cardinality(Owed') <= Cardinality(Owed) + 1
  <2>1. IsFiniteSet(Owed \union {e}) /\ Cardinality(Owed \union {e}) <= Cardinality(Owed) + 1
        /\ Cardinality(Owed \union {e}) \in Nat
    BY <1>2, FS_AddElement
  <2>2. Cardinality(Owed') \in Nat /\ Cardinality(Owed') <= Cardinality(Owed \union {e})
    BY <1>5, <2>1, FS_Subset, FS_CardinalityType
  <2> QED
    BY <1>2, <2>1, <2>2
<1>6. ASSUME NEW e \in Owed, Owed' \subseteq Owed \ {e}
      PROVE  Cardinality(Owed') \in Nat /\ Cardinality(Owed') <= Cardinality(Owed) - 1
  <2>1. IsFiniteSet(Owed \ {e}) /\ Cardinality(Owed \ {e}) = Cardinality(Owed) - 1
    BY <1>2, FS_RemoveElement
  <2>2. Cardinality(Owed') \in Nat /\ Cardinality(Owed') <= Cardinality(Owed \ {e})
    BY <1>6, <2>1, FS_Subset, FS_CardinalityType
  <2> QED
    BY <2>1, <2>2
<1>7. CASE repeats' = repeats /\ Owed' \subseteq Owed
  BY <1>1, <1>2, <1>3, <1>4, <1>7
<1>8. CASE repeats' = repeats /\ Excuses' = Excuses + 1 /\ \E e : Owed' \subseteq Owed \union {e}
  BY <1>1, <1>2, <1>3, <1>5, <1>8
<1>9. CASE repeats' = repeats + 1 /\ Excuses' = Excuses + 1 /\ Owed' \subseteq Owed
  BY <1>1, <1>2, <1>3, <1>4, <1>9
<1>10. CASE repeats' = repeats + 1 /\ \E e \in Owed : Owed' \subseteq Owed \ {e}
  BY <1>1, <1>2, <1>3, <1>6, <1>10
<1> QED
  BY <1>7, <1>8, <1>9, <1>10

\* A step that sends nothing and brings nothing back.
LEMMA NothingOwed ==
  ASSUME TypeOK, TypeOK', OrderInv, RepeatInv, [Next]_vars,
         repeats' = repeats, delivered' = delivered, Unsettled' \subseteq Unsettled,
         flusher = "remove" <=> flusher' = "remove", front' = front \/ flusher # "remove"
  PROVE  RepeatInv'
<1>1. Owed' \subseteq Owed
  BY DEF Owed
<1> QED
  BY <1>1, OwedCases

\* A step of a goroutine that only moves it on.
LEMMA QuietRepeat ==
  ASSUME TypeOK, TypeOK', OrderInv, RepeatInv, [Next]_vars,
         repeats' = repeats, delivered' = delivered,
         up' = up, q' = q, file' = file, handed' = handed,
         sender' # "idle" => sender # "idle",
         flusher' = "sending" => flusher = "sending" /\ front' = front,
         flusher = "remove" <=> flusher' = "remove", front' = front \/ flusher # "remove"
  PROVE  RepeatInv'
<1>1. Queued' = Queued /\ InSend' \subseteq InSend /\ InFlight' \subseteq InFlight
  BY DEF Queued, Events, InSend, InFlight
<1> QED
  BY <1>1, NothingOwed DEF Unsettled

\* A copy is sent only for an answer that was lost, or after an end of the process.
LEMMA RepeatStep ==
  ASSUME TypeOK, Capacity, Shape, OrderInv, TypeOK', RepeatInv, [Next]_vars
  PROVE  RepeatInv'
<1> USE DEF historyVars, threadVars, queueVars
<1>a. LockInv /\ QueueInv /\ FrontInv
  BY DEF Shape
<1>b. /\ "disk" \in FaultKinds /\ "crash" \in FaultKinds /\ "unacked" \in FaultKinds
      /\ faults["disk"] \in Nat /\ faults'["disk"] \in Nat /\ faults["disk"] <= faults'["disk"]
  BY FaultsGrow DEF FaultKinds
<1>1. CASE SendCheck
  <2>1. /\ UNCHANGED <<q, file, up, flusher, front, delivered, repeats>>
        /\ sender = "idle" /\ handed' = handed + 1 /\ handed \in Nat
    BY <1>1 DEF SendCheck, TypeOK
  <2>2. Queued' = Queued /\ InFlight' = InFlight /\ InSend' \subseteq {handed + 1}
    BY <2>1 DEF Queued, InFlight, InSend, Events
  <2>3. faults'["disk"] = 0 => handed + 1 \notin delivered
    BY <1>b, <2>1 DEF OrderInv
  <2>4. faults'["disk"] = 0 => Owed' \subseteq Owed
    BY <2>1, <2>2, <2>3 DEF Owed, Unsettled
  <2> QED
    BY <2>1, <2>4, OwedCases
<1>2. CASE SendLock
  BY <1>2, QuietRepeat DEF SendLock
<1>3. CASE SendRecheck
  BY <1>3, QuietRepeat DEF SendRecheck
<1>4. ASSUME NEW o \in Outcomes, SendDirect(o)
      PROVE  RepeatInv'
  <2>1. /\ UNCHANGED <<q, file, up, flusher, front, handed>> /\ sender = "sending"
        /\ sender' = "idle" \/ (sender' = "push" /\ o \in {"transient", "unacked"})
        /\ delivered' = IF o \in {"ok", "unacked"} THEN delivered \union {handed} ELSE delivered
        /\ repeats' = IF o \in {"ok", "unacked"} /\ handed \in delivered THEN repeats + 1 ELSE repeats
        /\ Answered(o)
    <3>1. Answered(o) /\ Deliver(handed, o)
          /\ UNCHANGED <<q, file, up, flusher, front, handed>> /\ sender = "sending"
      BY <1>4 DEF SendDirect
    <3>2. sender' = "idle" \/ (sender' = "push" /\ o \in {"transient", "unacked"})
      BY <1>4 DEF SendDirect, Retry
    <3> QED
      BY <3>1, <3>2 DEF Deliver, Taken
  <2>2. /\ Queued' = Queued /\ InFlight' = InFlight /\ InSend = {handed}
        /\ InSend' \subseteq {handed} /\ (o \notin {"transient", "unacked"} => InSend' = {})
    BY <2>1 DEF Queued, InFlight, InSend, Events
  <2>3. handed \notin InFlight /\ handed \notin Queued
    <3>1. up /\ q.entries = <<>> /\ Queued = {}
      BY <1>a, <1>4, <2>1 DEF SendDirect, LockInv, Queued, Events
    <3>2. flusher = "sending" => front.event # handed
      BY <1>a, <2>1 DEF FrontInv, Top, TypeOK
    <3> QED
      BY <3>1, <3>2 DEF InFlight
  <2>4. faults'["disk"] = 0 => handed \notin delivered
    BY <1>b, <2>1 DEF OrderInv, Top, TypeOK
  <2>5. CASE o = "unacked"
    <3>1. Excuses' = Excuses + 1
      BY <1>b, <2>1, <2>5 DEF Answered, Fault, Excuses, TypeOK, FaultKinds
    <3>2. Owed' \subseteq Owed \union {handed}
      BY <2>1, <2>2, <2>5 DEF Owed, Unsettled
    <3> QED
      BY <2>1, <2>4, <3>1, <3>2, OwedCases
  <2>6. CASE o # "unacked"
    <3>1. Owed' \subseteq Owed
      BY <2>1, <2>2, <2>3, <2>6 DEF Owed, Unsettled
    <3> QED
      BY <2>1, <2>4, <3>1, OwedCases
  <2> QED
    BY <2>5, <2>6
<1>5. CASE SendPush
  <2>1. /\ UNCHANGED <<up, flusher, front, handed, delivered, repeats>> /\ up
        /\ q' = Push(q, handed) /\ sender = "push" /\ sender' = "idle"
    BY <1>5 DEF SendPush
  <2>2. Events(q') \subseteq Events(q) \union {handed}
    BY <2>1, PushEvents DEF TypeOK, Capacity
  <2>3. /\ Queued = Events(q) /\ Queued' = Events(q') /\ InFlight' = InFlight
        /\ InSend = {handed} /\ InSend' = {}
    BY <2>1 DEF Queued, InFlight, InSend
  <2>4. Unsettled' \subseteq Unsettled
    BY <2>2, <2>3 DEF Unsettled
  <2> QED
    BY <2>1, <2>4, NothingOwed
<1>6. CASE FlushCheckLen
  BY <1>6, QuietRepeat DEF FlushCheckLen
<1>7. CASE FlushCheckDropped
  BY <1>7, QuietRepeat DEF FlushCheckDropped
<1>8. CASE FlushLock
  BY <1>8, QuietRepeat DEF FlushLock
<1>9. CASE FlushReadDropped
  BY <1>9, QuietRepeat DEF FlushReadDropped
<1>10. ASSUME NEW o \in Outcomes, FlushSummary(o)
       PROVE  RepeatInv'
  BY <1>10, QuietRepeat DEF FlushSummary, FlushReturn
<1>11. CASE FlushReset
  <2>1. /\ UNCHANGED <<up, handed, sender, delivered, repeats>> /\ up
        /\ q' = ResetDropped(q) /\ flusher = "reset" /\ flusher' = "next"
    BY <1>11 DEF FlushReset
  <2>2. Events(q') = Events(q)
    BY <2>1 DEF ResetDropped, QueueState, TypeOK, Events
  <2>3. Unsettled' \subseteq Unsettled
    BY <2>1, <2>2 DEF Unsettled, Queued, InSend, InFlight
  <2> QED
    BY <2>1, <2>3, NothingOwed
<1>12. CASE FlushFront
  <2>1. /\ UNCHANGED <<q, file, up, handed, sender, delivered, repeats>> /\ up
        /\ flusher = "next" /\ flusher' \in {"idle", "sending"}
    BY <1>12 DEF FlushFront, FlushReturn
  <2>2. flusher' = "sending" => front'.event \in Events(q)
    <3>1. CASE q.entries = <<>>
      BY <1>12, <3>1 DEF FlushFront, FlushReturn
    <3>2. CASE q.entries # <<>>
      <4>1. front'.event = q.entries[1].event /\ 1 \in DOMAIN q.entries
        <5>1. q.entries \in Seq(Entry)
          BY EntryType DEF TypeOK
        <5> QED
          BY <1>12, <3>2, <5>1 DEF FlushFront
      <4> QED
        BY <4>1 DEF Events
    <3> QED
      BY <3>1, <3>2
  <2>3. Queued' = Queued /\ Queued = Events(q) /\ InSend' = InSend /\ InFlight' \subseteq Events(q)
    BY <2>1, <2>2 DEF Queued, InSend, InFlight, Events
  <2>4. Unsettled' \subseteq Unsettled
    BY <2>3 DEF Unsettled
  <2> QED
    BY <2>1, <2>4, NothingOwed
<1>13. ASSUME NEW o \in Outcomes, FlushSend(o)
       PROVE  RepeatInv'
  <2> DEFINE e == front.event
  <2>1. /\ UNCHANGED <<q, file, up, handed, sender>> /\ up
        /\ flusher = "sending"
        /\ IF o \in {"transient", "unacked"} THEN flusher' = "idle"
           ELSE flusher' = "remove" /\ front' = front
        /\ delivered' = IF o \in {"ok", "unacked"} THEN delivered \union {e} ELSE delivered
        /\ repeats' = IF o \in {"ok", "unacked"} /\ e \in delivered THEN repeats + 1 ELSE repeats
        /\ Answered(o)
    BY <1>13 DEF FlushSend, FlushReturn, Deliver, Retry, Taken
  <2>2. /\ Queued' = Queued /\ InSend' = InSend /\ InFlight = {e} /\ InFlight' = {}
        /\ e \in Unsettled /\ Unsettled' \subseteq Unsettled
    BY <2>1 DEF Queued, InSend, InFlight, Events, Unsettled
  <2> HIDE DEF e
  <2>3. e \in delivered => e \in Owed
    BY <2>1, <2>2 DEF Owed
  <2>4. CASE o = "unacked"
    <3>1. Excuses' = Excuses + 1
      BY <1>b, <2>1, <2>4 DEF Answered, Fault, Excuses, TypeOK, FaultKinds
    <3>2. Owed' \subseteq Owed \union {e}
      BY <2>1, <2>2, <2>4 DEF Owed
    <3>3. e \in delivered => Owed' \subseteq Owed
      BY <2>3, <3>2
    <3> QED
      BY <2>1, <2>4, <3>1, <3>2, <3>3, OwedCases
  <2>5. CASE o = "ok"
    <3>1. Owed' \subseteq Owed \ {e}
      BY <2>1, <2>2, <2>5 DEF Owed, e
    <3> QED
      BY <2>1, <2>3, <2>5, <3>1, OwedCases
  <2>6. CASE o \in {"transient", "permanent"}
    <3>1. Owed' \subseteq Owed /\ repeats' = repeats
      BY <2>1, <2>2, <2>6 DEF Owed
    <3> QED
      BY <3>1, OwedCases
  <2> QED
    BY <2>4, <2>5, <2>6 DEF Outcomes
<1>14. CASE FlushRemove
  <2>1. /\ UNCHANGED <<up, handed, sender, delivered, repeats>> /\ up
        /\ q' = Remove(q, front.id) /\ flusher = "remove" /\ flusher' = "next"
    BY <1>14 DEF FlushRemove
  <2>2. Events(q') \subseteq Events(q) /\ front.event \notin Events(q')
    <3>1. \A i \in 1..Len(q.entries) :
             q.entries[i].seq = front.id => q.entries[i].event = front.event
      BY <1>a, <2>1 DEF FrontInv
    <3>2. q \in QueueState
      BY DEF TypeOK
    <3> QED
      BY <2>1, <3>1, <3>2, RemoveEvents, RemoveGone
  <2>3. front.event \notin InSend
    BY <1>a, <2>1 DEF FrontInv, Top, TypeOK, InSend
  <2>4. /\ Queued = Events(q) /\ Queued' = Events(q') /\ InSend' = InSend
        /\ InFlight = {} /\ InFlight' = {}
    BY <2>1 DEF Queued, InSend, InFlight
  <2>5. Owed' \subseteq Owed
    BY <2>1, <2>2, <2>3, <2>4 DEF Owed, Unsettled
  <2> QED
    BY <2>1, <2>5, OwedCases
<1>15. CASE Crash
  <2>1. /\ up /\ ~up' /\ sender' = "idle" /\ flusher' = "idle"
        /\ UNCHANGED <<file, handed, delivered, repeats>>
        /\ faults' = [faults EXCEPT !["crash"] = @ + 1]
    BY <1>15 DEF Crash, Fault
  <2>2. Excuses' = Excuses + 1 /\ faults'["disk"] = faults["disk"]
    BY <2>1 DEF Excuses, TypeOK, FaultKinds
  <2>3. ASSUME faults["disk"] = 0
        PROVE  Owed' \subseteq Owed \union {front.event}
    <3>1. file = Image(q)
      BY <2>1, <2>3 DEF OrderInv, Saved
    <3>2. Events(q) = {file.events[i] : i \in 1..Len(file.events)}
      BY <3>1, SavedEvents
    <3>3. DOMAIN file.events = 1..Len(file.events)
      BY DEF TypeOK, FileState
    <3>4. Queued = Events(q) /\ Queued' = Events(q) /\ InSend' = {} /\ InFlight' = {}
      BY <2>1, <3>2, <3>3 DEF Queued, InSend, InFlight
    <3> QED
      BY <2>1, <3>4 DEF Owed, Unsettled
  <2> QED
    BY <2>1, <2>2, <2>3, OwedCases
<1>16. CASE Restart
  <2>1. /\ ~up /\ up'
        /\ UNCHANGED <<file, sender, flusher, front, handed, delivered, repeats>>
        /\ q' = Open(file) \/ Fault("disk")
    BY <1>16 DEF Restart
  <2>2. sender = "idle" /\ flusher = "idle"
    BY <1>a, <2>1 DEF LockInv
  <2>3. ASSUME faults'["disk"] = 0
        PROVE  Owed' \subseteq Owed
    <3>1. q' = Open(file)
      BY <1>b, <2>1, <2>3 DEF Fault, TypeOK
    <3>2. /\ Len(q'.entries) = Len(file.events)
          /\ \A i \in 1..Len(file.events) :
               q'.entries[i] = [seq |-> i, event |-> file.events[i]]
      BY <3>1, OpenEffect DEF TypeOK, Capacity
    <3>3. /\ DOMAIN file.events = 1..Len(file.events)
          /\ DOMAIN q'.entries = 1..Len(file.events)
      BY <3>2, EntryType DEF TypeOK, FileState
    <3>4. \A i \in 1..Len(file.events) : q'.entries[i].event = file.events[i]
      <4> TAKE i \in 1..Len(file.events)
      <4>1. q'.entries[i] = [seq |-> i, event |-> file.events[i]]
        BY <3>2
      <4> QED
        BY <4>1
    <3>5. Queued' \subseteq Queued
      BY <2>1, <3>3, <3>4 DEF Queued, Events
    <3> QED
      BY <2>1, <2>2, <3>5 DEF Owed, Unsettled, InSend, InFlight
  <2> QED
    BY <2>1, <2>3, OwedCases
<1>17. CASE UNCHANGED vars
  BY <1>17, QuietRepeat DEF vars
<1> QED
  BY <1>1, <1>2, <1>3, <1>4, <1>5, <1>6, <1>7, <1>8, <1>9, <1>10, <1>11, <1>12,
     <1>13, <1>14, <1>15, <1>16, <1>17 DEF Next, SenderStep, FlusherStep

\* An alert reaches Telegram twice only because an answer was lost or the process
\* ended between sending and removing it (notifier.go, Flush), once for each.
THEOREM RepeatTheorem == Spec => []RepeatsExplained
<1>1. Init => RepeatInv
  <2> SUFFICES ASSUME Init PROVE RepeatInv
    OBVIOUS
  <2>1. Owed = {} /\ repeats = 0 /\ faults["unacked"] = 0 /\ faults["crash"] = 0
    BY DEF Init, Owed, FaultKinds
  <2> QED
    BY <2>1, FS_EmptySet DEF RepeatInv
<1>2. TypeOK /\ Capacity /\ Shape /\ OrderInv /\ TypeOK' /\ RepeatInv /\ [Next]_vars => RepeatInv'
  BY RepeatStep
<1>3. TypeOK /\ OrderInv /\ RepeatInv => RepeatsExplained
  <2> SUFFICES ASSUME TypeOK, OrderInv, RepeatInv, faults["disk"] = 0
               PROVE  repeats <= faults["unacked"] + faults["crash"]
    BY DEF RepeatsExplained
  <2>1. Owed \in SUBSET (1..handed) /\ handed \in Nat /\ repeats \in Nat
        /\ faults["unacked"] \in Nat /\ faults["crash"] \in Nat
    BY DEF Owed, OrderInv, TypeOK, FaultKinds
  <2>2. Cardinality(Owed) \in Nat
    <3>1. IsFiniteSet(1..handed)
      BY <2>1, FS_Interval
    <3> QED
      BY <2>1, <3>1, FS_Subset, FS_CardinalityType
  <2> QED
    BY <2>1, <2>2 DEF RepeatInv
<1> QED
  BY <1>1, <1>2, <1>3, TypeCorrect, ShapeInvariant, OrderInvariant, PTL DEF Spec
-----------------------------------------------------------------------------
\* What the cap discarded is older than all that is queued or in the hands of
\* Send, while the process lasts: the file alone brings an alert back.
CapInv ==
  /\ capped \subseteq 1..handed
  /\ faults["crash"] = 0 =>
       \A d \in capped : /\ \A i \in 1..Len(q.entries) : d < q.entries[i].event
                         /\ sender # "idle" => d < handed

\* Only the flusher resets the counter, so it is not below what Flush read.
SnapInv == flusher \in {"summary", "reset"} => snap <= q.dropped

\* The counter never runs ahead of the drops.
AnnounceInv ==
  faults["unacked"] = 0 /\ faults["crash"] = 0 =>
    announced + Unannounced <= Cardinality(capped)

\* Push: the cap discards nothing, or the oldest entry of a full queue.
LEMMA PushCapped ==
  ASSUME TypeOK, Capacity, LockInv, QueueInv, sender = "push"
  PROVE  \/ /\ (Events(q) \union {handed}) \ Events(Push(q, handed)) = {}
            /\ Push(q, handed).dropped = q.dropped
         \/ /\ Len(q.entries) = Max /\ 1 \in 1..Len(q.entries)
            /\ (Events(q) \union {handed}) \ Events(Push(q, handed)) = {q.entries[1].event}
            /\ Push(q, handed).dropped = q.dropped + 1
            /\ \A e \in Events(Push(q, handed)) : q.entries[1].event < e
<1> DEFINE p == Push(q, handed)
           n == Len(q.entries)
<1>1. PICK k \in {0, 1} :
            /\ n >= k
            /\ Len(p.entries) = n - k + 1
            /\ \A i \in 1..(n - k) : p.entries[i] = q.entries[i + k]
            /\ p.entries[n - k + 1] = [seq |-> q.nextSeq + 1, event |-> handed]
            /\ p.dropped = q.dropped + k
            /\ k = 1 => n = Max
  BY PushShift DEF TypeOK, Capacity
<1>2. /\ n \in Nat /\ DOMAIN q.entries = 1..n /\ q.dropped \in Nat
      /\ \A i \in 1..n : q.entries[i].event \in Nat
      /\ DOMAIN p.entries = 1..Len(p.entries)
      /\ handed \in Nat
  BY PushEffect, EntryType DEF TypeOK, Capacity
<1>3. /\ \A i \in 1..n : q.entries[i].event < handed
      /\ \A i, j \in 1..n : i < j => q.entries[i].event < q.entries[j].event
  BY <1>2 DEF QueueInv, Top
<1>4. p.entries[n - k + 1].event = handed
  BY <1>1
<1> HIDE DEF p, n
<1>5. /\ \A i \in 1..(n - k + 1) :
            p.entries[i].event = IF i = n - k + 1 THEN handed ELSE q.entries[i + k].event
      /\ DOMAIN p.entries = 1..(n - k + 1)
  <2>1. \A i \in 1..(n - k + 1) : i # n - k + 1 => i \in 1..(n - k)
    BY <1>1, <1>2
  <2>2. \A i \in 1..(n - k) : p.entries[i].event = q.entries[i + k].event
    BY <1>1
  <2>3. DOMAIN p.entries = 1..(n - k + 1)
    BY <1>1, <1>2
  <2> QED
    BY <1>4, <2>1, <2>2, <2>3
<1>6. /\ handed \in Events(p)
      /\ \A i \in 1..n : i > k => q.entries[i].event \in Events(p)
  <2>1. n - k + 1 \in DOMAIN p.entries
    BY <1>1, <1>2, <1>5
  <2>2. ASSUME NEW i \in 1..n, i > k
        PROVE  q.entries[i].event \in Events(p)
    <3>1. i - k \in 1..(n - k) /\ (i - k) + k = i
      BY <1>1, <1>2, <2>2
    <3>2. p.entries[i - k] = q.entries[i] /\ i - k \in DOMAIN p.entries
      BY <1>1, <1>2, <1>5, <3>1
    <3> QED
      BY <3>2 DEF Events
  <2> QED
    BY <1>4, <2>1, <2>2 DEF Events
<1>7. Events(q) = {q.entries[i].event : i \in 1..n}
  BY <1>2 DEF Events
<1>8. CASE k = 0
  <2>1. (Events(q) \union {handed}) \ Events(p) = {}
    BY <1>2, <1>6, <1>7, <1>8
  <2> QED
    BY <1>1, <1>2, <1>8, <2>1 DEF p
<1>9. CASE k = 1
  <2>1. n = Max /\ 1 \in 1..n /\ p.dropped = q.dropped + 1
    BY <1>1, <1>2, <1>9
  <2>2. ASSUME NEW i \in 1..(n - k + 1)
        PROVE  q.entries[1].event < p.entries[i].event
    <3>1. CASE i = n - k + 1
      BY <1>3, <1>5, <2>1, <3>1
    <3>2. CASE i # n - k + 1
      <4>1. i + 1 \in 1..n /\ 1 < i + 1
        BY <1>2, <1>9, <3>2
      <4> QED
        BY <1>3, <1>5, <1>9, <2>1, <3>2, <4>1
    <3> QED
      BY <3>1, <3>2
  <2>3. \A e \in Events(p) : q.entries[1].event < e
    BY <1>5, <2>2 DEF Events
  <2>4. q.entries[1].event \notin Events(p)
    BY <1>2, <2>1, <2>3
  <2>5. \A i \in 1..n : i = 1 \/ q.entries[i].event \in Events(p)
    BY <1>2, <1>6, <1>9
  <2>6. (Events(q) \union {handed}) \ Events(p) = {q.entries[1].event}
    BY <1>6, <1>7, <2>1, <2>4, <2>5
  <2> QED
    BY <2>1, <2>3, <2>6 DEF p, n
<1> QED
  BY <1>8, <1>9

\* A step that leaves queue and cap alone.
LEMMA CapFrame ==
  ASSUME TypeOK, CapInv, capped' = capped, handed' = handed, Events(q') \subseteq Events(q),
         q' \in QueueState, faults'["crash"] = 0 => faults["crash"] = 0,
         sender' = "idle" \/ sender # "idle"
  PROVE  CapInv'
<1>1. /\ \A i \in 1..Len(q'.entries) : q'.entries[i].event \in Events(q')
      /\ \A e \in Events(q) : \E i \in 1..Len(q.entries) : e = q.entries[i].event
  BY EntryType DEF TypeOK, Events
<1> QED
  BY <1>1 DEF CapInv

\* The capped alerts are finitely many.
LEMMA CappedFinite ==
  ASSUME TypeOK, CapInv
  PROVE  IsFiniteSet(capped) /\ Cardinality(capped) \in Nat
<1>1. handed \in Nat /\ capped \in SUBSET (1..handed)
  BY DEF TypeOK, CapInv
<1>2. IsFiniteSet(1..handed)
  BY <1>1, FS_Interval
<1> QED
  BY <1>1, <1>2, FS_Subset, FS_CardinalityType

\* The entries of the queue and the alerts the cap took out of it, step by step.
LEMMA CapStep ==
  ASSUME TypeOK, Capacity, Shape, Account, TypeOK', CapInv, [Next]_vars
  PROVE  CapInv'
<1> USE DEF historyVars, threadVars, queueVars
<1>a. LockInv /\ QueueInv
  BY DEF Shape
<1>b. /\ faults'["crash"] \in Nat /\ faults["crash"] \in Nat /\ faults["crash"] <= faults'["crash"]
      /\ q \in QueueState /\ q' \in QueueState /\ handed \in Nat /\ handed' \in Nat
  BY FaultsGrow DEF FaultKinds, TypeOK
<1>1. CASE SendCheck
  <2>1. capped' = capped /\ handed' = handed + 1 /\ q' = q
    BY <1>1 DEF SendCheck
  <2>2. \A d \in 1..handed : d \in 1..handed' /\ d < handed'
    BY <1>b, <2>1
  <2>3. capped \subseteq 1..handed /\ (faults'["crash"] = 0 => faults["crash"] = 0)
    BY <1>b DEF CapInv
  <2> QED
    BY <2>1, <2>2, <2>3 DEF CapInv
<1>2. CASE SendPush
  <2> DEFINE p == Push(q, handed)
             new == (Events(q) \union {handed}) \ Events(p)
  <2>1. q' = p /\ capped' = capped \union new /\ handed' = handed /\ sender = "push" /\ sender' = "idle"
    BY <1>2 DEF SendPush
  <2>2. \/ new = {}
        \/ /\ 1 \in 1..Len(q.entries) /\ new = {q.entries[1].event}
           /\ \A e \in Events(p) : q.entries[1].event < e
    BY <1>a, <2>1, PushCapped
  <2>3. /\ \A i \in 1..Len(p.entries) : p.entries[i].event \in Events(p)
        /\ Events(p) \subseteq Events(q) \union {handed}
        /\ \A e \in Events(q) : \E i \in 1..Len(q.entries) : e = q.entries[i].event
    <3>1. DOMAIN p.entries = 1..Len(p.entries) /\ DOMAIN q.entries = 1..Len(q.entries)
      BY <1>b, <2>1, EntryType
    <3>2. Events(p) \subseteq Events(q) \union {handed}
      BY <1>b, PushEvents DEF Capacity
    <3> QED
      BY <3>1, <3>2 DEF Events
  <2> HIDE DEF p, new
  <2>4. capped' \subseteq 1..handed
    <3>1. 1 \in 1..Len(q.entries) => q.entries[1].event \in 1..handed
      BY <1>a, <1>b, <2>1 DEF QueueInv, Top
    <3> QED
      BY <2>1, <2>2, <3>1 DEF CapInv
  <2>5. faults["crash"] = 0 => \A d \in capped : \A e \in Events(p) : d < e
    BY <2>1, <2>3 DEF CapInv
  <2>6. faults["crash"] = 0 => \A d \in capped' : \A i \in 1..Len(p.entries) : d < p.entries[i].event
    BY <2>1, <2>2, <2>3, <2>5
  <2> QED
    BY <1>b, <2>1, <2>4, <2>6 DEF CapInv
<1>3. ASSUME NEW o \in Outcomes, SendDirect(o) \/ FlushSummary(o) \/ FlushSend(o)
      PROVE  CapInv'
  BY <1>b, <1>3, CapFrame DEF SendDirect, FlushSummary, FlushSend
<1>4. CASE FlushReset
  <2>1. Events(q') = Events(q)
    BY <1>4 DEF FlushReset, ResetDropped, QueueState, TypeOK, Events
  <2> QED
    BY <1>b, <1>4, <2>1, CapFrame DEF FlushReset
<1>5. CASE FlushRemove
  <2>1. Events(q') \subseteq Events(q)
    <3>1. \A i \in 1..Len(q.entries) :
             q.entries[i].seq = front.id => q.entries[i].event = front.event
      BY <1>5 DEF FlushRemove, Shape, FrontInv
    <3> QED
      BY <1>b, <1>5, <3>1, RemoveEvents DEF FlushRemove
  <2> QED
    BY <1>b, <1>5, <2>1, CapFrame DEF FlushRemove
<1>6. CASE Crash
  <2>1. faults'["crash"] # 0 /\ capped' = capped /\ handed' = handed
    BY <1>6 DEF Crash, Fault, TypeOK, FaultKinds
  <2> QED
    BY <2>1 DEF CapInv
<1>7. CASE Restart
  <2>1. faults["crash"] # 0 /\ capped' = capped /\ handed' = handed
    BY <1>7 DEF Restart, Account, LossInv
  <2> QED
    BY <1>b, <2>1 DEF CapInv
<1>8. CASE SendLock \/ SendRecheck \/ FlushCheckLen \/ FlushCheckDropped \/ FlushLock
  BY <1>b, <1>8, CapFrame DEF SendLock, SendRecheck, FlushCheckLen, FlushCheckDropped, FlushLock
<1>9. CASE FlushReadDropped \/ FlushFront \/ UNCHANGED vars
  BY <1>b, <1>9, CapFrame DEF FlushReadDropped, FlushFront, vars
<1> QED
  BY <1>1, <1>2, <1>3, <1>4, <1>5, <1>6, <1>7, <1>8, <1>9 DEF Next, SenderStep, FlusherStep

\* What Flush read from Dropped, until it resets the counter.
LEMMA SnapStep ==
  ASSUME TypeOK, Capacity, Shape, TypeOK', SnapInv, [Next]_vars
  PROVE  SnapInv'
<1> USE DEF historyVars, threadVars, queueVars
<1>a. LockInv /\ QueueInv /\ q.dropped \in Nat /\ snap \in Nat
  BY DEF Shape, TypeOK, QueueState
<1>1. ASSUME q'.dropped >= q.dropped, snap' = snap \/ flusher' \notin {"summary", "reset"},
             flusher' \in {"summary", "reset"} => flusher \in {"summary", "reset"}
      PROVE  SnapInv'
  <2>1. q'.dropped \in Nat
    BY DEF TypeOK, QueueState
  <2> QED
    BY <1>a, <1>1, <2>1 DEF SnapInv
<1>2. CASE SendPush
  <2>1. q'.dropped = q.dropped \/ q'.dropped = q.dropped + 1
    BY <1>a, <1>2, PushCapped DEF SendPush
  <2> QED
    BY <1>a, <1>1, <1>2, <2>1 DEF SendPush
<1>3. CASE FlushReadDropped
  BY <1>a, <1>3 DEF FlushReadDropped, SnapInv
<1>4. CASE FlushReset \/ FlushRemove \/ Crash \/ Restart
  <2>1. flusher' \notin {"summary", "reset"}
    BY <1>a, <1>4 DEF FlushReset, FlushRemove, Crash, Restart, LockInv
  <2> QED
    BY <2>1 DEF SnapInv
<1>5. CASE SendCheck \/ SendLock \/ SendRecheck \/ \E o \in Outcomes : SendDirect(o)
  BY <1>a, <1>1, <1>5 DEF SendCheck, SendLock, SendRecheck, SendDirect
<1>6. CASE FlushCheckLen \/ FlushCheckDropped \/ FlushLock \/ FlushFront \/ UNCHANGED vars
  BY <1>a, <1>1, <1>6 DEF FlushCheckLen, FlushCheckDropped, FlushLock, FlushFront, FlushReturn, vars
<1>7. ASSUME NEW o \in Outcomes, FlushSummary(o) \/ FlushSend(o)
      PROVE  SnapInv'
  BY <1>a, <1>1, <1>7 DEF FlushSummary, FlushSend, FlushReturn
<1> QED
  BY <1>2, <1>3, <1>4, <1>5, <1>6, <1>7 DEF Next, SenderStep, FlusherStep

\* Every drop the counter or a summary speaks of is one the cap made.
LEMMA AnnounceStep ==
  ASSUME TypeOK, Capacity, Shape, Account, TypeOK', CapInv, SnapInv, AnnounceInv, [Next]_vars
  PROVE  AnnounceInv'
<1> USE DEF historyVars, threadVars, queueVars
<1>a. LockInv /\ QueueInv
  BY DEF Shape
<1>b. /\ q.dropped \in Nat /\ snap \in Nat /\ announced \in Nat /\ q'.dropped \in Nat
      /\ announced' \in Nat /\ snap' \in Nat
      /\ IsFiniteSet(capped) /\ Cardinality(capped) \in Nat
  BY CappedFinite DEF TypeOK, QueueState
<1> SUFFICES ASSUME faults'["unacked"] = 0, faults'["crash"] = 0
             PROVE  announced' + Unannounced' <= Cardinality(capped')
  BY DEF AnnounceInv
<1>c. faults["unacked"] = 0 /\ faults["crash"] = 0
  <2>1. \A k \in FaultKinds : /\ faults'[k] \in Nat /\ faults[k] \in Nat
                              /\ faults[k] <= faults'[k]
    BY FaultsGrow
  <2> QED
    BY <2>1 DEF FaultKinds
<1>d. announced + Unannounced <= Cardinality(capped)
  BY <1>c DEF AnnounceInv
<1>1. ASSUME announced' = announced, q'.dropped = q.dropped, snap' = snap \/ flusher' # "reset",
             capped' = capped, flusher = "reset" <=> flusher' = "reset"
      PROVE  announced' + Unannounced' <= Cardinality(capped')
  BY <1>d, <1>1 DEF Unannounced
<1>2. CASE SendPush
  <2> DEFINE new == (Events(q) \union {handed}) \ Events(Push(q, handed))
  <2>1. /\ q' = Push(q, handed) /\ capped' = capped \union new /\ UNCHANGED <<flusher, snap, announced>>
        /\ sender = "push"
    BY <1>2 DEF SendPush
  <2>2. \/ new = {} /\ q'.dropped = q.dropped
        \/ /\ 1 \in 1..Len(q.entries) /\ new = {q.entries[1].event}
           /\ q'.dropped = q.dropped + 1
    BY <1>a, <2>1, PushCapped
  <2> HIDE DEF new
  <2>3. CASE new = {} /\ q'.dropped = q.dropped
    <3>1. capped' = capped
      BY <2>1, <2>3
    <3> QED
      BY <1>1, <2>1, <2>3, <3>1
  <2>4. CASE 1 \in 1..Len(q.entries) /\ new = {q.entries[1].event} /\ q'.dropped = q.dropped + 1
    <3>1. q.entries[1].event \notin capped
      <4>1. q.entries[1].event \in Nat
        BY <2>4, EntryType DEF TypeOK
      <4>2. \A d \in capped : d < q.entries[1].event
        BY <1>c, <2>4 DEF CapInv
      <4> QED
        BY <4>1, <4>2
    <3>2. Cardinality(capped') = Cardinality(capped) + 1
      BY <1>b, <2>1, <2>4, <3>1, FS_AddElement
    <3>3. Unannounced' = Unannounced + 1 /\ Unannounced \in Int
      BY <1>b, <2>1, <2>4 DEF Unannounced
    <3> QED
      BY <1>b, <1>d, <2>1, <3>2, <3>3
  <2> QED
    BY <2>2, <2>3, <2>4
<1>3. ASSUME NEW o \in Outcomes, FlushSummary(o)
      PROVE  announced' + Unannounced' <= Cardinality(capped')
  <2>1. /\ flusher = "summary" /\ UNCHANGED <<q, capped>> /\ Answered(o)
        /\ announced' = IF o \in {"ok", "unacked"} THEN announced + snap ELSE announced
        /\ IF o \in {"transient", "unacked"} THEN flusher' = "idle"
           ELSE flusher' = "reset" /\ snap' = snap
    BY <1>3 DEF FlushSummary, FlushReturn, Taken, Retry
  <2>2. o # "unacked"
    BY <1>c, <2>1 DEF Answered, Fault, TypeOK, FaultKinds
  <2> QED
    BY <1>b, <1>d, <2>1, <2>2 DEF Unannounced, Outcomes
<1>4. CASE FlushReset
  <2>1. /\ flusher = "reset" /\ flusher' = "next" /\ q'.dropped = 0
        /\ UNCHANGED <<capped, announced>>
    BY <1>4 DEF FlushReset, ResetDropped, TypeOK, QueueState
  <2> QED
    BY <1>b, <1>d, <2>1 DEF Unannounced, SnapInv
<1>5. CASE FlushRemove
  <2>1. q'.dropped = q.dropped
    BY <1>5, RemoveEffect DEF FlushRemove, TypeOK
  <2> QED
    BY <1>1, <1>5, <2>1 DEF FlushRemove
<1>6. CASE Crash \/ Restart
  <2>1. CASE Crash
    BY <1>c, <2>1 DEF Crash, Fault, TypeOK, FaultKinds
  <2>2. CASE Restart
    BY <1>c, <2>2 DEF Restart, Account, LossInv
  <2> QED
    BY <1>6, <2>1, <2>2
<1>7. CASE SendCheck \/ SendLock \/ SendRecheck \/ \E o \in Outcomes : SendDirect(o)
  BY <1>1, <1>7 DEF SendCheck, SendLock, SendRecheck, SendDirect
<1>8. CASE FlushCheckLen \/ FlushCheckDropped \/ FlushLock \/ FlushReadDropped
  BY <1>1, <1>8 DEF FlushCheckLen, FlushCheckDropped, FlushLock, FlushReadDropped
<1>9. CASE FlushFront \/ UNCHANGED vars
  BY <1>1, <1>9 DEF FlushFront, FlushReturn, vars
<1>10. ASSUME NEW o \in Outcomes, FlushSend(o)
       PROVE  announced' + Unannounced' <= Cardinality(capped')
  BY <1>1, <1>10 DEF FlushSend, FlushReturn
<1> QED
  BY <1>2, <1>3, <1>4, <1>5, <1>6, <1>7, <1>8, <1>9, <1>10 DEF Next, SenderStep, FlusherStep

\* What the cap took out of the queue, and what was said of it, agree throughout.
LEMMA CapInvariant == Spec => [](CapInv /\ SnapInv /\ AnnounceInv)
<1>1. Init => CapInv /\ SnapInv /\ AnnounceInv
  <2> SUFFICES ASSUME Init PROVE CapInv /\ SnapInv /\ AnnounceInv
    OBVIOUS
  <2>1. /\ capped = {} /\ flusher = "idle" /\ announced = 0 /\ q.dropped = 0
        /\ Cardinality({}) = 0
    BY FS_EmptySet DEF Init, NewQueue
  <2> QED
    BY <2>1 DEF CapInv, SnapInv, AnnounceInv, Unannounced
<1>2. /\ TypeOK /\ Capacity /\ Shape /\ Account /\ TypeOK' /\ CapInv /\ SnapInv /\ AnnounceInv
      /\ [Next]_vars
      => CapInv' /\ SnapInv' /\ AnnounceInv'
  BY CapStep, SnapStep, AnnounceStep
<1> QED
  BY <1>1, <1>2, TypeCorrect, ShapeInvariant, AccountInvariant, PTL DEF Spec

\* No summary announces drops that did not happen, nor the same drop twice
\* (notifier.go, Flush; queue.go, trimLocked), as long as no answer is lost and
\* the process goes on.
THEOREM AnnounceTheorem == Spec => []NotOverAnnounced
<1>1. AnnounceInv => NotOverAnnounced
  BY DEF AnnounceInv, NotOverAnnounced
<1> QED
  BY <1>1, CapInvariant, PTL

-----------------------------------------------------------------------------
(***************************************************************************)
(* The queueing notifier implements AlertChannel as long as no read or     *)
(* write of the file fails: each step of a goroutine is a step of the      *)
(* channel, or one that changes nothing the channel has.                   *)
(***************************************************************************)

\* What the channel still answers for, and what was refused and not taken.
Pending == Unsettled \ delivered
Refused == rejected \ delivered

-----------------------------------------------------------------------------
(* The steps of the channel, in terms of the notifier. *)

\* Steps the channel does not see.
LEMMA IsStutter ==
  ASSUME up' = up, sender' = "idle" <=> sender = "idle", handed' = handed,
         Pending' = Pending, delivered' = delivered, Refused' = Refused
  PROVE  UNCHANGED Channel!vars
BY DEF Channel!vars, Pending, Refused

\* SendCheck with the next alert.
LEMMA IsAccept ==
  ASSUME up, up', sender = "idle", sender' # "idle", handed' = handed + 1,
         Pending' = Pending \union {handed + 1}, delivered' = delivered, Refused' = Refused
  PROVE  Channel!Next
BY DEF Channel!Next, Channel!Accept, Pending, Refused

\* Send returns and has put its alert into the queue.
LEMMA IsReturn ==
  ASSUME up' = up, sender # "idle", sender' = "idle", handed' = handed,
         Pending' = Pending, delivered' = delivered, Refused' = Refused
  PROVE  Channel!Next
BY DEF Channel!Next, Channel!Work, Channel!Return, Pending, Refused

\* Telegram takes an alert it did not have.
LEMMA IsDeliver ==
  ASSUME up, up', sender' # "idle" => sender # "idle", handed' = handed,
         NEW e \in Pending,
         \A d \in delivered \union Pending : d # e => (d < e <=> d \in delivered),
         delivered' = delivered \union {e}, Pending' = Pending \ {e}, Refused' = Refused \ {e}
  PROVE  Channel!Next
<1>1. Channel!MayReturn
  BY DEF Channel!MayReturn
<1>2. Channel!Deliver(e)
  BY <1>1 DEF Channel!Deliver, Pending, Refused
<1> QED
  BY <1>2 DEF Channel!Next, Channel!Work, Pending

\* Telegram refuses one for good.
LEMMA IsRefuse ==
  ASSUME up, up', sender' # "idle" => sender # "idle", handed' = handed,
         NEW e \in Pending,
         delivered' = delivered, Pending' \in {Pending, Pending \ {e}},
         Refused' = Refused \union {e}
  PROVE  Channel!Next
<1>1. Channel!MayReturn
  BY DEF Channel!MayReturn
<1>2. Channel!Refuse(e)
  BY <1>1 DEF Channel!Refuse, Pending, Refused
<1> QED
  BY <1>2 DEF Channel!Next, Channel!Work, Pending

\* The cap drops one, or the flusher removes one that was refused.
LEMMA IsForget ==
  ASSUME up, up', sender' # "idle" => sender # "idle", handed' = handed,
         NEW e \in Pending, Cardinality({p \in Pending : p > e}) >= Max \/ e \in Refused,
         delivered' = delivered, Pending' = Pending \ {e}, Refused' = Refused
  PROVE  Channel!Next
<1>1. Channel!MayReturn
  BY DEF Channel!MayReturn
<1>2. Channel!Overflowed(e) \/ e \in rejected \ delivered
  BY DEF Channel!Overflowed, Channel!Cardinality, Cardinality, Pending, Refused
<1>3. Channel!Forget(e)
  BY <1>1, <1>2 DEF Channel!Forget, Pending, Refused
<1> QED
  BY <1>3 DEF Channel!Next, Channel!Work, Pending

\* The process ends.
LEMMA IsInterrupt ==
  ASSUME up, ~up', sender' = "idle", handed' = handed,
         \A e \in Pending \ Pending' : \/ sender # "idle" /\ e = handed
                                       \/ Cardinality({p \in Pending : p > e}) >= Max,
         Pending' \subseteq Pending, delivered' = delivered, Refused' = Refused
  PROVE  Channel!Next
<1> DEFINE gone == Pending \ Pending'
<1>1. Pending' = Pending \ gone /\ gone \in SUBSET Pending
  OBVIOUS
<1>2. \A e \in gone : (sender # "idle" /\ e = handed) \/ Channel!Overflowed(e)
  BY DEF Channel!Overflowed, Channel!Cardinality, Cardinality, Pending
<1> HIDE DEF gone
<1>3. Channel!Interrupt(gone)
  BY <1>1, <1>2 DEF Channel!Interrupt, Pending, Refused
<1> QED
  BY <1>1, <1>3 DEF Channel!Next, Pending

\* It is started again.
LEMMA IsResume ==
  ASSUME ~up, up', sender' = "idle", sender = "idle", handed' = handed,
         Pending' = Pending, delivered' = delivered, Refused' = Refused
  PROVE  Channel!Next
BY DEF Channel!Next, Channel!Resume, Pending, Refused
-----------------------------------------------------------------------------
(* What the mapping rests on. *)

\* An alert the flusher is sending leaves the queue only when the cap needs its
\* place, and then the queue stays full: only the flusher takes entries out.
FullInv ==
  flusher = "sending" /\ front.event \notin Events(q) => Len(q.entries) = Max

Known == /\ TypeOK /\ Capacity /\ Shape /\ OrderInv /\ Account /\ FullInv
         /\ faults["disk"] = 0

\* Alerts in the queue are as many as its entries.
LEMMA QueueCardinality ==
  ASSUME NEW r \in QueueState,
         \A i, j \in 1..Len(r.entries) : i < j => r.entries[i].event < r.entries[j].event,
         NEW S, IsFiniteSet(S), Events(r) \subseteq S
  PROVE  Cardinality(S) >= Len(r.entries)
<1> DEFINE n == Len(r.entries)
           f == [i \in 1..n |-> r.entries[i].event]
<1>1. /\ n \in Nat /\ DOMAIN r.entries = 1..n
      /\ \A i \in 1..n : r.entries[i].event \in Nat
  BY EntryType
<1>2. f \in [1..n -> S]
  BY <1>1 DEF Events
<1>3. ASSUME NEW a \in 1..n, NEW b \in 1..n, f[a] = f[b]
      PROVE  a = b
  <2>1. ~(a < b) /\ ~(b < a)
    BY <1>1, <1>3
  <2> QED
    BY <1>1, <2>1
<1>4. f \in Injection(1..n, S)
  BY <1>2, <1>3, Fun_IsInj
<1>5. Cardinality(S) \in Nat
  BY FS_CardinalityType
<1>6. Cardinality(1..n) <= Cardinality(S)
  BY <1>4, FS_Injection
<1> HIDE DEF n, f
<1>7. Cardinality(1..n) = n
  <2>1. Cardinality(1..n) = IF 1 > n THEN 0 ELSE n - 1 + 1
    BY <1>1, FS_Interval
  <2> QED
    BY <1>1, <2>1
<1> QED
  BY <1>1, <1>5, <1>6, <1>7 DEF n

\* Alerts the notifier deals with were handed over; they are finitely many.
LEMMA PendingType ==
  ASSUME Known
  PROVE  /\ Unsettled \subseteq 1..handed /\ handed \in Nat
         /\ IsFiniteSet(Pending)
         /\ delivered \subseteq 1..handed
         /\ sender \in {"wait", "recheck", "sending"} => delivered \subseteq 1..(handed - 1)
<1>1. /\ q \in QueueState /\ file \in FileState /\ handed \in Nat /\ Top \in 0..handed
      /\ LockInv /\ QueueInv /\ FileInv /\ FrontInv
  BY TopType DEF Known, TypeOK, Shape, Top, LockInv
<1>2. /\ DOMAIN q.entries = 1..Len(q.entries) /\ DOMAIN file.events = 1..Len(file.events)
  BY <1>1, EntryType DEF FileState
<1>3. Queued \subseteq 1..Top
  BY <1>1, <1>2 DEF Queued, Events, QueueInv, FileInv
<1>4. InFlight \subseteq 1..Top /\ InSend \subseteq 1..handed
  BY <1>1 DEF InFlight, InSend, FrontInv, LockInv
<1>5. Unsettled \subseteq 1..handed
  BY <1>1, <1>3, <1>4 DEF Unsettled
<1>6. IsFiniteSet(Pending)
  <2>1. Pending \in SUBSET (1..handed)
    BY <1>5 DEF Pending
  <2>2. IsFiniteSet(1..handed)
    BY <1>1, FS_Interval
  <2> QED
    BY <2>1, <2>2, FS_Subset
<1>7. /\ delivered \subseteq 1..handed
      /\ sender \in {"wait", "recheck", "sending"} => delivered \subseteq 1..Top
  BY DEF Known, OrderInv
<1> QED
  BY <1>1, <1>5, <1>6, <1>7 DEF Top

\* While a process runs, what it will deliver first is newer than what it did.
LEMMA PendingOrder ==
  ASSUME Known, up
  PROVE  /\ \A e \in Events(q) : IsNewer(e)
         /\ flusher = "sending" => IsNewer(front.event)
         /\ Queued = Events(q)
<1>1. file = Image(q) /\ \A i \in 1..Len(file.events) : IsNewer(file.events[i])
  BY DEF Known, OrderInv, Saved
<1>2. Events(q) = {file.events[i] : i \in 1..Len(file.events)}
  BY <1>1, SavedEvents DEF Known
<1> QED
  BY <1>1, <1>2 DEF Known, OrderInv, Queued

\* What the cap takes from under the flusher has a full queue behind it.
LEMMA FrontOverflowed ==
  ASSUME Known, up, flusher = "sending", front.event \notin Events(q),
         front.event \notin delivered
  PROVE  Cardinality({p \in Pending : p > front.event}) >= Max
<1> DEFINE S == {p \in Pending : p > front.event}
<1>1. /\ q \in QueueState /\ QueueInv /\ FrontInv /\ Len(q.entries) = Max
      /\ DOMAIN q.entries = 1..Len(q.entries) /\ front.event \in Nat
  BY EntryType DEF Known, FullInv, Shape, TypeOK
<1>2. IsFiniteSet(S)
  BY PendingType, FS_Subset
<1>3. \A d \in delivered : d < front.event
  BY PendingOrder DEF IsNewer
<1>4. ASSUME NEW e \in Events(q)
      PROVE  e \in S
  <2>1. e >= front.event /\ e # front.event /\ e \in Nat
    BY <1>1, EntryType DEF Events, FrontInv
  <2>2. e \notin delivered
    BY <1>1, <1>3, <2>1
  <2>3. e \in Unsettled
    BY PendingOrder DEF Unsettled
  <2> QED
    BY <1>1, <2>1, <2>2, <2>3 DEF Pending
<1>5. \A i, j \in 1..Len(q.entries) : i < j => q.entries[i].event < q.entries[j].event
  BY <1>1 DEF QueueInv
<1> QED
  BY <1>1, <1>2, <1>4, <1>5, QueueCardinality
-----------------------------------------------------------------------------
(* The step simulation. *)

\* A step of a goroutine that only moves it on.
LEMMA QuietChannel ==
  ASSUME UNCHANGED <<up, q, file, handed, delivered, rejected>>,
         sender' = "idle" <=> sender = "idle",
         flusher' = "sending" <=> flusher = "sending",
         flusher' = "sending" => front' = front
  PROVE  UNCHANGED Channel!vars
<1>1. Queued' = Queued /\ InSend' = InSend /\ InFlight' = InFlight
  BY DEF Queued, Events, InSend, InFlight
<1>2. Pending' = Pending /\ Refused' = Refused
  BY <1>1 DEF Pending, Refused, Unsettled
<1> QED
  BY <1>2, IsStutter

\* SendDirect: the alert in the hands of Send is the only one pending.
LEMMA SendDirectChannel ==
  ASSUME Known, NEW o \in Outcomes, SendDirect(o)
  PROVE  Channel!Next \/ UNCHANGED Channel!vars
<1>1. /\ UNCHANGED <<q, file, up, flusher, front, handed>> /\ sender = "sending" /\ up
      /\ Deliver(handed, o)
      /\ IF o \in {"transient", "unacked"} THEN sender' = "push" ELSE sender' = "idle"
  BY DEF SendDirect, Retry, queueVars
<1>2. /\ delivered' = IF o \in {"ok", "unacked"} THEN delivered \union {handed} ELSE delivered
      /\ rejected' = IF o = "permanent" THEN rejected \union {handed} ELSE rejected
  BY <1>1 DEF Deliver, Taken
<1>3. q.entries = <<>> /\ sendMu = "sender" /\ flusher # "sending"
  BY <1>1 DEF Known, Shape, LockInv
<1>4. Queued = {} /\ Queued' = {} /\ InFlight = {} /\ InFlight' = {} /\ InSend = {handed}
  BY <1>1, <1>3 DEF Queued, Events, InFlight, InSend
<1>5. InSend' = IF o \in {"transient", "unacked"} THEN {handed} ELSE {}
  BY <1>1 DEF InSend
<1>6. delivered \subseteq 1..(handed - 1) /\ handed \in Nat /\ handed \notin delivered
  BY <1>1, PendingType
<1>7. Pending = {handed}
  BY <1>4, <1>6 DEF Pending, Unsettled
<1>8. CASE o \in {"ok", "unacked"}
  <2>1. Pending' = Pending \ {handed} /\ Refused' = Refused \ {handed}
    BY <1>2, <1>4, <1>5, <1>7, <1>8 DEF Pending, Unsettled, Refused
  <2>2. \A d \in delivered \union Pending : d # handed => (d < handed <=> d \in delivered)
    BY <1>6, <1>7
  <2> QED
    BY <1>1, <1>2, <1>7, <1>8, <2>1, <2>2, IsDeliver
<1>9. CASE o = "permanent"
  <2>1. Pending' = Pending \ {handed} /\ Refused' = Refused \union {handed}
    BY <1>2, <1>4, <1>5, <1>6, <1>7, <1>9 DEF Pending, Unsettled, Refused
  <2> QED
    BY <1>1, <1>2, <1>7, <1>9, <2>1, IsRefuse
<1>10. CASE o = "transient"
  <2>1. Pending' = Pending /\ Refused' = Refused
    BY <1>2, <1>4, <1>5, <1>7, <1>10 DEF Pending, Unsettled, Refused
  <2> QED
    BY <1>1, <1>2, <1>10, <2>1, IsStutter
<1> QED
  BY <1>8, <1>9, <1>10 DEF Outcomes

\* SendPush: the cap drops at most the oldest alert, with the cap younger ones
\* behind it.
LEMMA SendPushChannel ==
  ASSUME Known, Known', SendPush
  PROVE  Channel!Next
<1> DEFINE e == q.entries[1].event
<1>1. /\ UNCHANGED <<up, flusher, front, handed, delivered, rejected>> /\ up
      /\ q' = Push(q, handed) /\ sender = "push" /\ sender' = "idle"
  BY DEF SendPush
<1>2. /\ q \in QueueState /\ q' \in QueueState /\ LockInv /\ QueueInv
      /\ Len(q.entries) <= Max /\ handed \in Nat
      /\ \A i, j \in 1..Len(q'.entries) : i < j => q'.entries[i].event < q'.entries[j].event
  BY DEF Known, TypeOK, Capacity, Shape, QueueInv
<1>3. /\ Queued = Events(q) /\ Queued' = Events(q') /\ InFlight' = InFlight
      /\ InSend = {handed} /\ InSend' = {} /\ Refused' = Refused
  BY <1>1 DEF Queued, InFlight, InSend, Refused
<1>4. Events(q') \subseteq Events(q) \union {handed} /\ handed \in Events(q')
  BY <1>1, <1>2, PushEvents
<1>5. \/ (Events(q) \union {handed}) \ Events(q') = {}
      \/ /\ (Events(q) \union {handed}) \ Events(q') = {e}
         /\ Len(q.entries) = Max /\ 1 \in 1..Len(q.entries)
         /\ \A d \in Events(q') : e < d
  BY <1>1, <1>2, PushCapped DEF Known
<1>6. CASE (Events(q) \union {handed}) \ Events(q') = {}
  <2>1. Pending' = Pending
    BY <1>1, <1>3, <1>4, <1>6 DEF Pending, Unsettled
  <2> QED
    BY <1>1, <1>3, <2>1, IsReturn
<1>7. CASE /\ (Events(q) \union {handed}) \ Events(q') = {e}
           /\ Len(q.entries) = Max /\ 1 \in 1..Len(q.entries)
           /\ \A d \in Events(q') : e < d
  <2> HIDE DEF e
  <2>1. CASE e \in InFlight \union delivered
    <3>1. Pending' = Pending
      BY <1>1, <1>3, <1>4, <1>7, <2>1 DEF Pending, Unsettled
    <3> QED
      BY <1>1, <1>3, <3>1, IsReturn
  <2>2. CASE e \notin InFlight /\ e \notin delivered
    <3>1. e \in Events(q) /\ e \notin Events(q') /\ e \in Nat
      <4>1. q.entries[1].event \in Events(q) /\ q.entries[1].event \in Nat
        BY <1>2, <1>7, EntryType DEF Events
      <4> QED
        BY <1>7, <4>1 DEF e
    <3>2. e \in Pending /\ Pending' = Pending \ {e}
      BY <1>1, <1>3, <1>4, <1>7, <2>2, <3>1 DEF Pending, Unsettled
    <3>3. \A d \in delivered : d < e
      BY <1>1, <2>2, <3>1, PendingOrder DEF IsNewer
    <3> DEFINE S == {p \in Pending : p > e}
    <3>4. IsFiniteSet(S)
      BY PendingType, FS_Subset
    <3>5. ASSUME NEW d \in Events(q')
          PROVE  d \in S
      <4>1. e < d /\ d \in Nat /\ e \in Nat
        BY <1>2, <1>7, <3>1, EntryType
      <4>2. d \notin delivered
        <5>1. delivered \subseteq 1..handed
          BY PendingType
        <5> QED
          BY <1>2, <3>3, <4>1, <5>1
      <4>3. d \in Unsettled
        BY <1>3, <1>4 DEF Unsettled
      <4> QED
        BY <4>1, <4>2, <4>3 DEF Pending
    <3>6. Len(q'.entries) = Max
      BY <1>1, <1>2, <1>7, PushEffect
    <3>7. Cardinality(S) >= Max
      BY <1>2, <3>4, <3>5, <3>6, QueueCardinality
    <3> QED
      BY <1>1, <1>3, <3>2, <3>7, IsForget
  <2> QED
    BY <2>1, <2>2
<1> QED
  BY <1>5, <1>6, <1>7

\* FlushSend: a first delivery is of the oldest pending alert; a copy, or an
\* answer worth a retry, changes nothing but that a capped alert is gone.
LEMMA FlushSendChannel ==
  ASSUME Known, NEW o \in Outcomes, FlushSend(o)
  PROVE  Channel!Next \/ UNCHANGED Channel!vars
<1> DEFINE e == front.event
<1>1. /\ UNCHANGED <<q, file, up, handed, sender>> /\ up /\ flusher = "sending"
      /\ flusher' \in {"idle", "remove"} /\ Deliver(e, o)
  BY DEF FlushSend, FlushReturn, queueVars
<1>2. /\ delivered' = IF o \in {"ok", "unacked"} THEN delivered \union {e} ELSE delivered
      /\ rejected' = IF o = "permanent" THEN rejected \union {e} ELSE rejected
  BY <1>1 DEF Deliver, Taken
<1>3. /\ Queued = Events(q) /\ Queued' = Queued /\ InSend' = InSend /\ InFlight = {e}
      /\ InFlight' = {}
  BY <1>1 DEF Queued, Events, InSend, InFlight
<1>4. e \in Nat /\ FrontInv /\ e \in 1..Top /\ handed \in Nat
  BY <1>1 DEF Known, Shape, FrontInv, TypeOK
<1>5. IsNewer(e)
  BY <1>1, PendingOrder
<1>6. ASSUME NEW d \in Pending
      PROVE  d >= e /\ d \notin delivered /\ d \in Nat
  <2>1. d \in Events(q) \union {e} \union InSend /\ d \notin delivered
    BY <1>3 DEF Pending, Unsettled
  <2>2. CASE d \in Events(q)
    BY <1>1, <1>4, <2>1, <2>2, EntryType DEF Events, FrontInv, Known, TypeOK
  <2>3. CASE d \in InSend
    BY <1>4, <2>1, <2>3 DEF InSend, Top
  <2> QED
    BY <1>4, <2>1, <2>2, <2>3
<1>7. delivered \subseteq 1..handed
  BY PendingType
<1> HIDE DEF e
<1>8. CASE o \in {"ok", "unacked"}
  <2>1. Refused' = Refused \ {e} /\ Pending' = Pending \ {e}
    BY <1>2, <1>3, <1>8 DEF Refused, Pending, Unsettled
  <2>2. CASE e \in delivered
    <3>1. Refused' = Refused /\ Pending' = Pending /\ delivered' = delivered
      BY <1>2, <1>8, <2>1, <2>2 DEF Refused, Pending
    <3> QED
      BY <1>1, <3>1, IsStutter
  <2>3. CASE e \notin delivered
    <3>1. e \in Pending
      BY <1>3, <2>3 DEF Pending, Unsettled
    <3>2. \A d \in delivered \union Pending : d # e => (d < e <=> d \in delivered)
      BY <1>4, <1>5, <1>6, <1>7, <2>3 DEF IsNewer
    <3> QED
      BY <1>1, <1>2, <1>8, <2>1, <3>1, <3>2, IsDeliver
  <2> QED
    BY <2>2, <2>3
<1>9. CASE o = "permanent"
  <2>1. CASE e \in delivered
    <3>1. Refused' = Refused /\ Pending' = Pending
      BY <1>2, <1>3, <1>9, <2>1 DEF Refused, Pending, Unsettled
    <3> QED
      BY <1>1, <1>2, <1>9, <3>1, IsStutter
  <2>2. CASE e \notin delivered
    <3>1. e \in Pending /\ Refused' = Refused \union {e} /\ Pending' \in {Pending, Pending \ {e}}
      BY <1>2, <1>3, <1>9, <2>2 DEF Refused, Pending, Unsettled
    <3> QED
      BY <1>1, <1>2, <1>9, <3>1, IsRefuse
  <2> QED
    BY <2>1, <2>2
<1>10. CASE o = "transient"
  <2>1. delivered' = delivered /\ Refused' = Refused
    BY <1>2, <1>10 DEF Refused
  <2>2. CASE e \in Events(q) \union delivered
    <3>1. Pending' = Pending
      BY <1>3, <2>1, <2>2 DEF Pending, Unsettled
    <3> QED
      BY <1>1, <2>1, <3>1, IsStutter
  <2>3. CASE e \notin Events(q) /\ e \notin delivered
    <3>1. e \notin InSend
      BY <1>4 DEF InSend, Top
    <3>2. e \in Pending /\ Pending' = Pending \ {e}
      BY <1>3, <2>1, <2>3, <3>1 DEF Pending, Unsettled
    <3>3. Cardinality({p \in Pending : p > e}) >= Max
      BY <1>1, <2>3, FrontOverflowed DEF e
    <3> QED
      BY <1>1, <2>1, <3>2, <3>3, IsForget
  <2> QED
    BY <2>2, <2>3
<1> QED
  BY <1>8, <1>9, <1>10 DEF Outcomes

\* FlushFront and FlushRemove: what the flusher takes out of the queue is settled,
\* or in its hands.
LEMMA FlushQueueChannel ==
  ASSUME Known, FlushFront \/ FlushRemove \/ FlushReset
  PROVE  Channel!Next \/ UNCHANGED Channel!vars
<1>0. q \in QueueState /\ handed \in Nat
  BY DEF Known, TypeOK
<1>1. CASE FlushFront
  <2>1. /\ UNCHANGED <<q, file, up, handed, sender, delivered, rejected>>
        /\ flusher = "next" /\ flusher' \in {"idle", "sending"} /\ up
    BY <1>1 DEF FlushFront, FlushReturn, historyVars, queueVars
  <2>2. flusher' = "sending" => front'.event \in Events(q)
    <3>1. CASE q.entries = <<>>
      BY <1>1, <3>1 DEF FlushFront, FlushReturn
    <3>2. CASE q.entries # <<>>
      <4>1. front'.event = q.entries[1].event /\ 1 \in DOMAIN q.entries
        <5>1. q.entries \in Seq(Entry)
          BY <1>0, EntryType
        <5> QED
          BY <1>1, <3>2, <5>1 DEF FlushFront
      <4> QED
        BY <4>1 DEF Events
    <3> QED
      BY <3>1, <3>2
  <2>3. /\ Queued' = Queued /\ Queued = Events(q) /\ InSend' = InSend /\ InFlight = {}
        /\ InFlight' \subseteq Events(q)
    BY <2>1, <2>2 DEF Queued, InSend, InFlight, Events
  <2>4. Pending' = Pending /\ Refused' = Refused
    BY <2>1, <2>3 DEF Pending, Unsettled, Refused
  <2> QED
    BY <2>1, <2>4, IsStutter
<1>2. CASE FlushReset
  <2>1. /\ UNCHANGED <<up, handed, sender, delivered, rejected>> /\ up
        /\ q' = ResetDropped(q) /\ flusher = "reset" /\ flusher' = "next"
    BY <1>2 DEF FlushReset, historyVars
  <2>2. Events(q') = Events(q)
    BY <1>0, <2>1 DEF ResetDropped, QueueState, Events
  <2>3. Pending' = Pending /\ Refused' = Refused
    BY <2>1, <2>2 DEF Pending, Refused, Unsettled, Queued, InSend, InFlight
  <2> QED
    BY <2>1, <2>3, IsStutter
<1>3. CASE FlushRemove
  <2> DEFINE e == front.event
  <2>1. /\ UNCHANGED <<up, handed, sender, delivered, rejected>> /\ up
        /\ q' = Remove(q, front.id) /\ flusher = "remove" /\ flusher' = "next"
    BY <1>3 DEF FlushRemove, historyVars
  <2>2. FrontInv /\ e \in 1..Top /\ e \in delivered \union rejected
    BY <2>1 DEF Known, Shape, FrontInv, Account, InHand
  <2>3. Events(q') \subseteq Events(q) /\ Events(q) \subseteq Events(q') \union {e} /\ e \notin Events(q')
    <3>1. \A i \in 1..Len(q.entries) :
             q.entries[i].seq = front.id => q.entries[i].event = front.event
      BY <2>1, <2>2 DEF FrontInv
    <3> QED
      BY <1>0, <2>1, <3>1, RemoveEvents, RemoveGone DEF Known
  <2>4. e \notin InSend
    BY <1>0, <2>2 DEF Top, InSend
  <2> HIDE DEF e
  <2>5. /\ Queued = Events(q) /\ Queued' = Events(q') /\ InSend' = InSend
        /\ InFlight = {} /\ InFlight' = {}
    BY <2>1 DEF Queued, InSend, InFlight
  <2>6. Pending' = Pending \ {e} /\ Refused' = Refused
    BY <2>1, <2>3, <2>4, <2>5 DEF Pending, Unsettled, Refused
  <2>7. CASE e \in Pending
    <3>1. e \in Refused
      BY <2>2, <2>7 DEF Refused, Pending
    <3> QED
      BY <2>1, <2>6, <2>7, <3>1, IsForget
  <2>8. CASE e \notin Pending
    BY <2>1, <2>6, <2>8, IsStutter
  <2> QED
    BY <2>7, <2>8
<1> QED
  BY <1>1, <1>2, <1>3

\* The end of the process takes the alert in Send, and one that the cap took from
\* under the flusher; the file brings all others back.
LEMMA ProcessChannel ==
  ASSUME Known, Known', Crash \/ Restart
  PROVE  Channel!Next
<1>1. CASE Crash
  <2>1. /\ up /\ ~up' /\ sender' = "idle" /\ flusher' = "idle"
        /\ UNCHANGED <<file, handed, delivered, rejected>>
    BY <1>1 DEF Crash
  <2>2. Queued = Events(q) /\ Queued' = Events(q) /\ InSend' = {} /\ InFlight' = {}
    <3>1. file = Image(q)
      BY <2>1 DEF Known, OrderInv, Saved
    <3>2. Events(q) = {file.events[i] : i \in 1..Len(file.events)}
      BY <3>1, SavedEvents DEF Known
    <3>3. DOMAIN file.events = 1..Len(file.events)
      BY DEF Known, TypeOK, FileState
    <3> QED
      BY <2>1, <3>2, <3>3 DEF Queued, InSend, InFlight
  <2>3. Pending' \subseteq Pending /\ Refused' = Refused
    BY <2>1, <2>2 DEF Pending, Unsettled, Refused
  <2>4. ASSUME NEW e \in Pending \ Pending'
        PROVE  \/ sender # "idle" /\ e = handed
               \/ Cardinality({p \in Pending : p > e}) >= Max
    <3>1. e \in InFlight \union InSend /\ e \notin Events(q) /\ e \notin delivered
      BY <2>1, <2>2, <2>4 DEF Pending, Unsettled
    <3>2. CASE e \in InSend
      BY <3>2 DEF InSend
    <3>3. CASE e \in InFlight
      <4>1. flusher = "sending" /\ e = front.event
        BY <3>3 DEF InFlight
      <4> QED
        BY <2>1, <3>1, <4>1, FrontOverflowed
    <3> QED
      BY <3>1, <3>2, <3>3
  <2> QED
    BY <2>1, <2>3, <2>4, IsInterrupt
<1>2. CASE Restart
  <2>1. /\ ~up /\ up'
        /\ UNCHANGED <<file, sender, flusher, front, handed, delivered, rejected>>
        /\ sender = "idle" /\ flusher = "idle"
    BY <1>2 DEF Restart, threadVars, historyVars, Known, Shape, LockInv
  <2>2. Queued' = Queued
    <3>1. file = Image(q')
      BY <2>1 DEF Known, OrderInv, Saved
    <3>2. Events(q') = {file.events[i] : i \in 1..Len(file.events)}
      <4>1. file' = Image(q') /\ TypeOK'
        BY <2>1, <3>1 DEF Known
      <4>2. /\ Len(file'.events) = Len(q'.entries)
            /\ \A i \in 1..Len(q'.entries) : file'.events[i] = q'.entries[i].event
        BY <4>1, ImageEffect DEF TypeOK
      <4>3. DOMAIN q'.entries = 1..Len(q'.entries)
        BY <4>1, EntryType DEF TypeOK
      <4> QED
        BY <2>1, <4>2, <4>3 DEF Events
    <3>3. DOMAIN file.events = 1..Len(file.events)
      BY DEF Known, TypeOK, FileState
    <3> QED
      BY <2>1, <3>2, <3>3 DEF Queued
  <2>3. Pending' = Pending /\ Refused' = Refused
    BY <2>1, <2>2 DEF Pending, Unsettled, InSend, InFlight, Refused
  <2> QED
    BY <2>1, <2>3, IsResume
<1> QED
  BY <1>1, <1>2

\* Every step of the notifier is a step of the channel or one it does not see.
LEMMA ChannelStep ==
  ASSUME Known, Known', [Next]_vars
  PROVE  Channel!Next \/ UNCHANGED Channel!vars
<1> USE DEF historyVars, threadVars, queueVars
<1>1. CASE SendCheck
  <2>1. /\ UNCHANGED <<q, file, up, flusher, front, delivered, rejected>> /\ up
        /\ sender = "idle" /\ sender' # "idle" /\ handed' = handed + 1
    BY <1>1 DEF SendCheck
  <2>2. Queued' = Queued /\ InFlight' = InFlight /\ InSend = {} /\ InSend' = {handed + 1}
    BY <2>1 DEF Queued, InFlight, InSend, Events
  <2>3. handed + 1 \notin delivered
    BY PendingType
  <2>4. Pending' = Pending \union {handed + 1} /\ Refused' = Refused
    BY <2>1, <2>2, <2>3 DEF Pending, Unsettled, Refused
  <2> QED
    BY <2>1, <2>4, IsAccept
<1>2. CASE SendLock \/ SendRecheck \/ FlushCheckLen \/ FlushCheckDropped \/ FlushLock
  BY <1>2, QuietChannel DEF SendLock, SendRecheck, FlushCheckLen, FlushCheckDropped, FlushLock
<1>3. CASE FlushReadDropped \/ UNCHANGED vars \/ \E o \in Outcomes : FlushSummary(o)
  BY <1>3, QuietChannel DEF FlushReadDropped, vars, FlushSummary, FlushReturn
<1> QED
  BY <1>1, <1>2, <1>3, SendDirectChannel, SendPushChannel, FlushSendChannel,
     FlushQueueChannel, ProcessChannel DEF Next, SenderStep, FlusherStep

\* The queue stays full under an alert the cap took from the flusher.
LEMMA FullStep ==
  ASSUME TypeOK, Capacity, Shape, FullInv, [Next]_vars
  PROVE  FullInv'
<1> USE DEF historyVars, threadVars, queueVars
<1>1. CASE SendPush
  <2>1. q' = Push(q, handed) /\ UNCHANGED <<flusher, front>> /\ sender = "push"
    BY <1>1 DEF SendPush
  <2>2. SUFFICES ASSUME flusher = "sending", front.event \notin Events(q')
                 PROVE  Len(q'.entries) = Max
    BY <2>1 DEF FullInv
  <2>3. Len(q.entries) = Max
    <3>1. \/ (Events(q) \union {handed}) \ Events(q') = {}
          \/ Len(q.entries) = Max
      BY <2>1, PushCapped DEF Shape
    <3> QED
      BY <2>2, <3>1 DEF FullInv
  <2> QED
    BY <2>1, <2>3, PushEffect DEF TypeOK, Capacity
<1>2. CASE FlushFront
  <2>1. CASE q.entries = <<>>
    BY <1>2, <2>1 DEF FlushFront, FlushReturn, FullInv
  <2>2. CASE q.entries # <<>>
    <3>1. front'.event = q.entries[1].event /\ 1 \in DOMAIN q.entries /\ q' = q
      <4>1. q.entries \in Seq(Entry)
        BY EntryType DEF TypeOK
      <4> QED
        BY <1>2, <2>2, <4>1 DEF FlushFront
    <3> QED
      BY <3>1 DEF Events, FullInv
  <2> QED
    BY <2>1, <2>2
<1>3. CASE flusher' # "sending"
  BY <1>3 DEF FullInv
<1>4. CASE flusher' = flusher /\ UNCHANGED <<q, front>>
  BY <1>4 DEF FullInv, Events
<1>5. CASE SendCheck \/ SendLock \/ SendRecheck \/ \E o \in Outcomes : SendDirect(o)
  BY <1>4, <1>5 DEF SendCheck, SendLock, SendRecheck, SendDirect
<1>6. CASE FlushCheckLen \/ FlushCheckDropped \/ FlushLock \/ FlushReadDropped \/ FlushReset
  BY <1>3, <1>6 DEF FlushCheckLen, FlushCheckDropped, FlushLock, FlushReadDropped, FlushReset
<1>7. CASE FlushRemove \/ Crash \/ UNCHANGED vars \/ \E o \in Outcomes : FlushSummary(o) \/ FlushSend(o)
  BY <1>3, <1>4, <1>7 DEF FlushRemove, Crash, vars, FlushSummary, FlushSend, FlushReturn
<1>8. CASE Restart
  BY <1>3, <1>8 DEF Restart, Shape, LockInv
<1> QED
  BY <1>1, <1>2, <1>5, <1>6, <1>7, <1>8 DEF Next, SenderStep, FlusherStep

\* README.md, "Offline Queue": for every cap, every number of alerts and every
\* budget of faults, the notifier of notifier.go and queue.go implements
\* AlertChannel (order, no silent loss, a bounded backlog) in every behaviour in
\* which each read and write of the file succeeds.
THEOREM ChannelTheorem == Spec /\ [](faults["disk"] = 0) => ImplementsChannel
<1>1. Init => Channel!Init /\ FullInv
  BY DEF Init, Channel!Init, FullInv, Unsettled, Queued, Events, NewQueue, InFlight, InSend
<1>2. TypeOK /\ Capacity /\ Shape /\ FullInv /\ [Next]_vars => FullInv'
  BY FullStep
<1>3. Known <=> /\ TypeOK /\ Capacity /\ Shape /\ OrderInv /\ Account /\ FullInv
                /\ faults["disk"] = 0
  BY DEF Known
<1>4. Known /\ Known' /\ [Next]_vars => [Channel!Next]_(Channel!vars)
  BY ChannelStep
<1> QED
  BY <1>1, <1>2, <1>3, <1>4, TypeCorrect, ShapeInvariant, OrderInvariant, AccountInvariant, PTL
     DEF Spec, ImplementsChannel, Channel!Spec
=============================================================================
