--------------------------- MODULE SourcesProofs ----------------------------
(***************************************************************************)
(* Proofs about the parsers' memory, for any lines, thresholds and times,  *)
(* and for a tracker of any size: its two parts agree, a brute force is    *)
(* reported exactly when it is one, and a failing unit once.               *)
(***************************************************************************)
EXTENDS Sources, SequenceTheorems, FiniteSetTheorems, FunctionTheorems,
        WellFoundedInduction, TLAPS

(* A nonempty set of numbers has a least one. *)
LEMMA LeastExists ==
  ASSUME NEW S \in SUBSET Nat, S # {}
  PROVE  \E i \in S : \A j \in S : i <= j
<1>1. \E i \in S : \A j \in S : ~(<<j, i>> \in OpToRel(<, Nat))
  BY NatLessThanWellFounded, WFMin
<1>2. PICK i \in S : \A j \in S : ~(<<j, i>> \in OpToRel(<, Nat))
  BY <1>1
<1>3. \A j \in S : ~(j < i)
  BY <1>2 DEF OpToRel
<1> QED
  BY <1>3

(* Induction up to n, with a set for the predicate. *)
LEMMA InductionUpTo ==
  ASSUME NEW n \in Nat, NEW S, 0 \in S, \A i \in 1 .. n : i - 1 \in S => i \in S
  PROVE  0 .. n \subseteq S
<1> SUFFICES ASSUME (0 .. n) \ S # {}
             PROVE  FALSE
  OBVIOUS
<1>0. (0 .. n) \ S \in SUBSET Nat
  OBVIOUS
<1>1. PICK m \in (0 .. n) \ S : \A j \in (0 .. n) \ S : m <= j
  BY <1>0, LeastExists
<1>2. m \in 1 .. n /\ m - 1 \in 0 .. n
  BY <1>1
<1>3. m - 1 \in S
  BY <1>1, <1>2
<1> QED
  BY <1>1, <1>2, <1>3
-----------------------------------------------------------------------------
(***************************************************************************)
(* The loop of isBruteforce, without its recursive function.               *)
(***************************************************************************)

\* f is what the loop has kept of times after each step, what is after c.
IsKept(f, times, c) ==
  f = [i \in 0..Len(times) |->
         IF i = 0 THEN <<>>
         ELSE IF times[i] > c THEN Append(f[i - 1], times[i]) ELSE f[i - 1]]

\* s is what is after c of the first n times, each where g says.
Keeps(s, times, n, c) ==
  /\ s \in Seq(Nat)
  /\ \E g \in [1..Len(s) -> 1..n] :
       /\ \A j, k \in 1..Len(s) : g[j] = g[k] => j = k
       /\ \A j \in 1..Len(s) : s[j] = times[g[j]] /\ times[g[j]] > c
       /\ \A i \in 1..n : times[i] > c => \E j \in 1..Len(s) : g[j] = i

(* The recursion is well defined. *)
LEMMA KeptExists ==
  ASSUME NEW times \in Seq(Nat), NEW c \in Int
  PROVE  \E f : IsKept(f, times, c)
<1> DEFINE Next0(f, i) == IF i = 0 THEN <<>>
                          ELSE IF times[i] > c THEN Append(f[i - 1], times[i]) ELSE f[i - 1]
           S == {n \in 0 .. Len(times) : \E f \in [0 .. n -> Seq(Nat)] :
                   \A i \in 0 .. n : f[i] = Next0(f, i)}
<1>1. Len(times) \in Nat
  BY LenProperties
<1>2. 0 \in S
  <2> DEFINE e == [i \in 0 .. 0 |-> <<>>]
  <2>1. e \in [0 .. 0 -> Seq(Nat)]
    BY EmptySeq
  <2>2. ASSUME NEW i \in 0 .. 0
        PROVE  e[i] = Next0(e, i)
    <3>1. i = 0
      OBVIOUS
    <3> QED
      BY <3>1
  <2> HIDE DEF e, Next0
  <2>3. \E f \in [0 .. 0 -> Seq(Nat)] : \A i \in 0 .. 0 : f[i] = Next0(f, i)
    BY <2>1, <2>2
  <2> QED
    BY <1>1, <2>3
<1>3. ASSUME NEW n \in 1 .. Len(times), n - 1 \in S
      PROVE  n \in S
  <2>1. n - 1 \in 0 .. Len(times) /\ n \in 0 .. Len(times) /\ n \in Nat
    BY <1>1
  <2>2. PICK f \in [0 .. n - 1 -> Seq(Nat)] : \A i \in 0 .. n - 1 : f[i] = Next0(f, i)
    BY <1>3
  <2> DEFINE y == Next0(f, n)
             g == [i \in 0 .. n |-> IF i = n THEN y ELSE f[i]]
  <2>3. y \in Seq(Nat)
    <3>1. f[n - 1] \in Seq(Nat) /\ times[n] \in Nat
      BY <2>1, <2>2, ElementOfSeq
    <3>2. Append(f[n - 1], times[n]) \in Seq(Nat)
      BY <3>1, AppendProperties
    <3> QED
      BY <2>1, <3>1, <3>2
  <2>4. g \in [0 .. n -> Seq(Nat)]
    <3> HIDE DEF y
    <3> QED
      BY <2>1, <2>2, <2>3
  <2>5. ASSUME NEW i \in 0 .. n
        PROVE  g[i] = Next0(g, i)
    <3>1. CASE i = 0
      BY <2>1, <2>2, <3>1
    <3>2. CASE i # 0
      <4>1. i - 1 \in 0 .. n /\ i - 1 # n /\ g[i - 1] = f[i - 1]
        BY <2>1, <3>2
      <4>2. Next0(g, i) = Next0(f, i)
        BY <3>2, <4>1
      <4>3. g[i] = Next0(f, i)
        <5>1. CASE i = n
          BY <5>1
        <5>2. CASE i # n
          <6>1. i \in 0 .. n - 1
            BY <2>1, <5>2
          <6>2. f[i] = Next0(f, i)
            BY <2>2, <6>1
          <6> QED
            BY <5>2, <6>2
        <5> QED
          BY <5>1, <5>2
      <4> QED
        BY <4>2, <4>3
    <3> QED
      BY <3>1, <3>2
  <2> HIDE DEF g
  <2> QED
    BY <2>1, <2>4, <2>5
<1>4. Len(times) \in S
  <2> HIDE DEF S
  <2>1. 0 .. Len(times) \subseteq S
    BY <1>1, <1>2, <1>3, InductionUpTo
  <2> QED
    BY <1>1, <2>1
<1>5. PICK f \in [0 .. Len(times) -> Seq(Nat)] : \A i \in 0 .. Len(times) : f[i] = Next0(f, i)
  BY <1>4
<1>6. IsKept(f, times, c)
  BY <1>5 DEF IsKept
<1> QED
  BY <1>6

(* A step of the loop. *)
LEMMA KeepsStep ==
  ASSUME NEW times \in Seq(Nat), NEW n \in 1 .. Len(times), NEW c \in Int, NEW s,
         Keeps(s, times, n - 1, c)
  PROVE  Keeps(IF times[n] > c THEN Append(s, times[n]) ELSE s, times, n, c)
<1>1. s \in Seq(Nat) /\ Len(s) \in Nat /\ n \in Nat /\ times[n] \in Nat
  BY ElementOfSeq, LenProperties DEF Keeps
<1>2. PICK g \in [1..Len(s) -> 1..n - 1] :
        /\ \A j, k \in 1..Len(s) : g[j] = g[k] => j = k
        /\ \A j \in 1..Len(s) : s[j] = times[g[j]] /\ times[g[j]] > c
        /\ \A i \in 1..n - 1 : times[i] > c => \E j \in 1..Len(s) : g[j] = i
  BY DEF Keeps
<1>3. CASE ~(times[n] > c)
  <2>1. g \in [1..Len(s) -> 1..n]
    BY <1>1, <1>2
  <2>2. \A i \in 1..n : times[i] > c => i \in 1..n - 1
    BY <1>1, <1>3
  <2>3. Keeps(s, times, n, c)
    BY <1>1, <1>2, <2>1, <2>2 DEF Keeps
  <2> QED
    BY <1>3, <2>3
<1>4. CASE times[n] > c
  <2> DEFINE r == Append(s, times[n])
             h == [j \in 1..Len(s) + 1 |-> IF j = Len(s) + 1 THEN n ELSE g[j]]
  <2>1. /\ r \in Seq(Nat) /\ Len(r) = Len(s) + 1
        /\ \A j \in 1..Len(s) : r[j] = s[j]
        /\ r[Len(s) + 1] = times[n]
    BY <1>1, AppendProperties
  <2>2. ASSUME NEW j \in 1..Len(s)
        PROVE  j \in 1..Len(s) + 1 /\ h[j] = g[j] /\ g[j] \in 1..n - 1
    <3>1. j # Len(s) + 1 /\ j \in 1..Len(s) + 1
      BY <1>1
    <3>2. h[j] = g[j]
      BY <3>1
    <3> HIDE DEF h
    <3> QED
      BY <1>2, <3>1, <3>2
  <2>3. h[Len(s) + 1] = n /\ n \notin 1..n - 1
    BY <1>1
  <2>4. \A j \in 1..Len(s) + 1 : j \in 1..Len(s) \/ j = Len(s) + 1
    BY <1>1
  <2>5. h \in [1..Len(s) + 1 -> 1..n]
    BY <1>1, <1>2
  <2> HIDE DEF h, r
  <2>6. \A j, k \in 1..Len(s) + 1 : h[j] = h[k] => j = k
    BY <1>2, <2>2, <2>3, <2>4
  <2>7. \A j \in 1..Len(s) + 1 : r[j] = times[h[j]] /\ times[h[j]] > c
    BY <1>2, <1>4, <2>1, <2>2, <2>3, <2>4
  <2>8. ASSUME NEW i \in 1..n, times[i] > c
        PROVE  \E j \in 1..Len(s) + 1 : h[j] = i
    <3>1. CASE i = n
      BY <1>1, <2>3, <3>1
    <3>2. CASE i # n
      <4>1. PICK j \in 1..Len(s) : g[j] = i
        BY <1>1, <1>2, <2>8, <3>2
      <4> QED
        BY <2>2, <4>1
    <3> QED
      BY <3>1, <3>2
  <2>9. /\ h \in [1..Len(r) -> 1..n]
        /\ \A j, k \in 1..Len(r) : h[j] = h[k] => j = k
        /\ \A j \in 1..Len(r) : r[j] = times[h[j]] /\ times[h[j]] > c
        /\ \A i \in 1..n : times[i] > c => \E j \in 1..Len(r) : h[j] = i
    BY <2>1, <2>5, <2>6, <2>7, <2>8
  <2>10. Keeps(r, times, n, c)
    BY <2>1, <2>9 DEF Keeps
  <2> QED
    BY <1>4, <2>10 DEF r
<1> QED
  BY <1>3, <1>4

(* What the loop keeps. *)
LEMMA KeptResult ==
  ASSUME NEW times \in Seq(Nat), NEW c \in Int, NEW f, IsKept(f, times, c)
  PROVE  Keeps(f[Len(times)], times, Len(times), c)
<1> DEFINE S == {n \in 0 .. Len(times) : Keeps(f[n], times, n, c)}
<1>1. Len(times) \in Nat
  BY LenProperties
<1>2. \A i \in 0..Len(times) :
        f[i] = IF i = 0 THEN <<>>
               ELSE IF times[i] > c THEN Append(f[i - 1], times[i]) ELSE f[i - 1]
  BY DEF IsKept
<1>3. 0 \in S
  <2>1. f[0] = <<>> /\ <<>> \in Seq(Nat) /\ Len(<<>>) = 0
    BY <1>1, <1>2, EmptySeq
  <2>2. 1..0 = {}
    OBVIOUS
  <2>3. [j \in 1..0 |-> 1] \in [1..0 -> 1..0]
    BY <2>2
  <2>4. Keeps(f[0], times, 0, c)
    BY <2>1, <2>2, <2>3 DEF Keeps
  <2> QED
    BY <1>1, <2>4
<1>4. ASSUME NEW n \in 1 .. Len(times), n - 1 \in S
      PROVE  n \in S
  <2>1. n \in 0 .. Len(times) /\ n # 0
    BY <1>1
  <2>2. f[n] = IF times[n] > c THEN Append(f[n - 1], times[n]) ELSE f[n - 1]
    BY <1>2, <2>1
  <2>3. Keeps(f[n], times, n, c)
    BY <1>4, <2>2, KeepsStep
  <2> QED
    BY <2>1, <2>3
<1> HIDE DEF S
<1>5. 0 .. Len(times) \subseteq S
  BY <1>1, <1>3, <1>4, InductionUpTo
<1> QED
  BY <1>1, <1>5 DEF S

(* The failures within the window, one after the other, and the one of now. *)
LEMMA ActiveResult ==
  ASSUME NEW times \in Seq(Nat), NEW t \in Nat
  PROVE  \E s : Keeps(s, times, Len(times), t - Window) /\ Active(times, t) = Append(s, t)
<1>1. t - Window \in Int
  BY ParsersAssumption
<1> DEFINE f == CHOOSE f : IsKept(f, times, t - Window)
<1>2. IsKept(f, times, t - Window)
  BY <1>1, KeptExists
<1>3. Active(times, t) = Append(f[Len(times)], t)
  BY DEF Active, IsKept
<1> HIDE DEF f
<1> QED
  BY <1>1, <1>2, <1>3, KeptResult
-----------------------------------------------------------------------------
(***************************************************************************)
(* The tracker.                                                            *)
(***************************************************************************)

\* Its two parts agree.
TrackerOK(t) ==
  /\ t.keys \in Seq(DOMAIN t.ips)
  /\ ToSet(t.keys) = DOMAIN t.ips
  /\ IsInjective(t.keys)
  /\ IsFiniteSet(DOMAIN t.ips) /\ Cardinality(DOMAIN t.ips) = Len(t.keys)
  /\ \A ip \in DOMAIN t.ips : t.ips[ip] \in Seq(Nat) /\ t.ips[ip] # <<>>

LEMMA NewTrackerOK == TrackerOK(NewTracker) /\ DOMAIN NewTracker.ips = {} /\ Len(NewTracker.keys) = 0
<1>1. NewTracker.keys = <<>> /\ DOMAIN NewTracker.ips = {}
  BY DEF NewTracker
<1>2. <<>> \in Seq({}) /\ Len(<<>>) = 0
  BY EmptySeq
<1>3. DOMAIN <<>> = {}
  BY <1>2, LenProperties
<1> QED
  BY <1>1, <1>2, <1>3, FS_EmptySet DEF TrackerOK, ToSet, IsInjective

(* Making room takes the oldest address from both parts, if it must. *)
LEMMA EvictResult ==
  ASSUME NEW t, TrackerOK(t), Len(t.keys) <= MaxIPs
  PROVE  /\ TrackerOK(Evict(t))
         /\ Len(Evict(t).keys) < MaxIPs
         /\ DOMAIN Evict(t).ips \subseteq DOMAIN t.ips
         /\ \A k \in DOMAIN Evict(t).ips : Evict(t).ips[k] = t.ips[k]
         /\ Len(t.keys) < MaxIPs => Evict(t) = t
<1>1. MaxIPs \in Nat /\ MaxIPs > 0
  BY ParsersAssumption
<1>2. Len(t.keys) \in Nat /\ DOMAIN t.keys = 1..Len(t.keys)
  BY LenProperties DEF TrackerOK
<1>3. CASE Len(t.keys) < MaxIPs
  BY <1>3 DEF TrackerOK, Evict
<1>4. CASE ~(Len(t.keys) < MaxIPs)
  <2> DEFINE D == DOMAIN t.ips \ {t.keys[1]}
             r == [ips |-> [ip \in D |-> t.ips[ip]], keys |-> Tail(t.keys)]
  <2>1. Evict(t) = r
    BY <1>4 DEF TrackerOK, Evict
  <2>2. t.keys # <<>>
    BY <1>1, <1>4, EmptySeq
  <2>3. /\ r.keys \in Seq(DOMAIN t.ips) /\ Len(r.keys) = Len(t.keys) - 1
        /\ \A i \in 1 .. Len(r.keys) : r.keys[i] = t.keys[i + 1]
    BY <2>2, HeadTailProperties DEF TrackerOK
  <2>4. /\ r.ips = [ip \in D |-> t.ips[ip]]
        /\ DOMAIN r.ips = D /\ \A ip \in D : r.ips[ip] = t.ips[ip]
    OBVIOUS
  <2>5. Len(r.keys) \in Nat /\ DOMAIN r.keys = 1..Len(r.keys)
    BY <2>3, LenProperties
  <2> HIDE DEF r
  <2>6. \A i, j \in 1..Len(t.keys) : t.keys[i] = t.keys[j] => i = j
    BY <1>2 DEF TrackerOK, IsInjective
  <2>7. 1 \in 1..Len(t.keys)
    BY <1>1, <1>2, <1>4
  <2>8. \A i \in 1..Len(r.keys) : i + 1 \in 1..Len(t.keys) /\ i + 1 # 1
    BY <1>2, <2>3, <2>5
  <2>9. IsInjective(r.keys)
    <3>1. ASSUME NEW i \in 1..Len(r.keys), NEW j \in 1..Len(r.keys), r.keys[i] = r.keys[j]
          PROVE  i = j
      <4>1. i + 1 = j + 1
        BY <2>3, <2>6, <2>8, <3>1
      <4> QED
        BY <2>5, <4>1
    <3> QED
      BY <2>5, <3>1 DEF IsInjective
  <2>10. ToSet(r.keys) = D
    <3>1. \A k \in DOMAIN t.ips : \E i \in 1..Len(t.keys) : t.keys[i] = k
      BY <1>2 DEF TrackerOK, ToSet
    <3>2. \A i \in 1..Len(t.keys) : t.keys[i] \in DOMAIN t.ips
      BY <1>2 DEF TrackerOK, ToSet
    <3>3. \A i \in 1..Len(r.keys) : r.keys[i] \in D
      BY <2>3, <2>6, <2>7, <2>8, <3>2
    <3>4. ASSUME NEW k \in D
          PROVE  \E i \in 1..Len(r.keys) : r.keys[i] = k
      <4>1. PICK i \in 1..Len(t.keys) : t.keys[i] = k
        BY <3>1
      <4>2. i # 1
        BY <4>1
      <4>3. i - 1 \in 1..Len(r.keys) /\ (i - 1) + 1 = i
        BY <1>2, <2>3, <4>2
      <4> QED
        BY <2>3, <4>1, <4>3
    <3> QED
      BY <2>5, <3>3, <3>4 DEF ToSet
  <2>11. r.keys \in Seq(D)
    <3>1. \A i \in 1..Len(r.keys) : r.keys[i] \in D
      BY <2>5, <2>10 DEF ToSet
    <3>2. r.keys \in [1..Len(r.keys) -> D]
      BY <2>3, <3>1, LenProperties
    <3> QED
      BY <2>5, <3>2, SeqDef
  <2>12. t.keys[1] \in DOMAIN t.ips
    BY <1>2, <2>7 DEF TrackerOK, ToSet
  <2>13. IsFiniteSet(D) /\ Cardinality(D) = Len(t.keys) - 1
    <3>1. IsFiniteSet(DOMAIN t.ips) /\ Cardinality(DOMAIN t.ips) = Len(t.keys)
      BY DEF TrackerOK
    <3> DEFINE k == t.keys[1]
    <3>2. k \in DOMAIN t.ips /\ D = DOMAIN t.ips \ {k}
      BY <2>12
    <3> HIDE DEF k, D
    <3> QED
      BY <3>1, <3>2, FS_RemoveElement
  <2>14. \A ip \in D : r.ips[ip] \in Seq(Nat) /\ r.ips[ip] # <<>>
    BY <2>4 DEF TrackerOK
  <2>15. TrackerOK(r)
    BY <2>3, <2>4, <2>9, <2>10, <2>11, <2>13, <2>14 DEF TrackerOK
  <2>16. Len(r.keys) < MaxIPs
    BY <1>1, <1>2, <2>3
  <2> QED
    BY <1>4, <2>1, <2>4, <2>15, <2>16
<1> QED
  BY <1>3, <1>4

(* A failure of ip is added to the times of ip that are within the window. *)
LEMMA TrackResult ==
  ASSUME NEW t, TrackerOK(t), Len(t.keys) <= MaxIPs, NEW ip, NEW clock \in Nat
  PROVE  /\ TrackerOK(Track(t, ip, clock))
         /\ Len(Track(t, ip, clock).keys) <= MaxIPs
         /\ ip \in DOMAIN Track(t, ip, clock).ips
         /\ Track(t, ip, clock).ips[ip] =
              Active(IF ip \in DOMAIN t.ips THEN t.ips[ip] ELSE <<>>, clock)
         /\ \A k \in DOMAIN Track(t, ip, clock).ips \ {ip} :
              k \in DOMAIN t.ips /\ Track(t, ip, clock).ips[k] = t.ips[k]
         /\ ip \in DOMAIN t.ips \/ Len(t.keys) < MaxIPs
              => DOMAIN t.ips \subseteq DOMAIN Track(t, ip, clock).ips
<1> DEFINE r   == Track(t, ip, clock)
           old == IF ip \in DOMAIN t.ips THEN t.ips[ip] ELSE <<>>
           a   == Active(old, clock)
           room == IF ip \in DOMAIN t.ips THEN t ELSE Evict(t)
<1>1. old \in Seq(Nat)
  BY EmptySeq DEF TrackerOK
<1>2. a \in Seq(Nat) /\ a # <<>>
  <2>1. PICK s : Keeps(s, old, Len(old), clock - Window) /\ Active(old, clock) = Append(s, clock)
    BY <1>1, ActiveResult
  <2>2. s \in Seq(Nat)
    BY <2>1 DEF Keeps
  <2> QED
    BY <2>1, <2>2, AppendProperties
<1>3. /\ r.ips = [k \in DOMAIN room.ips \union {ip} |-> IF k = ip THEN a ELSE room.ips[k]]
      /\ r.keys = IF ip \in DOMAIN t.ips THEN t.keys ELSE Append(room.keys, ip)
  BY DEF Track
<1>4. /\ TrackerOK(room)
      /\ DOMAIN room.ips \subseteq DOMAIN t.ips
      /\ \A k \in DOMAIN room.ips : room.ips[k] = t.ips[k]
      /\ ip \in DOMAIN t.ips \/ Len(t.keys) < MaxIPs => room = t
      /\ ip \in DOMAIN t.ips => Len(room.keys) <= MaxIPs
      /\ ip \notin DOMAIN t.ips => Len(room.keys) < MaxIPs
  BY EvictResult
<1>5. ip \in DOMAIN t.ips => room = t
  OBVIOUS
<1> HIDE DEF r, old, a, room
<1>6. DOMAIN r.ips = DOMAIN room.ips \union {ip}
  BY <1>3
<1>7. r.ips[ip] = a /\ \A k \in DOMAIN room.ips \ {ip} : r.ips[k] = room.ips[k]
  BY <1>3
<1>8. \A k \in DOMAIN r.ips : r.ips[k] \in Seq(Nat) /\ r.ips[k] # <<>>
  BY <1>2, <1>4, <1>6, <1>7 DEF TrackerOK
<1>9. TrackerOK(r) /\ Len(r.keys) <= MaxIPs
  <2>1. CASE ip \in DOMAIN t.ips
    <3>1. DOMAIN r.ips = DOMAIN t.ips /\ r.keys = t.keys
      BY <1>3, <1>5, <1>6, <2>1
    <3> QED
      BY <1>8, <3>1 DEF TrackerOK
  <2>2. CASE ip \notin DOMAIN t.ips
    <3> DEFINE D == DOMAIN room.ips \union {ip}
               n == Len(room.keys)
    <3>1. r.keys = Append(room.keys, ip) /\ ip \notin DOMAIN room.ips
      BY <1>3, <1>4, <2>2
    <3>2. room.keys \in Seq(D) /\ n \in Nat /\ DOMAIN room.keys = 1..n
      <4>1. room.keys \in Seq(DOMAIN room.ips)
        BY <1>4 DEF TrackerOK
      <4>2. n \in Nat /\ DOMAIN room.keys = 1..n /\ room.keys \in [1..n -> DOMAIN room.ips]
        BY <4>1, LenProperties
      <4>3. room.keys \in [1..n -> D]
        BY <4>2
      <4> QED
        BY <4>2, <4>3, SeqDef
    <3>3. /\ r.keys \in Seq(D) /\ Len(r.keys) = n + 1
          /\ \A i \in 1..n : r.keys[i] = room.keys[i]
          /\ r.keys[n + 1] = ip
      BY <3>1, <3>2, AppendProperties
    <3>4. DOMAIN r.keys = 1..n + 1
      BY <3>3, LenProperties
    <3>5. \A i \in 1..n + 1 : i \in 1..n \/ i = n + 1
      BY <3>2
    <3>6. \A i \in 1..n : room.keys[i] \in DOMAIN room.ips
      BY <1>4, <3>2 DEF TrackerOK, ToSet
    <3>7. n + 1 \in 1..n + 1 /\ \A i \in 1..n : i \in 1..n + 1
      BY <3>2
    <3> HIDE DEF n
    <3>8. ToSet(r.keys) = D
      <4>1. \A k \in DOMAIN room.ips : \E i \in 1..n : room.keys[i] = k
        BY <1>4, <3>2 DEF TrackerOK, ToSet
      <4>2. \A k \in D : \E i \in 1..n + 1 : r.keys[i] = k
        BY <3>3, <3>7, <4>1
      <4>3. \A i \in 1..n + 1 : r.keys[i] \in D
        BY <3>3, <3>5, <3>6
      <4> QED
        BY <3>4, <4>2, <4>3 DEF ToSet
    <3>9. IsInjective(r.keys)
      <4>1. \A i, j \in 1..n : room.keys[i] = room.keys[j] => i = j
        BY <1>4, <3>2 DEF TrackerOK, IsInjective
      <4>2. \A i, j \in 1..n + 1 : r.keys[i] = r.keys[j] => i = j
        BY <3>1, <3>3, <3>5, <3>6, <4>1
      <4> QED
        BY <3>4, <4>2 DEF IsInjective
    <3>10. IsFiniteSet(D) /\ Cardinality(D) = n + 1
      BY <1>4, <3>1, FS_AddElement DEF TrackerOK, n
    <3>11. TrackerOK(r)
      BY <1>6, <1>8, <3>3, <3>8, <3>9, <3>10 DEF TrackerOK
    <3>12. Len(r.keys) <= MaxIPs
      <4>1. n < MaxIPs /\ MaxIPs \in Nat
        BY <1>4, <2>2, ParsersAssumption DEF n
      <4> QED
        BY <3>2, <3>3, <4>1
    <3> QED
      BY <3>11, <3>12
  <2> QED
    BY <2>1, <2>2
<1>10. \A k \in DOMAIN r.ips \ {ip} : k \in DOMAIN t.ips /\ r.ips[k] = t.ips[k]
  BY <1>4, <1>6, <1>7
<1>11. ip \in DOMAIN t.ips \/ Len(t.keys) < MaxIPs => DOMAIN t.ips \subseteq DOMAIN r.ips
  BY <1>4, <1>6
<1> QED
  BY <1>6, <1>7, <1>9, <1>10, <1>11 DEF r, a, old
-----------------------------------------------------------------------------
(***************************************************************************)
(* What the parsers remember of failing units.                             *)
(***************************************************************************)

\* What was reported is remembered, until it is too old to matter.
FailureInv ==
  /\ now \in Nat
  /\ \A u \in DOMAIN alerted : alerted[u] \in 0..now
  /\ DOMAIN lastFailure \subseteq DOMAIN alerted \intersect Units
  /\ \A u \in DOMAIN lastFailure : lastFailure[u] = alerted[u]
  /\ \A u \in DOMAIN alerted \ DOMAIN lastFailure : now - alerted[u] >= DedupWindow

\* What a failure of unit u, reported at this time, makes of the two.
Reported(u) ==
  /\ lastFailure' = markFailed(lastFailure, u, now)
  /\ alerted' = [v \in DOMAIN alerted \union {u} |-> IF v = u THEN now ELSE alerted[v]]

LEMMA FailureInit == Init => FailureInv
BY DEF Init, FailureInv

\* Steps that leave the memory alone.  The clock goes on.
LEMMA FailureFrame ==
  ASSUME FailureInv, UNCHANGED <<lastFailure, alerted>>, now' = now \/ now' = now + 1
  PROVE  FailureInv'
<1>1. DedupWindow \in Nat
  BY ParsersAssumption
<1>2. now' \in Nat /\ now <= now'
  BY DEF FailureInv
<1>3. \A u \in DOMAIN alerted : alerted[u] \in Nat /\ alerted[u] <= now
  BY DEF FailureInv
<1>4. \A u \in DOMAIN alerted : alerted[u] \in 0..now'
  BY <1>2, <1>3 DEF FailureInv
<1>5. \A u \in DOMAIN alerted \ DOMAIN lastFailure : now' - alerted[u] >= DedupWindow
  BY <1>1, <1>2, <1>3 DEF FailureInv
<1> QED
  BY <1>2, <1>4, <1>5 DEF FailureInv

LEMMA FailureReported ==
  ASSUME FailureInv, NEW u \in Units, Reported(u), now' = now
  PROVE  FailureInv'
<1>1. DedupWindow \in Nat /\ now \in Nat
  BY ParsersAssumption DEF FailureInv
<1> DEFINE R == {v \in DOMAIN lastFailure : now - lastFailure[v] < DedupWindow}
<1>2. /\ lastFailure' = [v \in R \union {u} |-> IF v = u THEN now ELSE lastFailure[v]]
      /\ alerted' = [v \in DOMAIN alerted \union {u} |-> IF v = u THEN now ELSE alerted[v]]
  BY DEF Reported, markFailed
<1>3. /\ DOMAIN lastFailure' = R \union {u} /\ lastFailure'[u] = now
      /\ \A v \in R \ {u} : lastFailure'[v] = lastFailure[v]
  BY <1>2
<1>4. /\ DOMAIN alerted' = DOMAIN alerted \union {u} /\ alerted'[u] = now
      /\ \A v \in DOMAIN alerted \ {u} : alerted'[v] = alerted[v]
  BY <1>2
<1>5. R \subseteq DOMAIN lastFailure
      /\ \A v \in DOMAIN lastFailure \ R : ~(now - lastFailure[v] < DedupWindow)
  OBVIOUS
<1> HIDE DEF R
<1>6. \A v \in DOMAIN alerted' : alerted'[v] \in 0..now
  BY <1>1, <1>4 DEF FailureInv
<1>7. DOMAIN lastFailure' \subseteq DOMAIN alerted' \intersect Units
  BY <1>3, <1>4, <1>5 DEF FailureInv
<1>8. \A v \in DOMAIN lastFailure' : lastFailure'[v] = alerted'[v]
  BY <1>3, <1>4, <1>5 DEF FailureInv
<1>9. ASSUME NEW v \in DOMAIN alerted' \ DOMAIN lastFailure'
      PROVE  now - alerted'[v] >= DedupWindow
  <2>1. v \in DOMAIN alerted /\ v # u /\ v \notin R /\ alerted'[v] = alerted[v]
    BY <1>3, <1>4
  <2>2. alerted[v] \in Nat
    BY <2>1 DEF FailureInv
  <2>3. CASE v \in DOMAIN lastFailure
    BY <1>1, <1>5, <2>1, <2>2, <2>3 DEF FailureInv
  <2>4. CASE v \notin DOMAIN lastFailure
    BY <2>1, <2>4 DEF FailureInv
  <2> QED
    BY <2>3, <2>4
<1> QED
  BY <1>6, <1>7, <1>8, <1>9 DEF FailureInv

\* A parser's step reports a failing unit of the services, or remembers nothing.
LEMMA ParseMemory ==
  ASSUME Parse
  PROVE  \/ Head(todo) = "systemd" /\ Considered(line) /\ Subject(line) \in Units /\ Reported(Subject(line))
         \/ UNCHANGED <<lastFailure, alerted>>
<1> DEFINE e == ParseSystemd(line, lastFailure, now)
<1>1. CASE Head(todo) = "systemd" /\ e # NoEvent /\ line.kind = "failed"
  <2>1. Reported(Subject(line))
    BY <1>1 DEF Parse, Reported
  <2>2. Considered(line) /\ Subject(line) \in Units
    BY <1>1 DEF ParseSystemd, Considered
  <2> QED
    BY <1>1, <2>1, <2>2
<1>2. CASE ~(Head(todo) = "systemd" /\ e # NoEvent /\ line.kind = "failed")
  BY <1>2 DEF Parse
<1> QED
  BY <1>1, <1>2

LEMMA FailureStep == FailureInv /\ [Next]_vars => FailureInv'
<1> SUFFICES ASSUME FailureInv, [Next]_vars
             PROVE  FailureInv'
  OBVIOUS
<1>1. CASE Parse
  <2>1. now' = now
    BY <1>1 DEF Parse
  <2> QED
    BY <1>1, <2>1, ParseMemory, FailureFrame, FailureReported
<1>2. CASE ~Parse
  <2>1. UNCHANGED <<lastFailure, alerted>> /\ (now' = now \/ now' = now + 1)
    BY <1>2 DEF Next, Write, ReadLine, PublishJournal, LineDone, JournalEnds, DockerConnect,
         DockerDecode, DockerPublish, DockerBroken, DockerRetry, DockerChange, Docker,
         NetworkReceive, Tick, Cancel, vars, jVars, dVars
  <2> QED
    BY <2>1, FailureFrame
<1> QED
  BY <1>1, <1>2

(* What the parser of systemd remembers is what it reported, as long as    *)
(* that can make a failure a repetition (markFailed of systemd.go).        *)
LEMMA FailureInvariant == Spec => []FailureInv
BY FailureInit, FailureStep, PTL DEF Spec

(* A failing unit is reported for every result and every failed            *)
(* dependency, and for a "Failed to start" exactly when it was not         *)
(* reported within the ten seconds before, for any lines, times, watch     *)
(* list and window: what markFailed forgets could suppress nothing.        *)
THEOREM FailureTheorem == Spec => FailureReportedOnce
<1>1. ASSUME FailureInv, Next, jpc = "parsing", todo # <<>>, todo' # todo,
             Head(todo) = "systemd", IsFailure(line)
      PROVE  jevent'.type = "SERVICE_FAILED"
               <=> (line.detail # "" \/ ~(Subject(line) \in DOMAIN alerted
                                          /\ now - alerted[Subject(line)] < DedupWindow))
  <2> DEFINE u == Subject(line)
             e == ParseSystemd(line, lastFailure, now)
  <2>1. Parse
    BY <1>1 DEF Next, Write, ReadLine, PublishJournal, LineDone, JournalEnds, DockerConnect,
         DockerDecode, DockerPublish, DockerBroken, DockerRetry, DockerChange, Docker,
         NetworkReceive, Tick, Cancel, vars, jVars, dVars
  <2>2. jevent' = e
    BY <1>1, <2>1 DEF Parse
  <2>3. recentlyFailed(lastFailure, u, now)
          <=> (u \in DOMAIN alerted /\ now - alerted[u] < DedupWindow)
    <3>1. CASE u \in DOMAIN lastFailure
      <4>1. u \in DOMAIN alerted /\ lastFailure[u] = alerted[u]
        BY <1>1, <3>1 DEF FailureInv
      <4> QED
        BY <3>1, <4>1 DEF recentlyFailed
    <3>2. CASE u \notin DOMAIN lastFailure /\ u \in DOMAIN alerted
      <4>1. alerted[u] \in Nat /\ now \in Nat /\ DedupWindow \in Nat /\ now - alerted[u] >= DedupWindow
        BY <1>1, <3>2, ParsersAssumption DEF FailureInv
      <4> QED
        BY <3>2, <4>1 DEF recentlyFailed
    <3>3. CASE u \notin DOMAIN lastFailure /\ u \notin DOMAIN alerted
      BY <3>3 DEF recentlyFailed
    <3> QED
      BY <3>1, <3>2, <3>3
  <2>4. e.type = "SERVICE_FAILED" <=> ~(line.detail = "" /\ recentlyFailed(lastFailure, u, now))
    <3>1. Considered(line) /\ line.kind = "failed"
      BY <1>1 DEF IsFailure
    <3>2. CASE Suppressed(line, lastFailure, now)
      <4>1. e = NoEvent
        BY <3>1, <3>2 DEF ParseSystemd
      <4>2. NoEvent.type # "SERVICE_FAILED"
        BY DEF NoEvent
      <4> QED
        BY <3>2, <4>1, <4>2 DEF Suppressed
    <3>3. CASE ~Suppressed(line, lastFailure, now)
      <4>1. e = [Event("systemd", SystemdKinds[line.kind], Subject(line)) EXCEPT !.detail = line.detail]
        BY <3>1, <3>3 DEF ParseSystemd
      <4>2. e.type = "SERVICE_FAILED"
        <5>1. SystemdKinds["failed"] = "SERVICE_FAILED"
          BY DEF SystemdKinds
        <5>2. SystemdKinds[line.kind] = "SERVICE_FAILED"
          BY <3>1, <5>1
        <5> DEFINE k == SystemdKinds[line.kind]
        <5>3. e.type = k
          <6> HIDE DEF k
          <6>1. e = [Event("systemd", k, Subject(line)) EXCEPT !.detail = line.detail]
            BY <4>1 DEF k
          <6> HIDE DEF e
          <6> QED
            BY <6>1 DEF Event
        <5> HIDE DEF e
        <5> QED
          BY <5>2, <5>3 DEF k
      <4> QED
        BY <3>3, <4>2 DEF Suppressed
    <3> QED
      BY <3>2, <3>3
  <2> HIDE DEF u, e
  <2>5. jevent'.type = "SERVICE_FAILED"
          <=> (line.detail # "" \/ ~(u \in DOMAIN alerted /\ now - alerted[u] < DedupWindow))
    BY <2>2, <2>3, <2>4
  <2> QED
    BY <2>5 DEF u
<1>2. FailureInv /\ [Next]_vars =>
        [jpc = "parsing" /\ todo # <<>> /\ todo' # todo /\ Head(todo) = "systemd" /\ IsFailure(line) =>
           LET u == Subject(line)
               recent == u \in DOMAIN alerted /\ now - alerted[u] < DedupWindow
           IN jevent'.type = "SERVICE_FAILED" <=> line.detail # "" \/ ~recent]_vars
  BY <1>1
<1> QED
  BY <1>2, FailureInvariant, PTL DEF Spec, FailureReportedOnce
-----------------------------------------------------------------------------
(***************************************************************************)
(* The tracker and the failed logins there were.                           *)
(***************************************************************************)

Abouts == {l.about : l \in Lines \union {NoLine}}
Attempt == [ip : Abouts, at : Nat]

\* There was room for all addresses.
Complete(h) == Cardinality(Addresses(h)) <= MaxIPs

\* Each time kept for ip is that of a failure of ip in history h, another for
\* each, and of those after c none is missing, if there was room.
Traces(times, ip, h, c) ==
  \E f \in [1..Len(times) -> 1..Len(h)] :
    /\ \A j, k \in 1..Len(times) : f[j] = f[k] => j = k
    /\ \A j \in 1..Len(times) : h[f[j]].ip = ip /\ h[f[j]].at = times[j]
    /\ Complete(h) => \A i \in 1..Len(h) : h[i].ip = ip /\ h[i].at > c
                                             => \E j \in 1..Len(times) : f[j] = i

SourcesTypes ==
  /\ now \in Nat
  /\ journal \in {<<>>} \union {<<l>> : l \in Lines}
  /\ line \in Lines \union {NoLine}
  /\ jpc \in {"reading", "parsing", "publishing", "ended"}
  /\ dpc \in {"connecting", "streaming", "publishing", "waiting", "stopped"}
  /\ attempts \in Seq(Attempt)
  /\ TrackerOK(tracker) /\ Len(tracker.keys) <= MaxIPs

TraceInv ==
  /\ \A ip \in DOMAIN tracker.ips : Traces(tracker.ips[ip], ip, attempts, now - Window)
  /\ Complete(attempts) => Addresses(attempts) \subseteq DOMAIN tracker.ips

(* One more failure adds its address. *)
LEMMA AddressesAppend ==
  ASSUME NEW h \in Seq(Attempt), NEW a \in Attempt
  PROVE  /\ Addresses(Append(h, a)) = Addresses(h) \union {a.ip}
         /\ IsFiniteSet(Addresses(h))
         /\ Complete(Append(h, a)) => Complete(h)
<1> DEFINE n == Len(h)
           q == Append(h, a)
<1>1. n \in Nat /\ DOMAIN h = 1..n
  BY LenProperties
<1>2. q \in Seq(Attempt) /\ Len(q) = n + 1 /\ (\A i \in 1..n : q[i] = h[i]) /\ q[n + 1] = a
  BY AppendProperties
<1>3. DOMAIN q = 1..n + 1
  BY <1>2, LenProperties
<1> HIDE DEF q, n
<1>4. \A i \in 1..n + 1 : i \in 1..n \/ i = n + 1
  BY <1>1
<1>5. n + 1 \in 1..n + 1 /\ \A i \in 1..n : i \in 1..n + 1
  BY <1>1
<1>6. Addresses(h) = {h[i].ip : i \in 1..n} /\ Addresses(q) = {q[i].ip : i \in 1..n + 1}
  BY <1>1, <1>3 DEF Addresses
<1>7. Addresses(q) = Addresses(h) \union {a.ip}
  BY <1>2, <1>4, <1>5, <1>6
<1>8. IsFiniteSet(Addresses(h))
  <2> DEFINE f == [i \in 1..n |-> h[i].ip]
  <2>1. f \in Surjection(1..n, Addresses(h))
    BY <1>6 DEF Surjection
  <2>2. IsFiniteSet(1..n)
    BY <1>1, FS_Interval
  <2> HIDE DEF f
  <2> QED
    BY <2>1, <2>2, FS_Surjection
<1>9. IsFiniteSet(Addresses(q)) /\ Addresses(h) \in SUBSET Addresses(q)
  BY <1>7, <1>8, FS_AddElement
<1>10. Cardinality(Addresses(h)) <= Cardinality(Addresses(q))
  BY <1>9, FS_Subset
<1>11. Cardinality(Addresses(h)) \in Nat /\ Cardinality(Addresses(q)) \in Nat /\ MaxIPs \in Nat
  BY <1>8, <1>9, FS_CardinalityType, ParsersAssumption
<1>12. Complete(q) => Complete(h)
  BY <1>10, <1>11 DEF Complete
<1> QED
  BY <1>7, <1>8, <1>12 DEF q

(* The window moves on. *)
LEMMA TracesLater ==
  ASSUME NEW times, NEW ip, NEW h \in Seq(Attempt), NEW c \in Int, NEW d \in Int, c <= d,
         Traces(times, ip, h, c)
  PROVE  Traces(times, ip, h, d)
<1>1. \A i \in 1..Len(h) : h[i].at \in Nat
  <2>1. \A i \in 1..Len(h) : h[i] \in Attempt
    BY ElementOfSeq
  <2> QED
    BY <2>1 DEF Attempt
<1>2. \A i \in 1..Len(h) : h[i].at > d => h[i].at > c
  BY <1>1
<1> QED
  BY <1>2 DEF Traces

(* A failure of another address. *)
LEMMA TracesOther ==
  ASSUME NEW times, NEW ip, NEW h \in Seq(Attempt), NEW a \in Attempt, a.ip # ip,
         NEW c \in Int, Traces(times, ip, h, c)
  PROVE  Traces(times, ip, Append(h, a), c)
<1> DEFINE n == Len(h)
           q == Append(h, a)
<1>1. n \in Nat
  BY LenProperties
<1>2. Len(q) = n + 1 /\ (\A i \in 1..n : q[i] = h[i]) /\ q[n + 1] = a
  BY AppendProperties
<1>3. Complete(q) => Complete(h)
  BY AddressesAppend
<1> HIDE DEF q
<1>4. PICK f \in [1..Len(times) -> 1..n] :
        /\ \A j, k \in 1..Len(times) : f[j] = f[k] => j = k
        /\ \A j \in 1..Len(times) : h[f[j]].ip = ip /\ h[f[j]].at = times[j]
        /\ Complete(h) => \A i \in 1..n : h[i].ip = ip /\ h[i].at > c
                                            => \E j \in 1..Len(times) : f[j] = i
  BY DEF Traces
<1> HIDE DEF n
<1>5. f \in [1..Len(times) -> 1..Len(q)]
  BY <1>1, <1>2, <1>4
<1>6. \A j \in 1..Len(times) : q[f[j]].ip = ip /\ q[f[j]].at = times[j]
  BY <1>2, <1>4
<1>7. \A i \in 1..Len(q) : q[i].ip = ip => i \in 1..n /\ q[i] = h[i]
  <2>1. \A i \in 1..n + 1 : i \in 1..n \/ i = n + 1
    BY <1>1
  <2> QED
    BY <1>2, <2>1
<1>8. Complete(q) => \A i \in 1..Len(q) : q[i].ip = ip /\ q[i].at > c
                                            => \E j \in 1..Len(times) : f[j] = i
  BY <1>3, <1>4, <1>7
<1> QED
  BY <1>4, <1>5, <1>6, <1>8 DEF Traces, q

(* A failure of the address itself: what is too old goes, and it is added. *)
LEMMA TracesActive ==
  ASSUME NEW times \in Seq(Nat), NEW ip \in Abouts, NEW h \in Seq(Attempt), NEW clock \in Nat,
         Traces(times, ip, h, clock - Window)
  PROVE  /\ Traces(Active(times, clock), ip, Append(h, [ip |-> ip, at |-> clock]), clock - Window)
         /\ \A j \in 1..Len(Active(times, clock)) : Active(times, clock)[j] > clock - Window
<1> DEFINE n == Len(h)
           a == [ip |-> ip, at |-> clock]
           q == Append(h, a)
           c == clock - Window
           r == Active(times, clock)
<1>1. n \in Nat /\ Len(times) \in Nat /\ c \in Int /\ clock > c
  BY LenProperties, ParsersAssumption
<1>2. a \in Attempt /\ a.ip = ip /\ a.at = clock
  BY DEF Attempt
<1> HIDE DEF a, c
<1>3. Len(q) = n + 1 /\ (\A i \in 1..n : q[i] = h[i]) /\ q[n + 1] = a
  BY <1>2, AppendProperties
<1>4. Complete(q) => Complete(h)
  BY <1>2, AddressesAppend
<1>5. PICK s : Keeps(s, times, Len(times), c) /\ r = Append(s, clock)
  BY ActiveResult DEF c
<1> HIDE DEF r
<1>6. s \in Seq(Nat) /\ Len(s) \in Nat
  BY <1>5, LenProperties DEF Keeps
<1> DEFINE m == Len(s)
<1>7. Len(r) = m + 1 /\ (\A j \in 1..m : r[j] = s[j]) /\ r[m + 1] = clock
  BY <1>5, <1>6, AppendProperties
<1>8. PICK g \in [1..m -> 1..Len(times)] :
        /\ \A j, k \in 1..m : g[j] = g[k] => j = k
        /\ \A j \in 1..m : s[j] = times[g[j]] /\ times[g[j]] > c
        /\ \A i \in 1..Len(times) : times[i] > c => \E j \in 1..m : g[j] = i
  BY <1>5 DEF Keeps
<1>9. PICK f \in [1..Len(times) -> 1..n] :
        /\ \A j, k \in 1..Len(times) : f[j] = f[k] => j = k
        /\ \A j \in 1..Len(times) : h[f[j]].ip = ip /\ h[f[j]].at = times[j]
        /\ Complete(h) => \A i \in 1..n : h[i].ip = ip /\ h[i].at > c
                                            => \E j \in 1..Len(times) : f[j] = i
  BY DEF Traces, c
<1> HIDE DEF q, n
<1> DEFINE e == [j \in 1..m + 1 |-> IF j = m + 1 THEN n + 1 ELSE f[g[j]]]
<1>10. \A j \in 1..m + 1 : j \in 1..m \/ j = m + 1
  BY <1>6
<1>11. ASSUME NEW j \in 1..m
       PROVE  j \in 1..m + 1 /\ j # m + 1 /\ e[j] = f[g[j]] /\ f[g[j]] \in 1..n /\ g[j] \in 1..Len(times)
  <2>1. j \in 1..m + 1 /\ j # m + 1
    BY <1>6
  <2> QED
    BY <1>8, <1>9, <2>1
<1>12. e[m + 1] = n + 1 /\ m + 1 \in 1..m + 1 /\ n + 1 \notin 1..n /\ n + 1 \in 1..n + 1
  BY <1>1, <1>6
<1>13. \A i \in 1..n : i \in 1..n + 1
  BY <1>1
<1>14. e \in [1..m + 1 -> 1..n + 1]
  <2>1. \A j \in 1..m + 1 : e[j] \in 1..n + 1
    BY <1>10, <1>11, <1>12, <1>13
  <2> QED
    BY <2>1
<1> HIDE DEF e, m
<1>15. ASSUME NEW j \in 1..m + 1, NEW k \in 1..m + 1, e[j] = e[k]
       PROVE  j = k
  <2>1. CASE j \in 1..m /\ k \in 1..m
    <3>1. f[g[j]] = f[g[k]]
      BY <1>11, <1>15, <2>1
    <3>2. g[j] = g[k]
      BY <1>9, <1>11, <2>1, <3>1
    <3> QED
      BY <1>8, <2>1, <3>2
  <2>2. CASE j \notin 1..m /\ k \notin 1..m
    BY <1>10, <2>2
  <2>3. CASE (j \in 1..m) # (k \in 1..m)
    <3>1. (j \in 1..m /\ k = m + 1) \/ (k \in 1..m /\ j = m + 1)
      BY <1>10, <2>3
    <3>2. (e[j] \in 1..n /\ e[k] = n + 1) \/ (e[k] \in 1..n /\ e[j] = n + 1)
      BY <1>11, <1>12, <3>1
    <3> QED
      BY <1>12, <1>15, <3>2
  <2> QED
    BY <2>1, <2>2, <2>3
<1>16. ASSUME NEW j \in 1..m + 1
       PROVE  q[e[j]].ip = ip /\ q[e[j]].at = r[j]
  <2>1. CASE j \in 1..m
    <3>1. e[j] = f[g[j]] /\ f[g[j]] \in 1..n /\ g[j] \in 1..Len(times)
      BY <1>11, <2>1
    <3>2. q[e[j]] = h[f[g[j]]]
      BY <1>3, <3>1
    <3>3. h[f[g[j]]].ip = ip /\ h[f[g[j]]].at = times[g[j]]
      BY <1>9, <3>1
    <3> QED
      BY <1>7, <1>8, <2>1, <3>2, <3>3
  <2>2. CASE j = m + 1
    BY <1>2, <1>3, <1>7, <1>12, <2>2
  <2> QED
    BY <1>10, <2>1, <2>2
<1>17. ASSUME Complete(q), NEW i \in 1..n + 1, q[i].ip = ip, q[i].at > c
       PROVE  \E j \in 1..m + 1 : e[j] = i
  <2>1. CASE i = n + 1
    BY <1>12, <2>1
  <2>2. CASE i # n + 1
    <3>0. i \in 1..n
      BY <1>1, <2>2
    <3>1. i \in 1..n /\ q[i] = h[i]
      BY <1>3, <3>0
    <3>2. PICK k \in 1..Len(times) : f[k] = i
      BY <1>4, <1>9, <1>17, <3>1
    <3>3. times[k] > c
      BY <1>9, <1>17, <3>1, <3>2
    <3>4. PICK j \in 1..m : g[j] = k
      BY <1>8, <3>3
    <3> QED
      BY <1>11, <3>2, <3>4
  <2> QED
    BY <2>1, <2>2
<1>18. Traces(r, ip, q, c)
  <2>1. /\ e \in [1..Len(r) -> 1..Len(q)]
        /\ \A j, k \in 1..Len(r) : e[j] = e[k] => j = k
        /\ \A j \in 1..Len(r) : q[e[j]].ip = ip /\ q[e[j]].at = r[j]
        /\ Complete(q) => \A i \in 1..Len(q) : q[i].ip = ip /\ q[i].at > c
                                                 => \E j \in 1..Len(r) : e[j] = i
    BY <1>3, <1>7, <1>14, <1>15, <1>16, <1>17
  <2> QED
    BY <2>1 DEF Traces
<1>19. \A j \in 1..Len(r) : r[j] > c
  BY <1>1, <1>7, <1>8, <1>10
<1> QED
  BY <1>18, <1>19 DEF r, q, a, c

(* The times that are kept count the failures within the window. *)
LEMMA TracesCount ==
  ASSUME NEW times \in Seq(Nat), NEW ip, NEW h \in Seq(Attempt), NEW c \in Int,
         Traces(times, ip, h, c), \A j \in 1..Len(times) : times[j] > c,
         NEW R, R = {i \in DOMAIN h : h[i].ip = ip /\ h[i].at > c}
  PROVE  /\ Cardinality(R) \in Nat
         /\ Len(times) <= Cardinality(R)
         /\ Complete(h) => Cardinality(R) <= Len(times)
<1>1. Len(times) \in Nat /\ Len(h) \in Nat /\ DOMAIN h = 1..Len(h)
  BY LenProperties
<1>2. IsFiniteSet(1..Len(h)) /\ IsFiniteSet(1..Len(times)) /\ Cardinality(1..Len(times)) = Len(times)
  <2>1. IsFiniteSet(1..Len(h))
    BY <1>1, FS_Interval
  <2>2. IsFiniteSet(1..Len(times))
    BY <1>1, FS_Interval
  <2>3. ASSUME NEW z \in Nat
        PROVE  Cardinality(1..z) = z
    <3>1. 1 \in Int /\ z \in Int
      OBVIOUS
    <3>2. Cardinality(1..z) = IF 1 > z THEN 0 ELSE z-1+1
      BY <3>1, FS_Interval
    <3> QED
      BY <3>2
  <2> QED
    BY <1>1, <2>1, <2>2, <2>3
<1>3. R \in SUBSET (1..Len(h))
  BY <1>1
<1>4. IsFiniteSet(R)
  BY <1>2, <1>3, FS_Subset
<1>5. Cardinality(R) \in Nat
  BY <1>4, FS_CardinalityType
<1>6. PICK f \in [1..Len(times) -> 1..Len(h)] :
    /\ \A j, k \in 1..Len(times) : f[j] = f[k] => j = k
    /\ \A j \in 1..Len(times) : h[f[j]].ip = ip /\ h[f[j]].at = times[j]
    /\ Complete(h) => \A i \in 1..Len(h) : h[i].ip = ip /\ h[i].at > c
                                             => \E j \in 1..Len(times) : f[j] = i
  BY DEF Traces
<1>7. \A j \in 1..Len(times) : f[j] \in R
  BY <1>1, <1>6
<1>8. f \in [1..Len(times) -> R]
  BY <1>6, <1>7
<1>9. f \in Injection(1..Len(times), R)
  BY <1>6, <1>8 DEF Injection, IsInjective
<1>10. Len(times) <= Cardinality(R)
  BY <1>2, <1>4, <1>9, FS_Injection
<1>11. ASSUME Complete(h)
       PROVE  Cardinality(R) <= Len(times)
  <2>1. \A i \in R : \E j \in 1..Len(times) : f[j] = i
    BY <1>1, <1>6, <1>11
  <2>2. f \in Surjection(1..Len(times), R)
    BY <1>8, <2>1 DEF Surjection
  <2> QED
    BY <1>2, <2>2, FS_Surjection
<1> QED
  BY <1>5, <1>10, <1>11
-----------------------------------------------------------------------------
LEMMA SourcesTypesInit == Init => SourcesTypes
<1> SUFFICES ASSUME Init
             PROVE  SourcesTypes
  OBVIOUS
<1>1. TrackerOK(tracker) /\ Len(tracker.keys) <= MaxIPs
  BY NewTrackerOK, ParsersAssumption DEF Init
<1>2. attempts \in Seq(Attempt)
  BY EmptySeq DEF Init
<1> QED
  BY <1>1, <1>2 DEF Init, SourcesTypes

\* The parser of ssh notes a failure of the line's address, any other nothing.
Noted ==
  /\ FromSshd(line) /\ line.kind = "denied"
  /\ tracker' = Track(tracker, line.about, now)
  /\ attempts' = Append(attempts, [ip |-> line.about, at |-> now])
  /\ jevent' = ParseSSH(line, tracker')

LEMMA ParseTracker ==
  ASSUME Parse
  PROVE  Noted \/ UNCHANGED <<tracker, attempts>>
<1>1. CASE Head(todo) = "ssh" /\ FromSshd(line) /\ line.kind = "denied"
  BY <1>1 DEF Parse, Noted
<1>2. CASE ~(Head(todo) = "ssh" /\ FromSshd(line) /\ line.kind = "denied")
  BY <1>2 DEF Parse
<1> QED
  BY <1>1, <1>2

LEMMA NotedTypes ==
  ASSUME SourcesTypes, Noted
  PROVE  /\ line.about \in Abouts
         /\ [ip |-> line.about, at |-> now] \in Attempt
         /\ attempts' \in Seq(Attempt)
         /\ TrackerOK(tracker') /\ Len(tracker'.keys) <= MaxIPs
<1>1. line.about \in Abouts
  BY DEF SourcesTypes, Abouts
<1>2. [ip |-> line.about, at |-> now] \in Attempt
  BY <1>1 DEF SourcesTypes, Attempt
<1>3. attempts' \in Seq(Attempt)
  BY <1>2, AppendProperties DEF SourcesTypes, Noted
<1>4. TrackerOK(tracker') /\ Len(tracker'.keys) <= MaxIPs
  BY TrackResult DEF SourcesTypes, Noted
<1> QED
  BY <1>1, <1>2, <1>3, <1>4

LEMMA SourcesTypesStep == SourcesTypes /\ [Next]_vars => SourcesTypes'
<1> SUFFICES ASSUME SourcesTypes, [Next]_vars
             PROVE  SourcesTypes'
  OBVIOUS
<1> USE DEF SourcesTypes
<1>1. CASE Write
  BY <1>1 DEF Write, dVars
<1>2. CASE ReadLine
  <2>1. PICK l \in Lines : journal = <<l>>
    BY <1>2 DEF ReadLine
  <2>2. Head(journal) = l /\ Tail(journal) = <<>>
    BY <2>1
  <2> QED
    BY <1>2, <2>2 DEF ReadLine, dVars
<1>3. CASE Parse
  <2>1. attempts' \in Seq(Attempt) /\ TrackerOK(tracker') /\ Len(tracker'.keys) <= MaxIPs
    BY <1>3, ParseTracker, NotedTypes
  <2>2. jpc' \in {"parsing", "publishing"}
    BY <1>3 DEF Parse
  <2>3. UNCHANGED <<now, journal, line, dpc>>
    BY <1>3 DEF Parse, dVars
  <2> QED
    BY <2>1, <2>2, <2>3
<1>4. CASE PublishJournal
  BY <1>4 DEF PublishJournal, dVars
<1>5. CASE LineDone
  BY <1>5 DEF LineDone, dVars
<1>6. CASE JournalEnds
  BY <1>6 DEF JournalEnds, dVars
<1>7. CASE DockerConnect \/ DockerDecode \/ DockerPublish \/ DockerBroken \/ DockerRetry
  <2>1. UNCHANGED <<now, jVars>>
    BY <1>7 DEF DockerConnect, DockerDecode, DockerPublish, DockerBroken, DockerRetry, Docker
  <2>2. dpc' \in {"connecting", "streaming", "publishing", "waiting", "stopped"}
    BY <1>7 DEF DockerConnect, DockerDecode, DockerPublish, DockerBroken, DockerRetry, Docker
  <2> QED
    BY <2>1, <2>2 DEF jVars
<1>8. CASE DockerChange \/ NetworkReceive \/ Cancel
  BY <1>8 DEF DockerChange, NetworkReceive, Cancel, jVars, dVars
<1>9. CASE Tick
  BY <1>9 DEF Tick, jVars, dVars
<1>10. CASE UNCHANGED vars
  BY <1>10 DEF vars, jVars, dVars
<1> QED
  BY <1>1, <1>2, <1>3, <1>4, <1>5, <1>6, <1>7, <1>8, <1>9, <1>10 DEF Next

LEMMA SourcesTypesInvariant == Spec => []SourcesTypes
BY SourcesTypesInit, SourcesTypesStep, PTL DEF Spec

(* The tracker's two parts hold the same addresses, each once, and no more *)
(* than it has room for (isBruteforce of ssh.go), and the memory of the    *)
(* parser of systemd is of services that failed in the past, for any lines *)
(* and limits.                                                             *)
THEOREM TypeCorrect == Spec => []TypeOK
<1>1. SourcesTypes /\ FailureInv => TypeOK
  BY DEF SourcesTypes, FailureInv, TrackerOK, TypeOK
<1> QED
  BY <1>1, SourcesTypesInvariant, FailureInvariant, PTL
-----------------------------------------------------------------------------
LEMMA TraceInit == Init => TraceInv
<1> SUFFICES ASSUME Init
             PROVE  TraceInv
  OBVIOUS
<1>1. DOMAIN tracker.ips = {}
  BY NewTrackerOK DEF Init
<1>2. attempts = <<>> /\ DOMAIN <<>> = {}
  <2>1. <<>> \in Seq(Nat) /\ Len(<<>>) = 0
    BY EmptySeq
  <2> QED
    BY <2>1, LenProperties DEF Init
<1>3. Addresses(attempts) = {}
  BY <1>2 DEF Addresses
<1> QED
  BY <1>1, <1>3 DEF TraceInv

LEMMA TraceFrame ==
  ASSUME SourcesTypes, TraceInv, UNCHANGED <<tracker, attempts>>, now' = now \/ now' = now + 1
  PROVE  TraceInv'
<1>1. now - Window \in Int /\ now' - Window \in Int /\ now - Window <= now' - Window
  BY ParsersAssumption DEF SourcesTypes
<1>2. attempts \in Seq(Attempt)
  BY DEF SourcesTypes
<1>3. ASSUME NEW ip \in DOMAIN tracker.ips
      PROVE  Traces(tracker.ips[ip], ip, attempts, now' - Window)
  <2>1. Traces(tracker.ips[ip], ip, attempts, now - Window)
    BY DEF TraceInv
  <2> QED
    BY <1>1, <1>2, <2>1, TracesLater
<1>4. (Complete(attempts) => Addresses(attempts) \subseteq DOMAIN tracker.ips)'
  BY DEF TraceInv, Complete, Addresses
<1>5. \A ip \in DOMAIN tracker'.ips : Traces(tracker'.ips[ip], ip, attempts', now' - Window)
  BY <1>3
<1> QED
  BY <1>4, <1>5 DEF TraceInv, Traces, Complete, Addresses

(* A failure that is noted: its address has the times that count. *)
LEMMA TraceNoted ==
  ASSUME SourcesTypes, TraceInv, Noted
  PROVE  /\ \A k \in DOMAIN tracker'.ips : Traces(tracker'.ips[k], k, attempts', now - Window)
         /\ Complete(attempts') => Addresses(attempts') \subseteq DOMAIN tracker'.ips
         /\ line.about \in DOMAIN tracker'.ips
         /\ \A j \in 1..Len(tracker'.ips[line.about]) : tracker'.ips[line.about][j] > now - Window
<1> DEFINE ip == line.about
           D == DOMAIN tracker.ips
           old == IF ip \in D THEN tracker.ips[ip] ELSE <<>>
           a == [ip |-> ip, at |-> now]
           c == now - Window
<1>1. /\ now \in Nat /\ c \in Int
      /\ attempts \in Seq(Attempt) /\ a \in Attempt /\ a.ip = ip
      /\ ip \in Abouts /\ attempts' = Append(attempts, a)
  BY NotedTypes, ParsersAssumption DEF SourcesTypes, Noted
<1>2. /\ TrackerOK(tracker) /\ Len(tracker.keys) <= MaxIPs
      /\ tracker' = Track(tracker, ip, now)
  BY DEF SourcesTypes, Noted
<1>3. /\ ip \in DOMAIN tracker'.ips
      /\ tracker'.ips[ip] = Active(old, now)
      /\ \A k \in DOMAIN tracker'.ips \ {ip} : k \in D /\ tracker'.ips[k] = tracker.ips[k]
      /\ ip \in D \/ Len(tracker.keys) < MaxIPs => D \subseteq DOMAIN tracker'.ips
  BY <1>1, <1>2, TrackResult
<1>4. /\ \A k \in D : Traces(tracker.ips[k], k, attempts, c)
      /\ Complete(attempts) => Addresses(attempts) \subseteq D
  BY DEF TraceInv
<1>5. \A k \in D : tracker.ips[k] \in Seq(Nat) /\ tracker.ips[k] # <<>>
  BY <1>2 DEF TrackerOK
<1>6. Len(attempts) \in Nat /\ DOMAIN attempts = 1..Len(attempts)
  BY <1>1, LenProperties
<1>7. old \in Seq(Nat)
  BY <1>5, EmptySeq
<1> HIDE DEF ip, D, old, a, c
<1>8. Traces(old, ip, attempts, c)
  <2>1. CASE ip \in D
    BY <1>4, <2>1 DEF old, D
  <2>2. CASE ip \notin D
    <3>1. old = <<>> /\ Len(old) = 0
      BY <2>2, EmptySeq DEF old
    <3>2. 1..0 = {}
      OBVIOUS
    <3>3. [j \in 1..0 |-> 1] \in [1..0 -> 1..Len(attempts)]
      BY <3>2
    <3>4. Complete(attempts) => \A i \in 1..Len(attempts) : attempts[i].ip # ip
      BY <1>4, <1>6, <2>2 DEF Addresses
    <3> QED
      BY <3>1, <3>2, <3>3, <3>4 DEF Traces
  <2> QED
    BY <2>1, <2>2
<1>9. /\ Traces(Active(old, now), ip, attempts', c)
      /\ \A j \in 1..Len(Active(old, now)) : Active(old, now)[j] > c
  BY <1>1, <1>7, <1>8, TracesActive DEF a, c
<1>10. ASSUME NEW k \in DOMAIN tracker'.ips
       PROVE  Traces(tracker'.ips[k], k, attempts', c)
  <2>1. CASE k = ip
    BY <1>3, <1>9, <2>1
  <2>2. CASE k # ip
    <3>1. k \in D /\ tracker'.ips[k] = tracker.ips[k] /\ Traces(tracker.ips[k], k, attempts, c)
      BY <1>3, <1>4, <2>2
    <3> QED
      BY <1>1, <2>2, <3>1, TracesOther
  <2> QED
    BY <2>1, <2>2
<1>11. ASSUME Complete(attempts')
       PROVE  Addresses(attempts') \subseteq DOMAIN tracker'.ips
  <2>1. /\ Addresses(attempts') = Addresses(attempts) \union {ip}
        /\ IsFiniteSet(Addresses(attempts))
        /\ Complete(attempts)
    BY <1>1, <1>11, AddressesAppend
  <2>2. ip \in D \/ Len(tracker.keys) < MaxIPs
    <3> SUFFICES ASSUME ip \notin D
                 PROVE  Len(tracker.keys) < MaxIPs
      OBVIOUS
    <3>1. ASSUME NEW k \in D
          PROVE  k \in Addresses(attempts)
      <4>1. Len(tracker.ips[k]) \in Nat \ {0}
        BY <1>5, <3>1, EmptySeq
      <4>2. 1 \in 1..Len(tracker.ips[k])
        BY <4>1
      <4>3. PICK i \in 1..Len(attempts) : attempts[i].ip = k
        BY <1>4, <3>1, <4>2 DEF Traces
      <4> QED
        BY <1>6, <4>3 DEF Addresses
    <3>2. D = Addresses(attempts)
      BY <1>4, <2>1, <3>1
    <3>3. Cardinality(D) = Len(tracker.keys)
      BY <1>2 DEF TrackerOK, D
    <3>4. Cardinality(D \union {ip}) = Cardinality(D) + 1
      BY <2>1, <3>2, FS_AddElement
    <3>5. Cardinality(D \union {ip}) <= MaxIPs
      BY <1>11, <2>1, <3>2 DEF Complete
    <3>6. Cardinality(D) \in Nat /\ MaxIPs \in Nat
      BY <2>1, <3>2, FS_CardinalityType, ParsersAssumption
    <3> QED
      BY <3>3, <3>4, <3>5, <3>6
  <2> QED
    BY <1>3, <1>4, <2>1, <2>2
<1> QED
  BY <1>3, <1>9, <1>10, <1>11 DEF ip, c

LEMMA TraceStep == SourcesTypes /\ TraceInv /\ [Next]_vars => TraceInv'
<1> SUFFICES ASSUME SourcesTypes, TraceInv, [Next]_vars
             PROVE  TraceInv'
  OBVIOUS
<1>1. CASE Parse
  <2>1. now' = now
    BY <1>1 DEF Parse
  <2>2. CASE Noted
    <3>1. /\ \A k \in DOMAIN tracker'.ips : Traces(tracker'.ips[k], k, attempts', now' - Window)
          /\ Complete(attempts') => Addresses(attempts') \subseteq DOMAIN tracker'.ips
      BY <2>1, <2>2, TraceNoted
    <3> QED
      BY <3>1 DEF TraceInv, Traces, Complete, Addresses
  <2>3. CASE UNCHANGED <<tracker, attempts>>
    BY <2>1, <2>3, TraceFrame
  <2> QED
    BY <1>1, <2>2, <2>3, ParseTracker
<1>2. CASE ~Parse
  <2>1. UNCHANGED <<tracker, attempts>> /\ (now' = now \/ now' = now + 1)
    BY <1>2 DEF Next, Write, ReadLine, PublishJournal, LineDone, JournalEnds, DockerConnect,
         DockerDecode, DockerPublish, DockerBroken, DockerRetry, DockerChange, Docker,
         NetworkReceive, Tick, Cancel, vars, jVars, dVars
  <2> QED
    BY <2>1, TraceFrame
<1> QED
  BY <1>1, <1>2

(* The times the tracker keeps are those of different failures, and if     *)
(* there was room for all addresses, of every failure within the window    *)
(* (isBruteforce of ssh.go).                                               *)
LEMMA TraceInvariant == Spec => []TraceInv
<1>1. SourcesTypes /\ TraceInv /\ [Next]_vars => TraceInv'
  BY TraceStep
<1> QED
  BY <1>1, TraceInit, SourcesTypesInvariant, PTL DEF Spec

(* The third failure of an address within the window raises the alarm, a   *)
(* failure before it never does, and none is missed unless there were more *)
(* addresses than the tracker has room for: for any threshold, any window, *)
(* any number of addresses and any tracker size.                           *)
THEOREM BruteforceTheorem == Spec => BruteforceExact
<1>1. ASSUME SourcesTypes, TraceInv, Next, attempts' # attempts
      PROVE  /\ jevent'.type = "SSH_BRUTEFORCE" => Recent(attempts') >= Threshold
             /\ Recent(attempts') >= Threshold /\ Cardinality(Addresses(attempts')) <= MaxIPs
                  => jevent'.type = "SSH_BRUTEFORCE"
  <2>1. Parse
    BY <1>1 DEF Next, Write, ReadLine, PublishJournal, LineDone, JournalEnds, DockerConnect,
         DockerDecode, DockerPublish, DockerBroken, DockerRetry, DockerChange, Docker,
         NetworkReceive, Tick, Cancel, vars, jVars, dVars
  <2>2. Noted
    BY <1>1, <2>1, ParseTracker
  <2> DEFINE ip == line.about
             times == tracker'.ips[ip]
             h == attempts'
             c == now - Window
             R == {i \in DOMAIN h : h[i].ip = ip /\ h[i].at > c}
  <2>3. /\ Traces(times, ip, h, c)
        /\ ip \in DOMAIN tracker'.ips
        /\ \A j \in 1..Len(times) : times[j] > c
    BY <1>1, <2>2, TraceNoted
  <2>4. h \in Seq(Attempt) /\ TrackerOK(tracker')
    BY <1>1, <2>2, NotedTypes
  <2>5. times \in Seq(Nat) /\ Len(times) \in Nat
    <3>1. times \in Seq(Nat)
      BY <2>3, <2>4 DEF TrackerOK
    <3> QED
      BY <3>1, LenProperties
  <2>6. c \in Int /\ Threshold \in Nat
    BY <1>1, ParsersAssumption DEF SourcesTypes
  <2>7. jevent'.type = "SSH_BRUTEFORCE" <=> Len(times) >= Threshold
    <3>1. FromSshd(line) /\ line.kind = "denied" /\ jevent' = ParseSSH(line, tracker')
      BY <2>2 DEF Noted
    <3>2. jevent' = IF isBruteforce(tracker', ip) THEN Event("ssh", "SSH_BRUTEFORCE", ip) ELSE NoEvent
      BY <3>1 DEF ParseSSH
    <3>3. CASE Len(times) >= Threshold
      BY <3>2, <3>3 DEF isBruteforce, Event
    <3>4. CASE ~(Len(times) >= Threshold)
      BY <3>2, <3>4 DEF isBruteforce, NoEvent
    <3> QED
      BY <3>3, <3>4
  <2>8. Recent(h) = Cardinality(R)
    <3>1. attempts \in Seq(Attempt) /\ [ip |-> ip, at |-> now] \in Attempt
      BY <1>1, <2>2, NotedTypes DEF SourcesTypes
    <3>2. h = Append(attempts, [ip |-> ip, at |-> now])
      BY <2>2 DEF Noted
    <3>3. Len(h) = Len(attempts) + 1 /\ h[Len(attempts) + 1] = [ip |-> ip, at |-> now]
      BY <3>1, <3>2, AppendProperties
    <3>4. Last(h).ip = ip
      BY <3>3 DEF Last
    <3> QED
      BY <3>4 DEF Recent
  <2> HIDE DEF ip, times, h, c
  <2>9. /\ Cardinality(R) \in Nat
        /\ Len(times) <= Cardinality(R)
        /\ Complete(h) => Cardinality(R) <= Len(times)
    <3> DEFINE Q == R
    <3>1. Q = {i \in DOMAIN h : h[i].ip = ip /\ h[i].at > c}
      OBVIOUS
    <3> HIDE DEF Q
    <3>2. /\ Cardinality(Q) \in Nat
          /\ Len(times) <= Cardinality(Q)
          /\ Complete(h) => Cardinality(Q) <= Len(times)
      BY <2>3, <2>4, <2>5, <2>6, <3>1, TracesCount
    <3> QED
      BY <3>2 DEF Q
  <2> HIDE DEF R
  <2>10. /\ jevent'.type = "SSH_BRUTEFORCE" => Recent(h) >= Threshold
         /\ Recent(h) >= Threshold /\ Cardinality(Addresses(h)) <= MaxIPs
              => jevent'.type = "SSH_BRUTEFORCE"
    BY <2>5, <2>6, <2>7, <2>8, <2>9 DEF Complete
  <2> QED
    BY <2>10 DEF h
<1>2. SourcesTypes /\ TraceInv /\ [Next]_vars =>
        [attempts' # attempts =>
           LET alarm == jevent'.type = "SSH_BRUTEFORCE" IN
           /\ alarm => Recent(attempts') >= Threshold
           /\ Recent(attempts') >= Threshold /\ Cardinality(Addresses(attempts')) <= MaxIPs => alarm]_vars
  BY <1>1
<1> QED
  BY <1>2, SourcesTypesInvariant, TraceInvariant, PTL DEF Spec, BruteforceExact
=============================================================================
