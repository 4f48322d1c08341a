---------------------------- MODULE SetupProofs -----------------------------
(***************************************************************************)
(* Proofs about Setup, for any files, answers, settings and number of      *)
(* dialogs and faults: what the wizard saves is what the daemon reads, the *)
(* daemon comes up on it, and credentials are lost in the named ways only. *)
(*                                                                         *)
(* First what becomes of lists, of a health check and of a configuration   *)
(* on the way through the file, then the steps of the wizard.              *)
(***************************************************************************)
EXTENDS Setup, SequenceTheorems, WellFoundedInduction, TLAPS

(* A nonempty set of numbers has a least one. *)
LEMMA LeastExists ==
  ASSUME NEW S \in SUBSET Nat, S # {}
  PROVE  \E i \in S : \A j \in S : i <= j
<1>1. \E i \in S : \A j \in S : ~(<<j, i>> \in OpToRel(<, Nat))
  BY NatLessThanWellFounded, WFMin
<1>2. PICK i \in S : \A j \in S : ~(<<j, i>> \in OpToRel(<, Nat))
  BY <1>1
<1>3. \A j \in S : ~(j < i)
  BY <1>2 DEF OpToRel
<1> QED
  BY <1>3

(* Induction up to n, with a set for the predicate. *)
LEMMA InductionUpTo ==
  ASSUME NEW n \in Nat, NEW S, 0 \in S, \A i \in 1 .. n : i - 1 \in S => i \in S
  PROVE  0 .. n \subseteq S
<1> SUFFICES ASSUME (0 .. n) \ S # {}
             PROVE  FALSE
  OBVIOUS
<1>0. (0 .. n) \ S \in SUBSET Nat
  OBVIOUS
<1>1. PICK m \in (0 .. n) \ S : \A j \in (0 .. n) \ S : m <= j
  BY <1>0, LeastExists
<1>2. m \in 1 .. n /\ m - 1 \in 0 .. n
  BY <1>1
<1>3. m - 1 \in S
  BY <1>1, <1>2
<1> QED
  BY <1>1, <1>2, <1>3
-----------------------------------------------------------------------------
(* Lists. *)

IsList(s) == s \in Seq(ToSet(s))

LEMMA ListProperties ==
  ASSUME NEW s, IsList(s)
  PROVE  /\ Len(s) \in Nat
         /\ DOMAIN s = 1..Len(s)
         /\ s = [i \in 1..Len(s) |-> s[i]]
         /\ \A x : x \in ToSet(s) <=> \E i \in 1..Len(s) : s[i] = x
<1>1. Len(s) \in Nat /\ DOMAIN s = 1..Len(s) /\ s \in [1..Len(s) -> ToSet(s)]
  BY LenProperties DEF IsList
<1> QED
  BY <1>1 DEF ToSet

LEMMA SeqIsList ==
  ASSUME NEW S, NEW s \in Seq(S)
  PROVE  IsList(s)
<1>1. Len(s) \in Nat /\ DOMAIN s = 1..Len(s) /\ s \in [1..Len(s) -> S]
  BY LenProperties
<1>2. s \in [1..Len(s) -> ToSet(s)]
  BY <1>1 DEF ToSet
<1> QED
  BY <1>1, <1>2, SeqDef DEF IsList

LEMMA FunctionIsList ==
  ASSUME NEW n \in Nat, NEW s, s = [i \in 1..n |-> s[i]]
  PROVE  IsList(s) /\ Len(s) = n
<1>1. s \in [1..n -> ToSet(s)]
  BY DEF ToSet
<1>2. s \in Seq(ToSet(s))
  BY <1>1, SeqDef
<1>3. DOMAIN s = 1..n /\ DOMAIN s = 1..Len(s) /\ Len(s) \in Nat
  BY <1>2, LenProperties
<1> QED
  BY <1>2, <1>3 DEF IsList

LEMMA EmptyList == IsList(<<>>) /\ ToSet(<<>>) = {} /\ DOMAIN <<>> = {} /\ Len(<<>>) = 0
<1>1. <<>> \in Seq(ToSet(<<>>)) /\ Len(<<>>) = 0
  BY EmptySeq
<1>2. DOMAIN <<>> = 1..0
  BY <1>1, LenProperties
<1> QED
  BY <1>1, <1>2 DEF IsList, ToSet

LEMMA AppendList ==
  ASSUME NEW s, IsList(s), NEW x
  PROVE  /\ IsList(Append(s, x))
         /\ Len(Append(s, x)) = Len(s) + 1
         /\ \A i \in 1..Len(s) : Append(s, x)[i] = s[i]
         /\ Append(s, x)[Len(s) + 1] = x
         /\ ToSet(Append(s, x)) = ToSet(s) \union {x}
<1> DEFINE S == ToSet(s) \union {x}
           n == Len(s)
           r == Append(s, x)
<1>1. n \in Nat /\ DOMAIN s = 1..n /\ s \in [1..n -> ToSet(s)]
  BY LenProperties DEF IsList
<1>2. s \in [1..n -> S]
  BY <1>1
<1>3. s \in Seq(S)
  BY <1>1, <1>2, SeqDef
<1>4. r \in Seq(S) /\ Len(r) = n + 1 /\ (\A i \in 1..n : r[i] = s[i]) /\ r[n + 1] = x
  BY <1>3, AppendProperties
<1>5. DOMAIN r = 1..n + 1
  BY <1>4, LenProperties
<1>6. IsList(r)
  BY <1>4, SeqIsList
<1>7. ToSet(r) = S
  <2>1. \A i \in 1..n + 1 : i \in 1..n \/ i = n + 1
    BY <1>1
  <2>2. n + 1 \in 1..n + 1 /\ \A i \in 1..n : i \in 1..n + 1
    BY <1>1
  <2> HIDE DEF r, n
  <2>3. \A i \in 1..n + 1 : r[i] \in S
    BY <1>1, <1>4, <2>1
  <2>4. \A y \in S : \E i \in 1..n + 1 : r[i] = y
    BY <1>1, <1>4, <2>2 DEF ToSet
  <2> QED
    BY <1>5, <2>3, <2>4 DEF ToSet
<1> QED
  BY <1>4, <1>6, <1>7

LEMMA ReplaceList ==
  ASSUME NEW s, IsList(s), NEW i \in DOMAIN s, NEW x
  PROVE  /\ IsList([s EXCEPT ![i] = x])
         /\ Len([s EXCEPT ![i] = x]) = Len(s)
         /\ DOMAIN [s EXCEPT ![i] = x] = DOMAIN s
         /\ [s EXCEPT ![i] = x][i] = x
         /\ \A j \in DOMAIN s \ {i} : [s EXCEPT ![i] = x][j] = s[j]
         /\ x \in ToSet([s EXCEPT ![i] = x])
         /\ ToSet([s EXCEPT ![i] = x]) \subseteq ToSet(s) \union {x}
<1> DEFINE r == [s EXCEPT ![i] = x]
<1>1. Len(s) \in Nat /\ DOMAIN s = 1..Len(s) /\ s = [j \in 1..Len(s) |-> s[j]]
  BY ListProperties
<1>2. r = [j \in 1..Len(s) |-> IF j = i THEN x ELSE s[j]]
  BY <1>1
<1> HIDE DEF r
<1>3. r[i] = x /\ \A j \in 1..Len(s) : j # i => r[j] = s[j]
  BY <1>1, <1>2
<1>4. r = [j \in 1..Len(s) |-> r[j]] /\ DOMAIN r = 1..Len(s)
  BY <1>2
<1>5. IsList(r) /\ Len(r) = Len(s)
  BY <1>1, <1>4, FunctionIsList
<1>6. x \in ToSet(r) /\ ToSet(r) \subseteq ToSet(s) \union {x}
  BY <1>1, <1>3, <1>4 DEF ToSet
<1> QED
  BY <1>1, <1>3, <1>4, <1>5, <1>6 DEF r

\* The place in s of what RemoveAt(s, i) has in place j.
Skip(i, j) == IF j < i THEN j ELSE j + 1

LEMMA RemoveAtList ==
  ASSUME NEW s, IsList(s), NEW i \in DOMAIN s
  PROVE  /\ IsList(RemoveAt(s, i))
         /\ Len(RemoveAt(s, i)) = Len(s) - 1
         /\ \A j \in 1..Len(s) - 1 : /\ Skip(i, j) \in 1..Len(s) \ {i}
                                     /\ RemoveAt(s, i)[j] = s[Skip(i, j)]
         /\ \A j \in 1..Len(s) \ {i} : s[j] \in ToSet(RemoveAt(s, i))
         /\ ToSet(RemoveAt(s, i)) \subseteq ToSet(s)
<1> DEFINE n == Len(s)
           a == SubSeq(s, 1, i - 1)
           b == SubSeq(s, i + 1, n)
           r == RemoveAt(s, i)
<1>1. n \in Nat /\ DOMAIN s = 1..n /\ i \in 1..n /\ \A j \in 1..n : s[j] \in ToSet(s)
  BY ListProperties
<1> DEFINE S == ToSet(s)
<1>2. a \in Seq(S) /\ Len(a) = i - 1 /\ \A j \in 1..i - 1 : a[j] = s[j]
  <2>1. \A j \in 1..i - 1 : s[j] \in S
    BY <1>1
  <2>2. 1 \in Int /\ i - 1 \in Int
    BY <1>1
  <2> HIDE DEF S
  <2>3. /\ a \in Seq(S)
        /\ Len(a) = IF 1 <= i - 1 THEN i - 1 - 1 + 1 ELSE 0
        /\ \A j \in 1..i - 1 - 1 + 1 : a[j] = s[1 + j - 1]
    BY <2>1, <2>2, SubSeqProperties
  <2>4. i - 1 - 1 + 1 = i - 1 /\ (\A j \in 1..i - 1 : 1 + j - 1 = j) /\ (~(1 <= i - 1) => i - 1 = 0)
    BY <1>1
  <2> QED
    BY <2>3, <2>4
<1>3. b \in Seq(S) /\ Len(b) = n - i /\ \A j \in 1..n - i : b[j] = s[i + j]
  <2>1. \A j \in i + 1..n : s[j] \in S
    BY <1>1
  <2>2. i + 1 \in Int /\ n \in Int
    BY <1>1
  <2> HIDE DEF S
  <2>3. /\ b \in Seq(S)
        /\ Len(b) = IF i + 1 <= n THEN n - (i + 1) + 1 ELSE 0
        /\ \A j \in 1..n - (i + 1) + 1 : b[j] = s[(i + 1) + j - 1]
    BY <2>1, <2>2, SubSeqProperties
  <2>4. n - (i + 1) + 1 = n - i /\ (\A j \in 1..n - i : (i + 1) + j - 1 = i + j)
        /\ (~(i + 1 <= n) => n - i = 0)
    BY <1>1
  <2> QED
    BY <2>3, <2>4
<1>4. /\ r \in Seq(S) /\ Len(r) = n - 1
      /\ \A j \in 1..n - 1 : r[j] = IF j <= i - 1 THEN a[j] ELSE b[j - (i - 1)]
  <2>1. r = a \o b
    BY DEF RemoveAt
  <2>2. (i - 1) + (n - i) = n - 1
    BY <1>1
  <2> HIDE DEF r, a, b, S
  <2>3. /\ r \in Seq(S) /\ Len(r) = Len(a) + Len(b)
        /\ \A j \in 1..Len(a) + Len(b) : r[j] = IF j <= Len(a) THEN a[j] ELSE b[j - Len(a)]
    BY <1>2, <1>3, <2>1, ConcatProperties
  <2> QED
    BY <1>2, <1>3, <2>2, <2>3
<1> HIDE DEF r, a, b, S
<1>5. ASSUME NEW j \in 1..n - 1
      PROVE  r[j] = IF j < i THEN s[j] ELSE s[j + 1]
  <2>1. CASE j < i
    <3>1. j \in 1..i - 1
      BY <1>1, <2>1
    <3> QED
      BY <1>1, <1>2, <1>4, <2>1, <3>1
  <2>2. CASE ~(j < i)
    <3>1. ~(j <= i - 1) /\ j - (i - 1) \in 1..n - i /\ i + (j - (i - 1)) = j + 1
      BY <1>1, <2>2
    <3> QED
      BY <1>3, <1>4, <2>2, <3>1
  <2> QED
    BY <2>1, <2>2
<1>6. n - 1 \in Nat
  BY <1>1
<1>7. IsList(r) /\ Len(r) = n - 1
  BY <1>4, SeqIsList
<1>8. DOMAIN r = 1..n - 1
  BY <1>4, LenProperties
<1>9. \A j \in 1..n - 1 : Skip(i, j) \in 1..n \ {i} /\ r[j] = s[Skip(i, j)]
  BY <1>1, <1>5 DEF Skip
<1>10. ASSUME NEW j \in 1..n, j # i
       PROVE  s[j] \in ToSet(r)
  <2>1. CASE j < i
    <3>1. j \in 1..n - 1 /\ r[j] = s[j]
      BY <1>1, <1>5, <2>1
    <3> QED
      BY <1>8, <3>1 DEF ToSet
  <2>2. CASE j > i
    <3>1. j - 1 \in 1..n - 1 /\ ~(j - 1 < i) /\ (j - 1) + 1 = j
      BY <1>1, <2>2
    <3>2. r[j - 1] = s[j]
      BY <1>5, <3>1
    <3> QED
      BY <1>8, <3>1, <3>2 DEF ToSet
  <2> QED
    BY <1>1, <1>10, <2>1, <2>2
<1>11. ToSet(r) \subseteq ToSet(s)
  BY <1>1, <1>8, <1>9 DEF ToSet
<1> QED
  BY <1>7, <1>9, <1>10, <1>11 DEF r
-----------------------------------------------------------------------------
(* The services that are taken from a file. *)

\* f is what UsableOf has taken after each step.
IsTaken(f, services) ==
  f = [i \in 0..Len(services) |->
         IF i = 0 THEN <<>>
         ELSE IF Usable(services[i]) THEN Append(f[i - 1], services[i]) ELSE f[i - 1]]

\* r are the usable ones of the first n services, and all if all are usable.
Takes(r, services, n) ==
  /\ IsList(r)
  /\ ToSet(r) = {services[i] : i \in {i \in 1..n : Usable(services[i])}}
  /\ (\A i \in 1..n : Usable(services[i]))
       => Len(r) = n /\ \A i \in 1..n : r[i] = services[i]

LEMMA TakenExists ==
  ASSUME NEW services, IsList(services)
  PROVE  \E f : IsTaken(f, services)
<1> DEFINE Next0(f, i) == IF i = 0 THEN <<>>
                          ELSE IF Usable(services[i]) THEN Append(f[i - 1], services[i]) ELSE f[i - 1]
           S == {n \in 0 .. Len(services) : \E f : /\ f = [i \in 0 .. n |-> f[i]]
                                                   /\ \A i \in 0 .. n : f[i] = Next0(f, i)}
<1>1. Len(services) \in Nat
  BY ListProperties
<1>2. 0 \in S
  <2> DEFINE e == [i \in 0 .. 0 |-> <<>>]
  <2>1. e = [i \in 0 .. 0 |-> e[i]]
    OBVIOUS
  <2>2. ASSUME NEW i \in 0 .. 0
        PROVE  e[i] = Next0(e, i)
    <3>1. i = 0
      OBVIOUS
    <3> QED
      BY <3>1
  <2> HIDE DEF e, Next0
  <2>3. \E f : f = [i \in 0 .. 0 |-> f[i]] /\ \A i \in 0 .. 0 : f[i] = Next0(f, i)
    BY <2>1, <2>2
  <2> QED
    BY <1>1, <2>3
<1>3. ASSUME NEW n \in 1 .. Len(services), n - 1 \in S
      PROVE  n \in S
  <2>1. n - 1 \in 0 .. Len(services) /\ n \in 0 .. Len(services) /\ n \in Nat
    BY <1>1
  <2>2. PICK f : \A i \in 0 .. n - 1 : f[i] = Next0(f, i)
    BY <1>3
  <2> DEFINE y == Next0(f, n)
             g == [i \in 0 .. n |-> IF i = n THEN y ELSE f[i]]
  <2>3. g = [i \in 0 .. n |-> g[i]]
    OBVIOUS
  <2>4. ASSUME NEW i \in 0 .. n
        PROVE  g[i] = Next0(g, i)
    <3>1. CASE i = 0
      BY <2>1, <2>2, <3>1
    <3>2. CASE i # 0
      <4>1. i - 1 \in 0 .. n /\ i - 1 # n /\ g[i - 1] = f[i - 1]
        BY <2>1, <3>2
      <4>2. Next0(g, i) = Next0(f, i)
        BY <3>2, <4>1
      <4>3. g[i] = Next0(f, i)
        <5>1. CASE i = n
          BY <5>1
        <5>2. CASE i # n
          <6>1. i \in 0 .. n - 1
            BY <2>1, <5>2
          <6>2. f[i] = Next0(f, i)
            BY <2>2, <6>1
          <6> QED
            BY <5>2, <6>2
        <5> QED
          BY <5>1, <5>2
      <4> QED
        BY <4>2, <4>3
    <3> QED
      BY <3>1, <3>2
  <2> HIDE DEF g, Next0
  <2>5. \E h : h = [i \in 0 .. n |-> h[i]] /\ \A i \in 0 .. n : h[i] = Next0(h, i)
    BY <2>3, <2>4
  <2> QED
    BY <2>1, <2>5
<1>4. Len(services) \in S
  <2> HIDE DEF S
  <2>1. 0 .. Len(services) \subseteq S
    BY <1>1, <1>2, <1>3, InductionUpTo
  <2> QED
    BY <1>1, <2>1
<1>5. PICK f : /\ f = [i \in 0 .. Len(services) |-> f[i]]
               /\ \A i \in 0 .. Len(services) : f[i] = Next0(f, i)
  BY <1>4
<1>6. IsTaken(f, services)
  BY <1>5 DEF IsTaken
<1> QED
  BY <1>6

(* A step of the loop. *)
LEMMA TakesStep ==
  ASSUME NEW services, IsList(services), NEW n \in 1 .. Len(services), NEW r,
         Takes(r, services, n - 1)
  PROVE  Takes(IF Usable(services[n]) THEN Append(r, services[n]) ELSE r, services, n)
<1>1. Len(services) \in Nat /\ n \in Nat /\ n - 1 \in Nat /\ IsList(r)
  BY ListProperties DEF Takes
<1>2. \A i \in 1..n : i \in 1..n - 1 \/ i = n
  BY <1>1
<1>3. n \in 1..n /\ \A i \in 1..n - 1 : i \in 1..n
  BY <1>1
<1> DEFINE x == services[n]
           T(k) == {services[i] : i \in {i \in 1..k : Usable(services[i])}}
<1>4. CASE ~Usable(x)
  <2>1. T(n) = T(n - 1)
    BY <1>2, <1>3, <1>4
  <2>2. ToSet(r) = T(n)
    BY <2>1 DEF Takes
  <2>3. Takes(r, services, n)
    BY <1>1, <1>3, <1>4, <2>2 DEF Takes
  <2> QED
    BY <1>4, <2>3
<1>5. CASE Usable(x)
  <2> DEFINE q == Append(r, x)
  <2>1. /\ IsList(q) /\ Len(q) = Len(r) + 1
        /\ \A i \in 1..Len(r) : q[i] = r[i]
        /\ q[Len(r) + 1] = x
        /\ ToSet(q) = ToSet(r) \union {x}
    BY <1>1, AppendList
  <2>2. T(n) = T(n - 1) \union {x}
    BY <1>2, <1>3, <1>5
  <2>3. ToSet(q) = T(n)
    BY <2>1, <2>2 DEF Takes
  <2> HIDE DEF q, T, x
  <2>4. ASSUME \A i \in 1..n : Usable(services[i])
        PROVE  Len(q) = n /\ \A i \in 1..n : q[i] = services[i]
    <3>1. Len(r) = n - 1 /\ \A i \in 1..n - 1 : r[i] = services[i]
      BY <1>3, <2>4 DEF Takes
    <3>2. Len(q) = n /\ (\A i \in 1..n - 1 : q[i] = services[i]) /\ q[n] = services[n]
      BY <1>1, <2>1, <3>1 DEF x
    <3> QED
      BY <1>2, <3>2
  <2>5. Takes(q, services, n)
    BY <2>1, <2>3, <2>4 DEF Takes, T
  <2> QED
    BY <1>5, <2>5 DEF q, x
<1> QED
  BY <1>4, <1>5

(* Exactly the usable services are taken, and a list of usable ones stays  *)
(* what it is.                                                             *)
LEMMA UsableOfResult ==
  ASSUME NEW services, IsList(services)
  PROVE  /\ IsList(UsableOf(services))
         /\ ToSet(UsableOf(services)) = {svc \in ToSet(services) : Usable(svc)}
         /\ (\A svc \in ToSet(services) : Usable(svc)) => UsableOf(services) = services
<1> DEFINE f == CHOOSE f : IsTaken(f, services)
           m == Len(services)
           S == {n \in 0 .. m : Takes(f[n], services, n)}
<1>1. IsTaken(f, services)
  BY TakenExists
<1>2. UsableOf(services) = f[m]
  BY DEF UsableOf, IsTaken
<1> HIDE DEF f
<1>3. /\ m \in Nat /\ DOMAIN services = 1..m
      /\ services = [i \in 1..m |-> services[i]]
      /\ \A x : x \in ToSet(services) <=> \E i \in 1..m : services[i] = x
  BY ListProperties
<1>4. \A i \in 0..m : f[i] = IF i = 0 THEN <<>>
                             ELSE IF Usable(services[i]) THEN Append(f[i - 1], services[i]) ELSE f[i - 1]
  BY <1>1 DEF IsTaken
<1>5. 0 \in S
  <2>1. f[0] = <<>> /\ 1..0 = {}
    BY <1>3, <1>4
  <2>2. Takes(f[0], services, 0)
    BY <2>1, EmptyList DEF Takes
  <2> QED
    BY <1>3, <2>2
<1>6. ASSUME NEW n \in 1 .. m, n - 1 \in S
      PROVE  n \in S
  <2>1. n \in 0 .. m /\ n # 0
    BY <1>3
  <2>2. f[n] = IF Usable(services[n]) THEN Append(f[n - 1], services[n]) ELSE f[n - 1]
    BY <1>4, <2>1
  <2>3. Takes(f[n], services, n)
    BY <1>6, <2>2, TakesStep
  <2> QED
    BY <2>1, <2>3
<1>7. Takes(f[m], services, m)
  <2> HIDE DEF S, m
  <2>1. 0 .. m \subseteq S
    BY <1>3, <1>5, <1>6, InductionUpTo
  <2> QED
    BY <1>3, <2>1 DEF S
<1> DEFINE r == f[m]
<1>8. IsList(r) /\ ToSet(r) = {services[i] : i \in {i \in 1..m : Usable(services[i])}}
  BY <1>7 DEF Takes
<1>9. ToSet(r) = {svc \in ToSet(services) : Usable(svc)}
  BY <1>3, <1>8
<1>10. ASSUME \A svc \in ToSet(services) : Usable(svc)
       PROVE  r = services
  <2>1. \A i \in 1..m : Usable(services[i])
    BY <1>3, <1>10
  <2>2. Len(r) = m /\ \A i \in 1..m : r[i] = services[i]
    BY <1>7, <2>1 DEF Takes
  <2>3. r = [i \in 1..Len(r) |-> r[i]]
    BY <1>8, ListProperties
  <2> HIDE DEF r
  <2> QED
    BY <1>3, <2>2, <2>3
<1> QED
  BY <1>2, <1>8, <1>9, <1>10
-----------------------------------------------------------------------------
(* Health checks. *)

ES == "expect_status"
Counts == Numbers \ {ES}

LEMMA NumbersFact == ES \in Numbers
BY DEF ES, Numbers

CheckShape(hc) ==
  /\ hc = [name |-> hc.name, type |-> hc.type, text |-> hc.text, num |-> hc.num]
  /\ hc.text = [f \in Fields |-> hc.text[f]]
  /\ hc.num \in [Numbers -> Int]

\* A check the program has: its numbers are set.
CheckOK(hc) ==
  /\ CheckShape(hc)
  /\ \A n \in Counts : hc.num[n] > 0
  /\ hc.type = "http" => hc.num[ES] # 0

\* The status of an http check is one.
StatusOK(hc) == hc.type = "http" => hc.num[ES] > 0

LEMMA WithDefaultsResult ==
  ASSUME NEW hc, CheckShape(hc)
  PROVE  /\ CheckOK(WithDefaults(hc))
         /\ WithDefaults(hc).name = hc.name
         /\ WithDefaults(hc).type = hc.type
         /\ WithDefaults(hc).text = hc.text
         /\ \A n \in Counts : hc.num[n] > 0 => WithDefaults(hc).num[n] = hc.num[n]
         /\ hc.num[ES] # 0 \/ hc.type # "http" => WithDefaults(hc).num[ES] = hc.num[ES]
<1> DEFINE d == [n \in Numbers |->
                   IF n = "expect_status"
                   THEN IF hc.type = "http" /\ hc.num[n] = 0 THEN DefaultNumber[n] ELSE hc.num[n]
                   ELSE IF hc.num[n] <= 0 THEN DefaultNumber[n] ELSE hc.num[n]]
           r == WithDefaults(hc)
<1>1. r = [hc EXCEPT !.num = d]
  BY DEF WithDefaults
<1>2. \A n \in Numbers : DefaultNumber[n] \in Int /\ DefaultNumber[n] > 0
  <2>1. /\ DefaultNumber["interval"] = 30 /\ DefaultNumber["timeout"] = 5
        /\ DefaultNumber["failures"] = 3 /\ DefaultNumber["expect_status"] = 200
    BY DEF DefaultNumber
  <2> QED
    BY <2>1 DEF Numbers
<1>3. \A n \in Numbers : hc.num[n] \in Int
  BY DEF CheckShape
<1>4. d \in [Numbers -> Int]
  BY <1>2, <1>3
<1>5. \A n \in Counts : d[n] > 0 /\ (hc.num[n] > 0 => d[n] = hc.num[n])
  BY <1>2, <1>3 DEF Counts, ES
<1>6. /\ hc.type = "http" => d[ES] # 0
      /\ hc.num[ES] # 0 \/ hc.type # "http" => d[ES] = hc.num[ES]
  BY <1>2, <1>3, NumbersFact DEF ES
<1> HIDE DEF d, r
<1>7. r = [name |-> hc.name, type |-> hc.type, text |-> hc.text, num |-> d]
  BY <1>1 DEF CheckShape
<1>8. r.name = hc.name /\ r.type = hc.type /\ r.text = hc.text /\ r.num = d
  BY <1>7
<1>9. CheckShape(r)
  BY <1>4, <1>7, <1>8 DEF CheckShape
<1>10. CheckOK(r)
  BY <1>5, <1>6, <1>8, <1>9 DEF CheckOK
<1> QED
  BY <1>5, <1>6, <1>8, <1>10 DEF r

\* The table a file has of a check, its numbers whole.
LEMMA FromMapResult ==
  ASSUME NEW m, \A n \in DOMAIN m.num : m.num[n] \in Int
  PROVE  /\ CheckOK(healthCheckFromMap(m))
         /\ healthCheckFromMap(m).name = m.name
         /\ healthCheckFromMap(m).type = m.type
         /\ \A f \in Fields : healthCheckFromMap(m).text[f] = IF f \in DOMAIN m.text THEN m.text[f] ELSE ""
         /\ \A n \in Counts : n \in DOMAIN m.num /\ m.num[n] > 0 => healthCheckFromMap(m).num[n] = m.num[n]
         /\ ES \in DOMAIN m.num /\ m.num[ES] > 0 => healthCheckFromMap(m).num[ES] = m.num[ES]
<1> DEFINE t == [f \in Fields  |-> IF f \in DOMAIN m.text THEN m.text[f] ELSE ""]
           k == [n \in Numbers |-> IF n \in DOMAIN m.num THEN m.num[n] ELSE 0]
           b == [name |-> m.name, type |-> m.type, text |-> t, num |-> k]
<1>1. healthCheckFromMap(m) = WithDefaults(b)
  BY DEF healthCheckFromMap
<1>2. k \in [Numbers -> Int]
  OBVIOUS
<1>3. t = [f \in Fields |-> t[f]]
  OBVIOUS
<1>4. \A f \in Fields : t[f] = IF f \in DOMAIN m.text THEN m.text[f] ELSE ""
  OBVIOUS
<1>5. \A n \in Numbers : n \in DOMAIN m.num => k[n] = m.num[n]
  OBVIOUS
<1> HIDE DEF t, k
<1>6. b.name = m.name /\ b.type = m.type /\ b.text = t /\ b.num = k
  OBVIOUS
<1>7. b = [name |-> b.name, type |-> b.type, text |-> b.text, num |-> b.num]
  OBVIOUS
<1> HIDE DEF b
<1>8. CheckShape(b)
  BY <1>2, <1>3, <1>6, <1>7 DEF CheckShape
<1>9. \A n \in Counts : n \in Numbers
  BY DEF Counts
<1> DEFINE r == WithDefaults(b)
<1>10. /\ CheckOK(r)
       /\ r.name = b.name /\ r.type = b.type /\ r.text = b.text
       /\ \A n \in Counts : b.num[n] > 0 => r.num[n] = b.num[n]
       /\ b.num[ES] # 0 \/ b.type # "http" => r.num[ES] = b.num[ES]
  BY <1>8, WithDefaultsResult
<1> HIDE DEF r
<1>11. \A n \in Counts : n \in DOMAIN m.num /\ m.num[n] > 0 => r.num[n] = m.num[n]
  BY <1>5, <1>6, <1>9, <1>10
<1>12. ES \in DOMAIN m.num /\ m.num[ES] > 0 => r.num[ES] = m.num[ES]
  <2> SUFFICES ASSUME ES \in DOMAIN m.num, m.num[ES] > 0
               PROVE  r.num[ES] = m.num[ES]
    OBVIOUS
  <2>1. b.num[ES] = m.num[ES]
    BY <1>5, <1>6, NumbersFact
  <2>2. m.num[ES] # 0
    OBVIOUS
  <2> QED
    BY <1>10, <2>1, <2>2
<1>13. r = healthCheckFromMap(m)
  BY <1>1 DEF r
<1> QED
  BY <1>4, <1>6, <1>10, <1>11, <1>12, <1>13

\* A check on its way through the file.
Through(hc) == healthCheckFromMap(healthCheckToMap(hc))

\* What of it counts.
StatusCounts(hc) == IF hc.type = "http" THEN hc ELSE [hc EXCEPT !.num["expect_status"] = 0]

LEMMA ThroughResult ==
  ASSUME NEW hc, CheckOK(hc)
  PROVE  /\ CheckOK(Through(hc))
         /\ Through(hc).name = hc.name /\ Through(hc).type = hc.type /\ Through(hc).text = hc.text
         /\ \A n \in Counts : Through(hc).num[n] = hc.num[n]
         /\ hc.type = "http" /\ StatusOK(hc) => Through(hc).num[ES] = hc.num[ES]
<1> DEFINE Text == {f \in Fields : hc.text[f] # ""}
           Nums == {n \in Numbers : hc.num[n] > 0 /\ (n = "expect_status" => hc.type = "http")}
           t == [f \in Text |-> hc.text[f]]
           k == [n \in Nums |-> hc.num[n]]
           m == [name |-> hc.name, type |-> hc.type, text |-> t, num |-> k]
           r == healthCheckFromMap(m)
<1>1. Through(hc) = r
  BY DEF Through, healthCheckToMap
<1>2. \A n \in Nums : n \in Numbers /\ k[n] = hc.num[n]
  OBVIOUS
<1>3. DOMAIN k = Nums /\ DOMAIN t = Text /\ \A f \in Text : t[f] = hc.text[f]
  OBVIOUS
<1>4. \A f \in Fields : f \notin Text => hc.text[f] = ""
  OBVIOUS
<1>5. \A n \in Numbers : hc.num[n] \in Int
  BY DEF CheckOK, CheckShape
<1>6. \A n \in Counts : n \in Nums /\ hc.num[n] > 0
  BY DEF CheckOK, Counts, ES
<1>7. hc.type = "http" /\ StatusOK(hc) => ES \in Nums /\ hc.num[ES] > 0
  BY NumbersFact DEF StatusOK, ES
<1> HIDE DEF t, k, Text, Nums
<1>8. m.name = hc.name /\ m.type = hc.type /\ m.text = t /\ m.num = k
  OBVIOUS
<1> HIDE DEF m, r
<1>9. \A n \in DOMAIN m.num : m.num[n] \in Int
  BY <1>2, <1>3, <1>5, <1>8
<1>10. /\ CheckOK(r) /\ r.name = m.name /\ r.type = m.type
       /\ \A f \in Fields : r.text[f] = IF f \in DOMAIN m.text THEN m.text[f] ELSE ""
       /\ \A n \in Counts : n \in DOMAIN m.num /\ m.num[n] > 0 => r.num[n] = m.num[n]
       /\ ES \in DOMAIN m.num /\ m.num[ES] > 0 => r.num[ES] = m.num[ES]
  BY <1>9, FromMapResult DEF r
<1>11. \A f \in Fields : r.text[f] = hc.text[f]
  BY <1>3, <1>4, <1>8, <1>10
<1>12. r.text = hc.text
  <2>1. r.text = [f \in Fields |-> r.text[f]] /\ hc.text = [f \in Fields |-> hc.text[f]]
    BY <1>10 DEF CheckOK, CheckShape
  <2>2. [f \in Fields |-> r.text[f]] = [f \in Fields |-> hc.text[f]]
    BY <1>11
  <2> QED
    BY <2>1, <2>2
<1>13. \A n \in Counts : r.num[n] = hc.num[n]
  BY <1>2, <1>3, <1>6, <1>8, <1>10
<1>14. hc.type = "http" /\ StatusOK(hc) => r.num[ES] = hc.num[ES]
  BY <1>2, <1>3, <1>7, <1>8, <1>10
<1> QED
  BY <1>1, <1>8, <1>10, <1>12, <1>13, <1>14

\* What counts of a check survives the file.
LEMMA ThroughCounts ==
  ASSUME NEW hc, CheckOK(hc), StatusOK(hc)
  PROVE  StatusCounts(Through(hc)) = StatusCounts(hc)
<1> DEFINE r == Through(hc)
<1>1. /\ CheckOK(r)
      /\ r.name = hc.name /\ r.type = hc.type /\ r.text = hc.text
      /\ \A n \in Counts : r.num[n] = hc.num[n]
      /\ hc.type = "http" => r.num[ES] = hc.num[ES]
  BY ThroughResult
<1> HIDE DEF r
<1>2. r.num \in [Numbers -> Int] /\ hc.num \in [Numbers -> Int]
  BY <1>1 DEF CheckOK, CheckShape
<1>3. /\ r = [name |-> r.name, type |-> r.type, text |-> r.text, num |-> r.num]
      /\ hc = [name |-> hc.name, type |-> hc.type, text |-> hc.text, num |-> hc.num]
  BY <1>1 DEF CheckOK, CheckShape
<1>4. \A n \in Numbers : n \in Counts \/ n = ES
  BY DEF Counts
<1>5. CASE hc.type = "http"
  <2>1. \A n \in Numbers : r.num[n] = hc.num[n]
    BY <1>1, <1>4, <1>5
  <2>2. r.num = hc.num
    BY <1>2, <2>1
  <2>3. r = hc
    BY <1>1, <1>3, <2>2
  <2> QED
    BY <2>3 DEF r, StatusCounts
<1>6. CASE hc.type # "http"
  <2> DEFINE Z(k) == [k EXCEPT !["expect_status"] = 0]
  <2>1. Z(r.num) = Z(hc.num)
    BY <1>1, <1>2, <1>4 DEF ES
  <2>2. StatusCounts(r) = [name |-> r.name, type |-> r.type, text |-> r.text, num |-> Z(r.num)]
    BY <1>1, <1>3, <1>6 DEF StatusCounts
  <2>3. StatusCounts(hc) = [name |-> hc.name, type |-> hc.type, text |-> hc.text, num |-> Z(hc.num)]
    BY <1>3, <1>6 DEF StatusCounts
  <2> HIDE DEF Z
  <2> QED
    BY <1>1, <2>1, <2>2, <2>3 DEF r
<1> QED
  BY <1>5, <1>6

\* A valid check is valid afterwards.
LEMMA ThroughValid ==
  ASSUME NEW hc, CheckOK(hc), Valid(hc, {})
  PROVE  Valid(Through(hc), {})
<1> DEFINE r == Through(hc)
<1>1. StatusOK(hc)
  <2>1. hc.type = "http" => hc.num["expect_status"] \in 100..599
    BY DEF Valid
  <2> QED
    BY <2>1 DEF StatusOK, ES
<1>2. /\ r.name = hc.name /\ r.type = hc.type /\ r.text = hc.text
      /\ \A n \in Counts : r.num[n] = hc.num[n]
      /\ hc.type = "http" => r.num[ES] = hc.num[ES]
  BY <1>1, ThroughResult
<1> HIDE DEF r
<1>3. {"interval", "timeout", "failures"} \subseteq Counts
  BY DEF Counts, Numbers, ES
<1>4. r.num["interval"] = hc.num["interval"] /\ r.num["timeout"] = hc.num["timeout"]
      /\ r.num["failures"] = hc.num["failures"]
  BY <1>2, <1>3
<1>5. Valid(r, {})
  BY <1>2, <1>4 DEF Valid, ES
<1> QED
  BY <1>5 DEF r
-----------------------------------------------------------------------------
(* Lists of checks. *)

ChecksOK(checks) == IsList(checks) /\ \A hc \in ToSet(checks) : CheckOK(hc)

LEMMA ValidIs ==
  ASSUME NEW hc, NEW others
  PROVE  Valid(hc, others) <=> (Valid(hc, {}) /\ \A o \in others : o.name # hc.name)
BY DEF Valid

\* Every check is valid and no two have one name.
LEMMA ValidList ==
  ASSUME NEW checks, IsList(checks)
  PROVE  ValidateHealthChecks(checks)
           <=> /\ \A i \in 1..Len(checks) : Valid(checks[i], {})
               /\ \A i, j \in 1..Len(checks) : i # j => checks[i].name # checks[j].name
<1>1. Len(checks) \in Nat /\ DOMAIN checks = 1..Len(checks)
  BY ListProperties
<1> DEFINE E(i) == Valid(checks[i], {})
           N(i) == \A o \in {checks[j] : j \in 1..i - 1} : o.name # checks[i].name
<1>2. ValidateHealthChecks(checks) <=> \A i \in 1..Len(checks) : E(i) /\ N(i)
  <2>1. ValidateHealthChecks(checks)
          <=> \A i \in 1..Len(checks) : Valid(checks[i], {checks[j] : j \in 1..i - 1})
    BY <1>1 DEF ValidateHealthChecks
  <2>2. \A i \in 1..Len(checks) : Valid(checks[i], {checks[j] : j \in 1..i - 1}) <=> (E(i) /\ N(i))
    BY ValidIs
  <2> QED
    BY <2>1, <2>2
<1>3. \A i \in 1..Len(checks) : N(i) <=> \A j \in 1..i - 1 : checks[j].name # checks[i].name
  OBVIOUS
<1> HIDE DEF E, N
<1>4. (\A i \in 1..Len(checks) : N(i))
        <=> \A i, j \in 1..Len(checks) : i # j => checks[i].name # checks[j].name
  <2>1. ASSUME \A i \in 1..Len(checks) : N(i), NEW i \in 1..Len(checks), NEW j \in 1..Len(checks), i # j
        PROVE  checks[i].name # checks[j].name
    <3>1. i \in 1..j - 1 \/ j \in 1..i - 1
      BY <1>1, <2>1
    <3> QED
      BY <1>3, <2>1, <3>1
  <2>2. ASSUME \A i, j \in 1..Len(checks) : i # j => checks[i].name # checks[j].name,
               NEW i \in 1..Len(checks)
        PROVE  N(i)
    <3>1. \A j \in 1..i - 1 : j \in 1..Len(checks) /\ j # i
      BY <1>1
    <3> QED
      BY <1>3, <2>2, <3>1
  <2> QED
    BY <2>1, <2>2
<1> QED
  BY <1>2, <1>4 DEF E

LEMMA AppendValid ==
  ASSUME NEW checks, IsList(checks), ValidateHealthChecks(checks), NEW hc, Valid(hc, ToSet(checks))
  PROVE  ValidateHealthChecks(Append(checks, hc))
<1> DEFINE n == Len(checks)
           r == Append(checks, hc)
<1>1. n \in Nat /\ (\A i \in 1..n : checks[i] \in ToSet(checks))
  BY ListProperties
<1>2. IsList(r) /\ Len(r) = n + 1 /\ (\A i \in 1..n : r[i] = checks[i]) /\ r[n + 1] = hc
  BY AppendList
<1>3. /\ \A i \in 1..n : Valid(checks[i], {})
      /\ \A i, j \in 1..n : i # j => checks[i].name # checks[j].name
  BY ValidList
<1>4. Valid(hc, {}) /\ \A i \in 1..n : checks[i].name # hc.name
  BY <1>1, ValidIs
<1>5. \A i \in 1..n + 1 : i \in 1..n \/ i = n + 1
  BY <1>1
<1> HIDE DEF n, r
<1>6. \A i \in 1..n + 1 : Valid(r[i], {})
  BY <1>2, <1>3, <1>4, <1>5
<1>7. \A i, j \in 1..n + 1 : i # j => r[i].name # r[j].name
  BY <1>2, <1>3, <1>4, <1>5
<1>8. ValidateHealthChecks(r)
  BY <1>2, <1>6, <1>7, ValidList
<1> QED
  BY <1>8 DEF r

LEMMA ReplaceValid ==
  ASSUME NEW checks, IsList(checks), ValidateHealthChecks(checks), NEW i \in DOMAIN checks,
         NEW hc, Valid(hc, ToSet(RemoveAt(checks, i)))
  PROVE  ValidateHealthChecks([checks EXCEPT ![i] = hc])
<1> DEFINE n == Len(checks)
           r == [checks EXCEPT ![i] = hc]
<1>1. n \in Nat /\ DOMAIN checks = 1..n
  BY ListProperties
<1>2. IsList(r) /\ Len(r) = n /\ r[i] = hc /\ \A j \in 1..n : j # i => r[j] = checks[j]
  BY <1>1, ReplaceList
<1>3. /\ \A j \in 1..n : Valid(checks[j], {})
      /\ \A j, k \in 1..n : j # k => checks[j].name # checks[k].name
  BY ValidList
<1>4. \A j \in 1..n : j # i => checks[j] \in ToSet(RemoveAt(checks, i))
  BY RemoveAtList
<1>5. Valid(hc, {}) /\ \A j \in 1..n : j # i => checks[j].name # hc.name
  BY <1>4, ValidIs
<1> HIDE DEF n, r
<1>6. \A j \in 1..n : Valid(r[j], {})
  BY <1>2, <1>3, <1>5
<1>7. \A j, k \in 1..n : j # k => r[j].name # r[k].name
  BY <1>2, <1>3, <1>5
<1>8. ValidateHealthChecks(r)
  BY <1>2, <1>6, <1>7, ValidList
<1> QED
  BY <1>8 DEF r

LEMMA RemoveValid ==
  ASSUME NEW checks, IsList(checks), ValidateHealthChecks(checks), NEW i \in DOMAIN checks
  PROVE  ValidateHealthChecks(RemoveAt(checks, i))
<1> DEFINE n == Len(checks)
           r == RemoveAt(checks, i)
<1>1. n \in Nat /\ i \in 1..n
  BY ListProperties
<1>2. /\ IsList(r) /\ Len(r) = n - 1
      /\ \A j \in 1..n - 1 : Skip(i, j) \in 1..n /\ r[j] = checks[Skip(i, j)]
  BY RemoveAtList
<1>3. /\ \A j \in 1..n : Valid(checks[j], {})
      /\ \A j, k \in 1..n : j # k => checks[j].name # checks[k].name
  BY ValidList
<1>4. \A j, k \in 1..n - 1 : j # k => Skip(i, j) # Skip(i, k)
  BY <1>1 DEF Skip
<1> HIDE DEF n, r
<1>5. \A j \in 1..n - 1 : Valid(r[j], {})
  BY <1>2, <1>3
<1>6. \A j, k \in 1..n - 1 : j # k => r[j].name # r[k].name
  BY <1>2, <1>3, <1>4
<1>7. ValidateHealthChecks(r)
  BY <1>2, <1>5, <1>6, ValidList
<1> QED
  BY <1>7 DEF r
-----------------------------------------------------------------------------
(* Configurations. *)

CfgShape(c) ==
  c = [creds |-> c.creds, monitor |-> c.monitor, interval |-> c.interval,
       threshold |-> c.threshold, watch |-> c.watch, cooldown |-> c.cooldown,
       services |-> c.services, checks |-> c.checks]

\* A configuration the program has.
CfgOK(c) ==
  /\ CfgShape(c)
  /\ c.monitor = [k \in Toggles |-> c.monitor[k]]
  /\ c.interval = [k \in Intervals |-> c.interval[k]]
  /\ c.threshold = [k \in Thresholds |-> c.threshold[k]]
  /\ c.watch = [l \in Lists |-> c.watch[l]]
  /\ c.cooldown = [k \in DOMAIN c.cooldown |-> c.cooldown[k]]
  /\ IsList(c.services) /\ \A svc \in ToSet(c.services) : Usable(svc)
  /\ ChecksOK(c.checks)

LEMMA DefaultCfgOK ==
  ASSUME NEW e
  PROVE  CfgOK(defaultWithEnv(e)) /\ defaultWithEnv(e).checks = <<>> /\ defaultWithEnv(e).creds = e
<1> DEFINE r == defaultWithEnv(e)
           mo == [k \in Toggles |-> TRUE]
           iv == [k \in Intervals |-> DefaultInterval]
           th == [k \in Thresholds |-> DefaultThreshold]
           wa == [l \in Lists |-> <<>>]
           co == NoKeys
           no == <<>>
<1>1. DefaultConfig = [creds |-> "", monitor |-> mo, interval |-> iv, threshold |-> th,
                       watch |-> wa, cooldown |-> co, services |-> no, checks |-> no]
  BY DEF DefaultConfig
<1>2. r = [DefaultConfig EXCEPT !.creds = e]
  BY DEF defaultWithEnv
<1>3. /\ mo = [k \in Toggles |-> mo[k]] /\ iv = [k \in Intervals |-> iv[k]]
      /\ th = [k \in Thresholds |-> th[k]] /\ wa = [l \in Lists |-> wa[l]]
  OBVIOUS
<1>4. co = [k \in DOMAIN co |-> co[k]]
  BY DEF NoKeys
<1>5. IsList(no) /\ ToSet(no) = {}
  BY EmptyList
<1> HIDE DEF r, mo, iv, th, wa, co, no
<1>6. r = [creds |-> e, monitor |-> mo, interval |-> iv, threshold |-> th,
           watch |-> wa, cooldown |-> co, services |-> no, checks |-> no]
  BY <1>1, <1>2
<1>7. /\ r.creds = e /\ r.monitor = mo /\ r.interval = iv /\ r.threshold = th
      /\ r.watch = wa /\ r.cooldown = co /\ r.services = no /\ r.checks = no
  BY <1>6
<1>8. CfgShape(r)
  BY <1>6, <1>7 DEF CfgShape
<1>9. CfgOK(r)
  BY <1>3, <1>4, <1>5, <1>7, <1>8 DEF CfgOK, ChecksOK
<1> QED
  BY <1>7, <1>9 DEF r, no

\* What the program makes of a file.
LEMMA FromFile ==
  ASSUME NEW t, Decoded(t), NEW e
  PROVE  /\ CfgOK(ConfigFromMap(t, e))
         /\ ConfigFromMap(t, e).creds = IF e # "" THEN e ELSE t.telegram
         /\ ConfigFromMap(t, e).services = UsableOf(t.custom_services)
         /\ ConfigFromMap(t, e).checks =
              [i \in DOMAIN t.health_checks |-> healthCheckFromMap(t.health_checks[i])]
<1> DEFINE r == ConfigFromMap(t, e)
           iv == Overlay(DefaultConfig.interval, t.pollers, "int")
           th == Overlay(DefaultConfig.threshold, t.thresholds, "float")
           mo == [k \in Toggles |-> IF k \in DOMAIN t.monitor THEN t.monitor[k] ELSE TRUE]
           wa == [l \in Lists |-> IF l \in DOMAIN t.watch THEN t.watch[l] ELSE <<>>]
           co == [k \in DOMAIN t.cooldowns |-> t.cooldowns[k].value]
           sv == UsableOf(t.custom_services)
           ch == [i \in DOMAIN t.health_checks |-> healthCheckFromMap(t.health_checks[i])]
           cr == IF e # "" THEN e ELSE t.telegram
<1>1. r = [creds |-> cr, monitor |-> mo, interval |-> iv, threshold |-> th, watch |-> wa,
           cooldown |-> co, services |-> sv, checks |-> ch]
  BY DEF ConfigFromMap
<1>2. mo = [k \in Toggles |-> mo[k]] /\ wa = [l \in Lists |-> wa[l]] /\ co = [k \in DOMAIN co |-> co[k]]
  OBVIOUS
<1>3. DOMAIN DefaultConfig.interval = Intervals /\ DOMAIN DefaultConfig.threshold = Thresholds
  BY DEF DefaultConfig
<1>4. iv = [k \in Intervals |-> iv[k]]
  BY <1>3 DEF Overlay
<1>5. th = [k \in Thresholds |-> th[k]]
  BY <1>3 DEF Overlay
<1>6. IsList(t.custom_services) /\ IsList(t.health_checks)
      /\ \A m \in ToSet(t.health_checks) : \A n \in DOMAIN m.num : m.num[n] \in Int
  BY DEF Decoded, IsList
<1>7. IsList(sv) /\ \A svc \in ToSet(sv) : Usable(svc)
  BY <1>6, UsableOfResult
<1>8. ChecksOK(ch)
  <2>1. /\ Len(t.health_checks) \in Nat
        /\ DOMAIN t.health_checks = 1..Len(t.health_checks)
        /\ \A i \in 1..Len(t.health_checks) : t.health_checks[i] \in ToSet(t.health_checks)
    BY <1>6, ListProperties
  <2>2. DOMAIN ch = 1..Len(t.health_checks) /\ ch = [i \in 1..Len(t.health_checks) |-> ch[i]]
        /\ \A i \in 1..Len(t.health_checks) : ch[i] = healthCheckFromMap(t.health_checks[i])
    BY <2>1
  <2> HIDE DEF ch
  <2>3. IsList(ch)
    BY <2>1, <2>2, FunctionIsList
  <2>4. \A i \in 1..Len(t.health_checks) : CheckOK(ch[i])
    BY <1>6, <2>1, <2>2, FromMapResult
  <2> QED
    BY <2>2, <2>3, <2>4 DEF ChecksOK, ToSet
<1> HIDE DEF r, iv, th, mo, wa, co, sv, ch, cr
<1>9. /\ r.creds = cr /\ r.monitor = mo /\ r.interval = iv /\ r.threshold = th /\ r.watch = wa
      /\ r.cooldown = co /\ r.services = sv /\ r.checks = ch
  BY <1>1
<1>10. CfgShape(r)
  BY <1>1, <1>9 DEF CfgShape
<1>11. CfgOK(r)
  BY <1>2, <1>4, <1>5, <1>7, <1>8, <1>9, <1>10 DEF CfgOK
<1> QED
  BY <1>9, <1>11 DEF r, sv, ch, cr

LEMMA ReadOK ==
  ASSUME NEW f, Decoded(f.data), NEW e
  PROVE  /\ CfgOK(readConfig(f, e))
         /\ readConfig(f, e).creds = IF f.is = "toml" /\ e = "" THEN f.data.telegram ELSE e
         /\ readConfig(f, e).checks = readConfig(f, "").checks
<1>1. CASE f.is = "toml"
  <2>1. readConfig(f, e) = ConfigFromMap(f.data, e) /\ readConfig(f, "") = ConfigFromMap(f.data, "")
    BY <1>1 DEF readConfig
  <2>2. /\ CfgOK(ConfigFromMap(f.data, e))
        /\ ConfigFromMap(f.data, e).creds = IF e # "" THEN e ELSE f.data.telegram
    BY FromFile
  <2>3. \A x : ConfigFromMap(f.data, x).checks =
                 [i \in DOMAIN f.data.health_checks |-> healthCheckFromMap(f.data.health_checks[i])]
    BY FromFile
  <2>4. ConfigFromMap(f.data, e).checks = ConfigFromMap(f.data, "").checks
    BY <2>3
  <2> QED
    BY <1>1, <2>1, <2>2, <2>4
<1>2. CASE f.is # "toml"
  <2>1. readConfig(f, e) = defaultWithEnv(e) /\ readConfig(f, "") = defaultWithEnv("")
    BY <1>2 DEF readConfig
  <2>2. \A x : CfgOK(defaultWithEnv(x)) /\ defaultWithEnv(x).checks = <<>> /\ defaultWithEnv(x).creds = x
    BY DefaultCfgOK
  <2> QED
    BY <1>2, <2>1, <2>2
<1> QED
  BY <1>1, <1>2

\* What is written can be read.
LEMMA ToFile ==
  ASSUME NEW c, CfgOK(c)
  PROVE  /\ Decoded(ConfigToMap(c))
         /\ ConfigToMap(c).telegram = ""
         /\ ConfigToMap(c).custom_services = c.services
         /\ ConfigToMap(c).health_checks = [i \in DOMAIN c.checks |-> healthCheckToMap(c.checks[i])]
<1> DEFINE m == ConfigToMap(c)
           ch == [i \in DOMAIN c.checks |-> healthCheckToMap(c.checks[i])]
<1>1. m.telegram = "" /\ m.custom_services = c.services /\ m.health_checks = ch
  BY DEF ConfigToMap
<1>2. /\ Len(c.checks) \in Nat
      /\ DOMAIN c.checks = 1..Len(c.checks)
      /\ \A i \in 1..Len(c.checks) : CheckOK(c.checks[i])
  BY ListProperties DEF CfgOK, ChecksOK
<1>3. DOMAIN ch = 1..Len(c.checks) /\ ch = [i \in 1..Len(c.checks) |-> ch[i]]
      /\ \A i \in 1..Len(c.checks) : ch[i] = healthCheckToMap(c.checks[i])
  BY <1>2
<1>4. ASSUME NEW hc, CheckOK(hc)
      PROVE  \A n \in DOMAIN healthCheckToMap(hc).num : healthCheckToMap(hc).num[n] \in Int
  BY <1>4 DEF healthCheckToMap, CheckOK, CheckShape
<1> HIDE DEF m, ch
<1>5. IsList(ch)
  BY <1>2, <1>3, FunctionIsList
<1>6. ASSUME NEW t \in ToSet(ch), NEW n \in DOMAIN t.num
      PROVE  t.num[n] \in Int
  <2>1. PICK i \in 1..Len(c.checks) : t = ch[i]
    BY <1>3 DEF ToSet
  <2>2. t = healthCheckToMap(c.checks[i]) /\ CheckOK(c.checks[i])
    BY <1>2, <1>3, <2>1
  <2> QED
    BY <1>4, <2>2
<1>7. Decoded(m)
  BY <1>1, <1>5, <1>6 DEF Decoded, IsList, CfgOK
<1> QED
  BY <1>1, <1>7 DEF m, ch
-----------------------------------------------------------------------------
(* Through the file and back. *)

LEMMA RoundTripFields ==
  ASSUME NEW c, CfgOK(c), NEW e
  PROVE  /\ ConfigFromMap(ConfigToMap(c), e).monitor = c.monitor
         /\ ConfigFromMap(ConfigToMap(c), e).interval = c.interval
         /\ ConfigFromMap(ConfigToMap(c), e).threshold = c.threshold
         /\ ConfigFromMap(ConfigToMap(c), e).watch = c.watch
         /\ ConfigFromMap(ConfigToMap(c), e).cooldown = c.cooldown
         /\ ConfigFromMap(ConfigToMap(c), e).services = c.services
         /\ ConfigFromMap(ConfigToMap(c), e).checks = [i \in DOMAIN c.checks |-> Through(c.checks[i])]
<1> DEFINE m == ConfigToMap(c)
           r == ConfigFromMap(m, e)
<1>1. r.monitor = c.monitor
  <2>1. m.monitor = c.monitor
    BY DEF ConfigToMap
  <2>2. r.monitor = [k \in Toggles |-> IF k \in DOMAIN m.monitor THEN m.monitor[k] ELSE TRUE]
    BY DEF ConfigFromMap
  <2> HIDE DEF m, r
  <2>3. c.monitor = [k \in Toggles |-> c.monitor[k]]
    BY DEF CfgOK
  <2>4. DOMAIN c.monitor = Toggles
    BY <2>3
  <2>5. r.monitor = [k \in Toggles |-> c.monitor[k]]
    BY <2>1, <2>2, <2>4
  <2> QED
    BY <2>3, <2>5
<1>2. r.interval = c.interval
  <2>1. m.pollers = [k \in Intervals |-> Num("int", c.interval[k])]
    BY DEF ConfigToMap
  <2>2. r.interval = Overlay(DefaultConfig.interval, m.pollers, "int")
    BY DEF ConfigFromMap
  <2> HIDE DEF m, r
  <2>3. DOMAIN DefaultConfig.interval = Intervals
    BY DEF DefaultConfig
  <2>4. \A k \in Intervals : k \in DOMAIN m.pollers /\ m.pollers[k].kind = "int" /\ m.pollers[k].value = c.interval[k]
    BY <2>1 DEF Num
  <2>5. r.interval = [k \in Intervals |-> c.interval[k]]
    BY <2>2, <2>3, <2>4 DEF Overlay
  <2> QED
    BY <2>5 DEF CfgOK
<1>3. r.threshold = c.threshold
  <2>1. m.thresholds = [k \in Thresholds |-> Num("float", c.threshold[k])]
    BY DEF ConfigToMap
  <2>2. r.threshold = Overlay(DefaultConfig.threshold, m.thresholds, "float")
    BY DEF ConfigFromMap
  <2> HIDE DEF m, r
  <2>3. DOMAIN DefaultConfig.threshold = Thresholds
    BY DEF DefaultConfig
  <2>4. \A k \in Thresholds : /\ k \in DOMAIN m.thresholds /\ m.thresholds[k].kind = "float"
                              /\ m.thresholds[k].value = c.threshold[k]
    BY <2>1 DEF Num
  <2>5. r.threshold = [k \in Thresholds |-> c.threshold[k]]
    BY <2>2, <2>3, <2>4 DEF Overlay
  <2> QED
    BY <2>5 DEF CfgOK
<1>4. r.watch = c.watch
  <2>1. m.watch = [l \in {l \in Lists : c.watch[l] # <<>>} |-> c.watch[l]]
    BY DEF ConfigToMap
  <2>2. r.watch = [l \in Lists |-> IF l \in DOMAIN m.watch THEN m.watch[l] ELSE <<>>]
    BY DEF ConfigFromMap
  <2> HIDE DEF m, r
  <2>3. \A l \in Lists : (IF l \in DOMAIN m.watch THEN m.watch[l] ELSE <<>>) = c.watch[l]
    BY <2>1
  <2>4. r.watch = [l \in Lists |-> c.watch[l]]
    BY <2>2, <2>3
  <2> QED
    BY <2>4 DEF CfgOK
<1>5. r.cooldown = c.cooldown
  <2>1. m.cooldowns = [k \in DOMAIN c.cooldown |-> Num("float", c.cooldown[k])]
    BY DEF ConfigToMap
  <2>2. r.cooldown = [k \in DOMAIN m.cooldowns |-> m.cooldowns[k].value]
    BY DEF ConfigFromMap
  <2> HIDE DEF m, r
  <2>3. DOMAIN m.cooldowns = DOMAIN c.cooldown
        /\ \A k \in DOMAIN c.cooldown : m.cooldowns[k].value = c.cooldown[k]
    BY <2>1 DEF Num
  <2>4. r.cooldown = [k \in DOMAIN c.cooldown |-> c.cooldown[k]]
    BY <2>2, <2>3
  <2> QED
    BY <2>4 DEF CfgOK
<1>6. /\ Decoded(m) /\ m.custom_services = c.services
      /\ m.health_checks = [i \in DOMAIN c.checks |-> healthCheckToMap(c.checks[i])]
  BY ToFile
<1>7. /\ r.services = UsableOf(m.custom_services)
      /\ r.checks = [i \in DOMAIN m.health_checks |-> healthCheckFromMap(m.health_checks[i])]
  BY <1>6, FromFile
<1> HIDE DEF m, r
<1>8. r.services = c.services
  BY <1>6, <1>7, UsableOfResult DEF CfgOK
<1>9. r.checks = [i \in DOMAIN c.checks |-> Through(c.checks[i])]
  BY <1>6, <1>7 DEF Through
<1> QED
  BY <1>1, <1>2, <1>3, <1>4, <1>5, <1>8, <1>9 DEF r, m

LEMMA SettingsResult ==
  ASSUME NEW c, CfgShape(c)
  PROVE  Settings(c) =
           [creds |-> "", monitor |-> c.monitor, interval |-> c.interval,
            threshold |-> c.threshold, watch |-> c.watch, cooldown |-> c.cooldown,
            services |-> c.services, checks |-> [i \in DOMAIN c.checks |-> StatusCounts(c.checks[i])]]
<1> DEFINE k == [i \in DOMAIN c.checks |-> StatusCounts(c.checks[i])]
<1>1. Settings(c) = [c EXCEPT !.creds = "", !.checks = k]
  BY DEF Settings, StatusCounts
<1> DEFINE cr == c.creds
           mo == c.monitor
           iv == c.interval
           th == c.threshold
           wa == c.watch
           co == c.cooldown
           sv == c.services
           ch == c.checks
           no == ""
           d == [c EXCEPT !.creds = no]
<1>2. c = [creds |-> cr, monitor |-> mo, interval |-> iv, threshold |-> th, watch |-> wa,
           cooldown |-> co, services |-> sv, checks |-> ch]
  BY DEF CfgShape
<1>3. [c EXCEPT !.creds = "", !.checks = k] = [d EXCEPT !.checks = k]
  OBVIOUS
<1> HIDE DEF k, cr, mo, iv, th, wa, co, sv, ch, no
<1>4. d = [creds |-> no, monitor |-> mo, interval |-> iv, threshold |-> th, watch |-> wa,
           cooldown |-> co, services |-> sv, checks |-> ch]
  BY <1>2
<1> HIDE DEF d
<1>5. [d EXCEPT !.checks = k] =
          [creds |-> no, monitor |-> mo, interval |-> iv, threshold |-> th, watch |-> wa,
           cooldown |-> co, services |-> sv, checks |-> k]
  BY <1>4
<1> QED
  BY <1>1, <1>3, <1>5 DEF k, mo, iv, th, wa, co, sv, no

\* No setting is lost or made up on the way.
LEMMA RoundTrip ==
  ASSUME NEW c, CfgOK(c), \A hc \in ToSet(c.checks) : StatusOK(hc), NEW e
  PROVE  Settings(ConfigFromMap(ConfigToMap(c), e)) = Settings(c)
<1> DEFINE r == ConfigFromMap(ConfigToMap(c), e)
<1>1. /\ r.monitor = c.monitor /\ r.interval = c.interval /\ r.threshold = c.threshold
      /\ r.watch = c.watch /\ r.cooldown = c.cooldown /\ r.services = c.services
      /\ r.checks = [i \in DOMAIN c.checks |-> Through(c.checks[i])]
  BY RoundTripFields
<1>2. CfgOK(r)
  BY ToFile, FromFile
<1> HIDE DEF r
<1>3. CfgShape(r) /\ CfgShape(c)
  BY <1>2 DEF CfgOK
<1>4. [i \in DOMAIN r.checks |-> StatusCounts(r.checks[i])]
        = [i \in DOMAIN c.checks |-> StatusCounts(c.checks[i])]
  <2>1. \A i \in DOMAIN c.checks : CheckOK(c.checks[i]) /\ StatusOK(c.checks[i])
    BY DEF CfgOK, ChecksOK, ToSet
  <2>2. \A i \in DOMAIN c.checks : StatusCounts(Through(c.checks[i])) = StatusCounts(c.checks[i])
    BY <2>1, ThroughCounts
  <2> QED
    BY <1>1, <2>2
<1>5. Settings(r) = [creds |-> "", monitor |-> r.monitor, interval |-> r.interval,
                     threshold |-> r.threshold, watch |-> r.watch, cooldown |-> r.cooldown,
                     services |-> r.services,
                     checks |-> [i \in DOMAIN r.checks |-> StatusCounts(r.checks[i])]]
  BY <1>3, SettingsResult
<1>6. Settings(c) = [creds |-> "", monitor |-> c.monitor, interval |-> c.interval,
                     threshold |-> c.threshold, watch |-> c.watch, cooldown |-> c.cooldown,
                     services |-> c.services,
                     checks |-> [i \in DOMAIN c.checks |-> StatusCounts(c.checks[i])]]
  BY <1>3, SettingsResult
<1>7. Settings(r) = Settings(c)
  BY <1>1, <1>4, <1>5, <1>6
<1> QED
  BY <1>7 DEF r

\* Valid checks are valid afterwards.
LEMMA RoundTripValid ==
  ASSUME NEW c, CfgOK(c), ValidateHealthChecks(c.checks), NEW e
  PROVE  ValidateHealthChecks(ConfigFromMap(ConfigToMap(c), e).checks)
<1> DEFINE ch == [i \in DOMAIN c.checks |-> Through(c.checks[i])]
           n == Len(c.checks)
<1>1. ConfigFromMap(ConfigToMap(c), e).checks = ch
  BY RoundTripFields
<1>2. n \in Nat /\ DOMAIN c.checks = 1..n /\ \A i \in 1..n : CheckOK(c.checks[i])
  BY ListProperties DEF CfgOK, ChecksOK
<1>3. ch = [i \in 1..n |-> ch[i]] /\ \A i \in 1..n : ch[i] = Through(c.checks[i])
  BY <1>2
<1> HIDE DEF ch
<1>4. IsList(ch) /\ Len(ch) = n
  BY <1>2, <1>3, FunctionIsList
<1>5. /\ \A i \in 1..n : Valid(c.checks[i], {})
      /\ \A i, j \in 1..n : i # j => c.checks[i].name # c.checks[j].name
  BY ValidList DEF CfgOK, ChecksOK
<1> HIDE DEF n
<1>6. \A i \in 1..n : Valid(ch[i], {})
  BY <1>2, <1>3, <1>5, ThroughValid
<1>7. \A i \in 1..n : ch[i].name = c.checks[i].name
  BY <1>2, <1>3, ThroughResult
<1>8. \A i, j \in 1..n : i # j => ch[i].name # ch[j].name
  BY <1>5, <1>7
<1>9. ValidateHealthChecks(ch)
  BY <1>4, <1>6, <1>8, ValidList
<1> QED
  BY <1>1, <1>9
-----------------------------------------------------------------------------
(* A configuration with one setting changed. *)

LEMMA CfgRecord ==
  ASSUME NEW r, NEW cr, NEW mo, NEW iv, NEW th, NEW wa, NEW co, NEW sv, NEW ch,
         r = [creds |-> cr, monitor |-> mo, interval |-> iv, threshold |-> th,
              watch |-> wa, cooldown |-> co, services |-> sv, checks |-> ch]
  PROVE  /\ CfgShape(r)
         /\ r.creds = cr /\ r.monitor = mo /\ r.interval = iv /\ r.threshold = th
         /\ r.watch = wa /\ r.cooldown = co /\ r.services = sv /\ r.checks = ch
<1>1. /\ r.creds = cr /\ r.monitor = mo /\ r.interval = iv /\ r.threshold = th
      /\ r.watch = wa /\ r.cooldown = co /\ r.services = sv /\ r.checks = ch
  OBVIOUS
<1> QED
  BY <1>1 DEF CfgShape

\* d has the settings of c, but perhaps for the one named.
AgreeBut(c, d, name) ==
  /\ CfgShape(d)
  /\ name # "creds" => d.creds = c.creds
  /\ name # "monitor" => d.monitor = c.monitor
  /\ name # "interval" => d.interval = c.interval
  /\ name # "threshold" => d.threshold = c.threshold
  /\ name # "watch" => d.watch = c.watch
  /\ name # "cooldown" => d.cooldown = c.cooldown
  /\ name # "services" => d.services = c.services
  /\ name # "checks" => d.checks = c.checks

LEMMA CfgExcept ==
  ASSUME NEW c, CfgShape(c), NEW x
  PROVE  /\ AgreeBut(c, [c EXCEPT !.creds = x], "creds") /\ [c EXCEPT !.creds = x].creds = x
         /\ AgreeBut(c, [c EXCEPT !.monitor = x], "monitor") /\ [c EXCEPT !.monitor = x].monitor = x
         /\ AgreeBut(c, [c EXCEPT !.interval = x], "interval") /\ [c EXCEPT !.interval = x].interval = x
         /\ AgreeBut(c, [c EXCEPT !.threshold = x], "threshold") /\ [c EXCEPT !.threshold = x].threshold = x
         /\ AgreeBut(c, [c EXCEPT !.watch = x], "watch") /\ [c EXCEPT !.watch = x].watch = x
         /\ AgreeBut(c, [c EXCEPT !.cooldown = x], "cooldown") /\ [c EXCEPT !.cooldown = x].cooldown = x
         /\ AgreeBut(c, [c EXCEPT !.services = x], "services") /\ [c EXCEPT !.services = x].services = x
         /\ AgreeBut(c, [c EXCEPT !.checks = x], "checks") /\ [c EXCEPT !.checks = x].checks = x
<1> DEFINE cr == c.creds
           mo == c.monitor
           iv == c.interval
           th == c.threshold
           wa == c.watch
           co == c.cooldown
           sv == c.services
           ch == c.checks
<1>0. c = [creds |-> cr, monitor |-> mo, interval |-> iv, threshold |-> th,
           watch |-> wa, cooldown |-> co, services |-> sv, checks |-> ch]
  BY DEF CfgShape
<1> HIDE DEF cr, mo, iv, th, wa, co, sv, ch
<1>1. AgreeBut(c, [c EXCEPT !.creds = x], "creds") /\ [c EXCEPT !.creds = x].creds = x
  <2> DEFINE r == [c EXCEPT !.creds = x]
  <2>1. r = [creds |-> x, monitor |-> mo, interval |-> iv, threshold |-> th,
           watch |-> wa, cooldown |-> co, services |-> sv, checks |-> ch]
    BY <1>0
  <2> HIDE DEF r
  <2>2. /\ CfgShape(r)
        /\ r.creds = x /\ r.monitor = mo /\ r.interval = iv /\ r.threshold = th
        /\ r.watch = wa /\ r.cooldown = co /\ r.services = sv /\ r.checks = ch
    BY <2>1, CfgRecord
  <2> QED
    BY <2>2 DEF AgreeBut, r, cr, mo, iv, th, wa, co, sv, ch
<1>2. AgreeBut(c, [c EXCEPT !.monitor = x], "monitor") /\ [c EXCEPT !.monitor = x].monitor = x
  <2> DEFINE r == [c EXCEPT !.monitor = x]
  <2>1. r = [creds |-> cr, monitor |-> x, interval |-> iv, threshold |-> th,
           watch |-> wa, cooldown |-> co, services |-> sv, checks |-> ch]
    BY <1>0
  <2> HIDE DEF r
  <2>2. /\ CfgShape(r)
        /\ r.creds = cr /\ r.monitor = x /\ r.interval = iv /\ r.threshold = th
        /\ r.watch = wa /\ r.cooldown = co /\ r.services = sv /\ r.checks = ch
    BY <2>1, CfgRecord
  <2> QED
    BY <2>2 DEF AgreeBut, r, cr, mo, iv, th, wa, co, sv, ch
<1>3. AgreeBut(c, [c EXCEPT !.interval = x], "interval") /\ [c EXCEPT !.interval = x].interval = x
  <2> DEFINE r == [c EXCEPT !.interval = x]
  <2>1. r = [creds |-> cr, monitor |-> mo, interval |-> x, threshold |-> th,
           watch |-> wa, cooldown |-> co, services |-> sv, checks |-> ch]
    BY <1>0
  <2> HIDE DEF r
  <2>2. /\ CfgShape(r)
        /\ r.creds = cr /\ r.monitor = mo /\ r.interval = x /\ r.threshold = th
        /\ r.watch = wa /\ r.cooldown = co /\ r.services = sv /\ r.checks = ch
    BY <2>1, CfgRecord
  <2> QED
    BY <2>2 DEF AgreeBut, r, cr, mo, iv, th, wa, co, sv, ch
<1>4. AgreeBut(c, [c EXCEPT !.threshold = x], "threshold") /\ [c EXCEPT !.threshold = x].threshold = x
  <2> DEFINE r == [c EXCEPT !.threshold = x]
  <2>1. r = [creds |-> cr, monitor |-> mo, interval |-> iv, threshold |-> x,
           watch |-> wa, cooldown |-> co, services |-> sv, checks |-> ch]
    BY <1>0
  <2> HIDE DEF r
  <2>2. /\ CfgShape(r)
        /\ r.creds = cr /\ r.monitor = mo /\ r.interval = iv /\ r.threshold = x
        /\ r.watch = wa /\ r.cooldown = co /\ r.services = sv /\ r.checks = ch
    BY <2>1, CfgRecord
  <2> QED
    BY <2>2 DEF AgreeBut, r, cr, mo, iv, th, wa, co, sv, ch
<1>5. AgreeBut(c, [c EXCEPT !.watch = x], "watch") /\ [c EXCEPT !.watch = x].watch = x
  <2> DEFINE r == [c EXCEPT !.watch = x]
  <2>1. r = [creds |-> cr, monitor |-> mo, interval |-> iv, threshold |-> th,
           watch |-> x, cooldown |-> co, services |-> sv, checks |-> ch]
    BY <1>0
  <2> HIDE DEF r
  <2>2. /\ CfgShape(r)
        /\ r.creds = cr /\ r.monitor = mo /\ r.interval = iv /\ r.threshold = th
        /\ r.watch = x /\ r.cooldown = co /\ r.services = sv /\ r.checks = ch
    BY <2>1, CfgRecord
  <2> QED
    BY <2>2 DEF AgreeBut, r, cr, mo, iv, th, wa, co, sv, ch
<1>6. AgreeBut(c, [c EXCEPT !.cooldown = x], "cooldown") /\ [c EXCEPT !.cooldown = x].cooldown = x
  <2> DEFINE r == [c EXCEPT !.cooldown = x]
  <2>1. r = [creds |-> cr, monitor |-> mo, interval |-> iv, threshold |-> th,
           watch |-> wa, cooldown |-> x, services |-> sv, checks |-> ch]
    BY <1>0
  <2> HIDE DEF r
  <2>2. /\ CfgShape(r)
        /\ r.creds = cr /\ r.monitor = mo /\ r.interval = iv /\ r.threshold = th
        /\ r.watch = wa /\ r.cooldown = x /\ r.services = sv /\ r.checks = ch
    BY <2>1, CfgRecord
  <2> QED
    BY <2>2 DEF AgreeBut, r, cr, mo, iv, th, wa, co, sv, ch
<1>7. AgreeBut(c, [c EXCEPT !.services = x], "services") /\ [c EXCEPT !.services = x].services = x
  <2> DEFINE r == [c EXCEPT !.services = x]
  <2>1. r = [creds |-> cr, monitor |-> mo, interval |-> iv, threshold |-> th,
           watch |-> wa, cooldown |-> co, services |-> x, checks |-> ch]
    BY <1>0
  <2> HIDE DEF r
  <2>2. /\ CfgShape(r)
        /\ r.creds = cr /\ r.monitor = mo /\ r.interval = iv /\ r.threshold = th
        /\ r.watch = wa /\ r.cooldown = co /\ r.services = x /\ r.checks = ch
    BY <2>1, CfgRecord
  <2> QED
    BY <2>2 DEF AgreeBut, r, cr, mo, iv, th, wa, co, sv, ch
<1>8. AgreeBut(c, [c EXCEPT !.checks = x], "checks") /\ [c EXCEPT !.checks = x].checks = x
  <2> DEFINE r == [c EXCEPT !.checks = x]
  <2>1. r = [creds |-> cr, monitor |-> mo, interval |-> iv, threshold |-> th,
           watch |-> wa, cooldown |-> co, services |-> sv, checks |-> x]
    BY <1>0
  <2> HIDE DEF r
  <2>2. /\ CfgShape(r)
        /\ r.creds = cr /\ r.monitor = mo /\ r.interval = iv /\ r.threshold = th
        /\ r.watch = wa /\ r.cooldown = co /\ r.services = sv /\ r.checks = x
    BY <2>1, CfgRecord
  <2> QED
    BY <2>2 DEF AgreeBut, r, cr, mo, iv, th, wa, co, sv, ch
<1> QED
  BY <1>1, <1>2, <1>3, <1>4, <1>5, <1>6, <1>7, <1>8

LEMMA CfgWith ==
  ASSUME NEW c, CfgOK(c), NEW d
  PROVE  /\ AgreeBut(c, d, "creds") => CfgOK(d)
         /\ AgreeBut(c, d, "monitor") /\ d.monitor = [k \in Toggles |-> d.monitor[k]] => CfgOK(d)
         /\ AgreeBut(c, d, "interval") /\ d.interval = [k \in Intervals |-> d.interval[k]] => CfgOK(d)
         /\ AgreeBut(c, d, "threshold") /\ d.threshold = [k \in Thresholds |-> d.threshold[k]] => CfgOK(d)
         /\ AgreeBut(c, d, "watch") /\ d.watch = [l \in Lists |-> d.watch[l]] => CfgOK(d)
         /\ AgreeBut(c, d, "cooldown") /\ d.cooldown = [k \in DOMAIN d.cooldown |-> d.cooldown[k]] => CfgOK(d)
         /\ AgreeBut(c, d, "services") /\ IsList(d.services) /\ (\A svc \in ToSet(d.services) : Usable(svc))
              => CfgOK(d)
         /\ AgreeBut(c, d, "checks") /\ ChecksOK(d.checks) => CfgOK(d)
BY DEF CfgOK, AgreeBut
-----------------------------------------------------------------------------
(* Loading. *)

\* A file that is not there is like one that does not parse.
LEMMA LoadOne ==
  ASSUME NEW f, NEW e
  PROVE  LoadConfig(<<f>>, e) = readConfig(f, e)
<1> DEFINE s == <<f>>
           F == {i \in DOMAIN s : s[i].is # "absent"}
<1>1. DOMAIN s = {1} /\ s[1] = f
  OBVIOUS
<1>2. LoadConfig(s, e) = IF F = {} THEN defaultWithEnv(e)
                         ELSE readConfig(s[CHOOSE i \in F : \A j \in F : i <= j], e)
  BY DEF LoadConfig
<1> HIDE DEF s
<1>3. CASE f.is = "absent"
  <2>1. F = {}
    BY <1>1, <1>3
  <2>2. readConfig(f, e) = defaultWithEnv(e)
    BY <1>3 DEF readConfig
  <2> QED
    BY <1>2, <2>1, <2>2 DEF s
<1>4. CASE f.is # "absent"
  <2>1. F = {1}
    BY <1>1, <1>4
  <2>2. (CHOOSE i \in F : \A j \in F : i <= j) = 1
    BY <2>1
  <2> QED
    BY <1>1, <1>2, <2>1, <2>2 DEF s
<1> QED
  BY <1>3, <1>4

LEMMA LoadTwo ==
  ASSUME NEW f, NEW g, NEW e
  PROVE  LoadConfig(<<f, g>>, e) = readConfig(IF f.is # "absent" THEN f ELSE g, e)
<1> DEFINE s == <<f, g>>
           F == {i \in DOMAIN s : s[i].is # "absent"}
<1>1. DOMAIN s = {1, 2} /\ s[1] = f /\ s[2] = g
  OBVIOUS
<1>2. LoadConfig(s, e) = IF F = {} THEN defaultWithEnv(e)
                         ELSE readConfig(s[CHOOSE i \in F : \A j \in F : i <= j], e)
  BY DEF LoadConfig
<1> HIDE DEF s
<1>3. CASE f.is = "absent" /\ g.is = "absent"
  <2>1. F = {}
    BY <1>1, <1>3
  <2>2. readConfig(g, e) = defaultWithEnv(e)
    BY <1>3 DEF readConfig
  <2> QED
    BY <1>2, <1>3, <2>1, <2>2 DEF s
<1>4. CASE f.is # "absent"
  <2>1. F \subseteq {1, 2} /\ 1 \in F
    BY <1>1, <1>4
  <2>2. (CHOOSE i \in F : \A j \in F : i <= j) = 1
    BY <2>1
  <2> QED
    BY <1>1, <1>2, <1>4, <2>1, <2>2 DEF s
<1>5. CASE f.is = "absent" /\ g.is # "absent"
  <2>1. F = {2}
    BY <1>1, <1>5
  <2>2. (CHOOSE i \in F : \A j \in F : i <= j) = 2
    BY <2>1
  <2> QED
    BY <1>1, <1>2, <1>5, <2>1, <2>2 DEF s
<1> QED
  BY <1>3, <1>4, <1>5

\* Without a file, and with one that does not parse, there are no health checks.
LEMMA NoChecks ==
  ASSUME NEW f, f.is # "toml" \/ f = Empty
  PROVE  HasValidChecks(f)
<1>1. readConfig(f, "").checks = <<>>
  <2>1. CASE f.is # "toml"
    <3>1. readConfig(f, "") = defaultWithEnv("")
      BY <2>1 DEF readConfig
    <3> QED
      BY <3>1, DefaultCfgOK
  <2>2. CASE f = Empty
    <3>1. f.is = "toml" /\ f.data = Tables
      BY <2>2 DEF Empty, Toml
    <3>2. readConfig(f, "") = ConfigFromMap(Tables, "")
      BY <3>1 DEF readConfig
    <3>3. ConfigFromMap(Tables, "").checks =
            [i \in DOMAIN Tables.health_checks |-> healthCheckFromMap(Tables.health_checks[i])]
      BY DEF ConfigFromMap
    <3>4. Tables.health_checks = <<>>
      BY DEF Tables
    <3> DEFINE h == [i \in {} |-> healthCheckFromMap(Tables.health_checks[i])]
    <3>5. ConfigFromMap(Tables, "").checks = h
      BY <3>3, <3>4, EmptyList
    <3>6. h = <<>>
      BY EmptyList
    <3> HIDE DEF h
    <3> QED
      BY <3>2, <3>5, <3>6
  <2> QED
    BY <2>1, <2>2
<1>2. ValidateHealthChecks(<<>>)
  BY EmptyList DEF ValidateHealthChecks
<1> QED
  BY <1>1, <1>2 DEF HasValidChecks

LEMMA EmptyDecoded == Decoded(Tables)
<1>1. Tables.custom_services = <<>> /\ Tables.health_checks = <<>>
  BY DEF Tables
<1> QED
  BY <1>1, EmptyList DEF Decoded, IsList
-----------------------------------------------------------------------------
(* Writes that are cut off. *)

LEMMA FirstOfList ==
  ASSUME NEW s, IsList(s), NEW i \in 0..Len(s)
  PROVE  /\ IsList(SubSeq(s, 1, i))
         /\ Len(SubSeq(s, 1, i)) = i
         /\ \A j \in 1..i : SubSeq(s, 1, i)[j] = s[j]
         /\ ToSet(SubSeq(s, 1, i)) \subseteq ToSet(s)
<1> DEFINE r == SubSeq(s, 1, i)
<1>1. Len(s) \in Nat /\ DOMAIN s = 1..Len(s) /\ \A j \in 1..Len(s) : s[j] \in ToSet(s)
  BY ListProperties
<1>2. i \in Int /\ 1 \in Int /\ \A j \in 1..i : s[j] \in ToSet(s)
  BY <1>1
<1>3. /\ r \in Seq(ToSet(s))
      /\ Len(r) = IF 1 <= i THEN i - 1 + 1 ELSE 0
      /\ \A j \in 1..i - 1 + 1 : r[j] = s[1 + j - 1]
  BY <1>2, SubSeqProperties
<1>4. Len(r) = i /\ \A j \in 1..i : r[j] = s[j]
  BY <1>1, <1>3
<1>5. IsList(r) /\ ToSet(r) \subseteq ToSet(s)
  <2>1. IsList(r)
    BY <1>3, SeqIsList
  <2>2. DOMAIN r = 1..i
    BY <1>3, <1>4, LenProperties
  <2> QED
    BY <1>2, <1>4, <2>1, <2>2 DEF ToSet
<1> QED
  BY <1>4, <1>5

LEMMA LeadingInt ==
  ASSUME NEW n \in Int
  PROVE  Leading(n) \subseteq Int
<1>1. ASSUME NEW a \in Int
      PROVE  a \div 10 \in Int /\ a \div 100 \in Int /\ a \div 1000 \in Int /\ a \div 10000 \in Int
  OBVIOUS
<1>2. ASSUME NEW a \in Int
      PROVE  \A p \in {10, 100, 1000, 10000} : a \div p \in Int
  BY <1>1
<1>3. \A m \in Leading(n) : m \in Int
  <2> DEFINE sign == IF n < 0 THEN -1 ELSE 1
             abs == sign * n
  <2>1. sign \in {1, -1} /\ abs \in Int
    OBVIOUS
  <2>2. \A p \in {10, 100, 1000, 10000} : abs \div p \in Int
    BY <1>2, <2>1
  <2>3. Leading(n) = {n} \union {sign * (abs \div p) : p \in {q \in {10, 100, 1000, 10000} : q <= abs}}
    BY DEF Leading
  <2> HIDE DEF sign, abs
  <2>4. \A x \in Int : sign * x \in Int
    BY <2>1
  <2>5. \A p \in {10, 100, 1000, 10000} : sign * (abs \div p) \in Int
    BY <2>2, <2>4
  <2> QED
    BY <2>3, <2>5
<1> QED
  BY <1>3

LEMMA CutCheckInt ==
  ASSUME NEW m, \A k \in DOMAIN m.num : m.num[k] \in Int, NEW c \in CutCheck(m)
  PROVE  \A k \in DOMAIN c.num : c.num[k] \in Int
<1> DEFINE Keys(n) == {CheckKeys[i] : i \in 1..n}
           Digits(n) == IF n > 0 /\ CheckKeys[n] \in DOMAIN m.num THEN Leading(m.num[CheckKeys[n]]) ELSE {0}
           Nums(n, d) == [k \in DOMAIN m.num \intersect Keys(n) |-> IF k = CheckKeys[n] THEN d ELSE m.num[k]]
           Text(n) == [f \in DOMAIN m.text \intersect Keys(n) |-> m.text[f]]
           Name(n) == IF "name" \in Keys(n) THEN m.name ELSE ""
           Type(n) == IF "type" \in Keys(n) THEN m.type ELSE ""
           Cut(n, d) == [name |-> Name(n), type |-> Type(n), text |-> Text(n), num |-> Nums(n, d)]
<1>1. c \in UNION {{Cut(n, d) : d \in Digits(n)} : n \in 0..Len(CheckKeys)}
  BY DEF CutCheck
<1> HIDE DEF Cut
<1>2. \E n, d : d \in Digits(n) /\ c = Cut(n, d)
  BY <1>1
<1>3. PICK n, d : d \in Digits(n) /\ c = Cut(n, d)
  BY <1>2
<1>4. c.num = Nums(n, d)
  BY <1>3 DEF Cut
<1>5. d \in Int
  BY <1>3, LeadingInt
<1> QED
  BY <1>4, <1>5

\* The first entries of a list, with or without something in the place of the next.
LEMMA FirstAndPart ==
  ASSUME NEW s, IsList(s), NEW i \in 0..Len(s), NEW e
  PROVE  /\ IsList(SubSeq(s, 1, i)) /\ ToSet(SubSeq(s, 1, i)) \subseteq ToSet(s)
         /\ IsList(Append(SubSeq(s, 1, i), e))
         /\ ToSet(Append(SubSeq(s, 1, i), e)) \subseteq ToSet(s) \union {e}
         /\ i # Len(s) => s[i + 1] \in ToSet(s)
<1>1. IsList(SubSeq(s, 1, i)) /\ ToSet(SubSeq(s, 1, i)) \subseteq ToSet(s)
  BY FirstOfList
<1> DEFINE r == SubSeq(s, 1, i)
<1> HIDE DEF r
<1>2. IsList(r) /\ ToSet(r) \subseteq ToSet(s)
  BY <1>1 DEF r
<1>3. IsList(Append(r, e)) /\ ToSet(Append(r, e)) = ToSet(r) \union {e}
  BY <1>2, AppendList
<1>4. ASSUME i # Len(s)
      PROVE  s[i + 1] \in ToSet(s)
  <2>1. Len(s) \in Nat /\ \A j \in 1..Len(s) : s[j] \in ToSet(s)
    BY ListProperties
  <2>2. i + 1 \in 1..Len(s)
    BY <1>4, <2>1
  <2> QED
    BY <2>1, <2>2
<1> QED
  BY <1>2, <1>3, <1>4 DEF r

LEMMA CutServicesResult ==
  ASSUME NEW s, IsList(s), NEW c \in CutList(s, CutService)
  PROVE  IsList(c)
<1>1. PICK i \in 0..Len(s) :
        \/ c = SubSeq(s, 1, i)
        \/ \E e \in CutService(s[i + 1]) : c = Append(SubSeq(s, 1, i), e)
  BY DEF CutList
<1>2. CASE c = SubSeq(s, 1, i)
  BY <1>2, FirstAndPart
<1>3. CASE \E e \in CutService(s[i + 1]) : c = Append(SubSeq(s, 1, i), e)
  BY <1>3, FirstAndPart
<1> QED
  BY <1>1, <1>2, <1>3

LEMMA CutChecksResult ==
  ASSUME NEW s, IsList(s), NEW c \in CutList(s, CutCheck)
  PROVE  IsList(c) /\ \A x \in ToSet(c) : x \in ToSet(s) \/ \E y \in ToSet(s) : x \in CutCheck(y)
<1>1. PICK i \in 0..Len(s) :
        \/ c = SubSeq(s, 1, i)
        \/ i # Len(s) /\ \E e \in CutCheck(s[i + 1]) : c = Append(SubSeq(s, 1, i), e)
  BY DEF CutList
<1>2. CASE c = SubSeq(s, 1, i)
  BY <1>2, FirstAndPart
<1>3. CASE i # Len(s) /\ \E e \in CutCheck(s[i + 1]) : c = Append(SubSeq(s, 1, i), e)
  <2>1. PICK e \in CutCheck(s[i + 1]) : c = Append(SubSeq(s, 1, i), e)
    BY <1>3
  <2>2. IsList(c) /\ ToSet(c) \subseteq ToSet(s) \union {e} /\ s[i + 1] \in ToSet(s)
    BY <1>3, <2>1, FirstAndPart
  <2> QED
    BY <2>1, <2>2
<1> QED
  BY <1>1, <1>2, <1>3

\* The lists of a file that is cut off.
LEMMA CutLists ==
  ASSUME NEW t, NEW c \in CutOff(t)
  PROVE  /\ c.custom_services \in {<<>>, t.custom_services} \union CutList(t.custom_services, CutService)
         /\ c.health_checks \in {<<>>, t.health_checks} \union CutList(t.health_checks, CutCheck)
<1> DEFINE t1 == [Tables EXCEPT !.watch = [l \in DOMAIN t.watch \intersect {"containers"} |-> t.watch[l]]]
           t2 == [t1 EXCEPT !.cooldowns = t.cooldowns]
           t3 == [t2 EXCEPT !.custom_services = t.custom_services]
           t4 == [t3 EXCEPT !.health_checks = t.health_checks]
           t5 == [t4 EXCEPT !.monitor = t.monitor]
           t6 == [t5 EXCEPT !.pollers = t.pollers, !.watch = t.watch]
           services == CutList(t.custom_services, CutService)
           checks == CutList(t.health_checks, CutCheck)
<1>1. \/ c = Tables
      \/ \E x : c = [t1 EXCEPT !.cooldowns = x]
      \/ \E x \in services : c = [t2 EXCEPT !.custom_services = x]
      \/ \E x \in checks : c = [t3 EXCEPT !.health_checks = x]
      \/ \E x : c = [t4 EXCEPT !.monitor = x]
      \/ \E x : c = [t5 EXCEPT !.pollers = x]
      \/ \E x : c = [t6 EXCEPT !.thresholds = x]
  BY Zenon DEF CutOff
<1> HIDE DEF services, checks
<1> DEFINE Has(r, s, h) == /\ {"custom_services", "health_checks"} \subseteq DOMAIN r
                           /\ r.custom_services = s /\ r.health_checks = h
<1>2. Has(Tables, <<>>, <<>>)
  BY DEF Tables
<1>3. \A r, s, h, x : Has(r, s, h) =>
        /\ Has([r EXCEPT !.cooldowns = x], s, h) /\ Has([r EXCEPT !.monitor = x], s, h)
        /\ Has([r EXCEPT !.pollers = x], s, h) /\ Has([r EXCEPT !.thresholds = x], s, h)
        /\ Has([r EXCEPT !.watch = x], s, h)
        /\ Has([r EXCEPT !.custom_services = x], x, h) /\ Has([r EXCEPT !.health_checks = x], s, x)
  OBVIOUS
<1> HIDE DEF Has
<1>4. Has(t1, <<>>, <<>>) /\ Has(t2, <<>>, <<>>)
  BY <1>2, <1>3
<1>5. Has(t3, t.custom_services, <<>>)
  BY <1>3, <1>4
<1>6. Has(t4, t.custom_services, t.health_checks)
  BY <1>3, <1>5
<1>7. Has(t5, t.custom_services, t.health_checks)
  BY <1>3, <1>6
<1>8. Has(t6, t.custom_services, t.health_checks)
  <2> HIDE DEF t5
  <2>1. t6 = [[t5 EXCEPT !.pollers = t.pollers] EXCEPT !.watch = t.watch]
    OBVIOUS
  <2> HIDE DEF t6
  <2> QED
    BY <1>3, <1>7, <2>1
<1> HIDE DEF t1, t2, t3, t4, t5, t6
<1> DEFINE Good == /\ c.custom_services \in {<<>>, t.custom_services} \union services
                   /\ c.health_checks \in {<<>>, t.health_checks} \union checks
<1>9. ASSUME c = Tables
      PROVE  Good
  BY <1>2, <1>9 DEF Has
<1>10. ASSUME \E x : c = [t1 EXCEPT !.cooldowns = x]
       PROVE  Good
  <2>1. PICK x : c = [t1 EXCEPT !.cooldowns = x]
    BY <1>10
  <2>2. Has(c, <<>>, <<>>)
    BY <1>3, <1>4, <2>1
  <2> QED
    BY <2>2 DEF Has
<1>11. ASSUME \E x \in services : c = [t2 EXCEPT !.custom_services = x]
       PROVE  Good
  <2>1. PICK x \in services : c = [t2 EXCEPT !.custom_services = x]
    BY <1>11
  <2>2. Has(c, x, <<>>)
    BY <1>3, <1>4, <2>1
  <2> QED
    BY <2>2 DEF Has
<1>12. ASSUME \E x \in checks : c = [t3 EXCEPT !.health_checks = x]
       PROVE  Good
  <2>1. PICK x \in checks : c = [t3 EXCEPT !.health_checks = x]
    BY <1>12
  <2>2. Has(c, t.custom_services, x)
    BY <1>3, <1>5, <2>1
  <2> QED
    BY <2>2 DEF Has
<1>13. ASSUME \E x : c = [t4 EXCEPT !.monitor = x]
       PROVE  Good
  <2>1. PICK x : c = [t4 EXCEPT !.monitor = x]
    BY <1>13
  <2>2. Has(c, t.custom_services, t.health_checks)
    BY <1>3, <1>6, <2>1
  <2> QED
    BY <2>2 DEF Has
<1>14. ASSUME \E x : c = [t5 EXCEPT !.pollers = x]
       PROVE  Good
  <2>1. PICK x : c = [t5 EXCEPT !.pollers = x]
    BY <1>14
  <2>2. Has(c, t.custom_services, t.health_checks)
    BY <1>3, <1>7, <2>1
  <2> QED
    BY <2>2 DEF Has
<1>15. ASSUME \E x : c = [t6 EXCEPT !.thresholds = x]
       PROVE  Good
  <2>1. PICK x : c = [t6 EXCEPT !.thresholds = x]
    BY <1>15
  <2>2. Has(c, t.custom_services, t.health_checks)
    BY <1>3, <1>8, <2>1
  <2> QED
    BY <2>2 DEF Has
<1>16. Good
  <2> HIDE DEF Good
  <2> QED
    BY <1>1, <1>9, <1>10, <1>11, <1>12, <1>13, <1>14, <1>15
<1> QED
  BY <1>16 DEF services, checks

\* What is left of a file can be decoded.
LEMMA CutDecoded ==
  ASSUME NEW t, Decoded(t), NEW c \in CutOff(t)
  PROVE  Decoded(c)
<1>1. IsList(t.custom_services) /\ IsList(t.health_checks)
  BY DEF Decoded, IsList
<1>2. IsList(c.custom_services)
  BY <1>1, CutLists, CutServicesResult, EmptyList
<1>3. /\ IsList(c.health_checks)
      /\ \A m \in ToSet(c.health_checks) :
           m \in ToSet(t.health_checks) \/ \E y \in ToSet(t.health_checks) : m \in CutCheck(y)
  BY <1>1, CutLists, CutChecksResult, EmptyList
<1>4. ASSUME NEW m \in ToSet(c.health_checks)
      PROVE  \A n \in DOMAIN m.num : m.num[n] \in Int
  BY <1>3, <1>4, CutCheckInt DEF Decoded
<1> QED
  BY <1>2, <1>3, <1>4 DEF Decoded, IsList

\* A list of valid checks is valid up to any of them.
LEMMA PrefixValid ==
  ASSUME NEW a, IsList(a), NEW b, IsList(b), Len(a) <= Len(b),
         \A i \in 1..Len(a) : a[i] = b[i], ValidateHealthChecks(b)
  PROVE  ValidateHealthChecks(a)
<1>1. Len(a) \in Nat /\ Len(b) \in Nat
  BY ListProperties
<1>2. /\ \A i \in 1..Len(b) : Valid(b[i], {})
      /\ \A i, j \in 1..Len(b) : i # j => b[i].name # b[j].name
  BY ValidList
<1>3. \A i \in 1..Len(a) : i \in 1..Len(b)
  BY <1>1
<1> QED
  BY <1>2, <1>3, ValidList

\* A cut that is not inside a health check leaves valid ones.
LEMMA CutValid ==
  ASSUME NEW t, Decoded(t), NEW u, Decoded(u), IsPrefix(u.health_checks, t.health_checks),
         HasValidChecks(Toml(t))
  PROVE  HasValidChecks(Toml(u))
<1> DEFINE checks(x) == [i \in DOMAIN x.health_checks |-> healthCheckFromMap(x.health_checks[i])]
           p == u.health_checks
           h == t.health_checks
<1>1. IsList(h) /\ IsList(p)
  BY DEF Decoded, IsList
<1>2. Len(h) \in Nat /\ DOMAIN h = 1..Len(h) /\ Len(p) \in Nat /\ DOMAIN p = 1..Len(p)
  BY <1>1, ListProperties
<1>3. Len(p) <= Len(h) /\ SubSeq(p, 1, Len(p)) = SubSeq(h, 1, Len(p))
  BY DEF IsPrefix
<1>4. ASSUME NEW i \in 1..Len(p)
      PROVE  p[i] = h[i]
  <2>1. Len(p) \in 0..Len(p) /\ Len(p) \in 0..Len(h)
    BY <1>2, <1>3
  <2>2. SubSeq(p, 1, Len(p))[i] = p[i] /\ SubSeq(h, 1, Len(p))[i] = h[i]
    BY <1>1, <2>1, FirstOfList
  <2> QED
    BY <1>3, <2>2
<1>5. readConfig(Toml(t), "").checks = checks(t) /\ readConfig(Toml(u), "").checks = checks(u)
  <2>1. \A x : readConfig(Toml(x), "") = ConfigFromMap(x, "")
    BY DEF readConfig, Toml
  <2>2. ConfigFromMap(t, "").checks = checks(t) /\ ConfigFromMap(u, "").checks = checks(u)
    BY FromFile
  <2> QED
    BY <2>1, <2>2
<1> DEFINE a == checks(u)
           b == checks(t)
<1>6. /\ a = [i \in 1..Len(p) |-> a[i]] /\ b = [i \in 1..Len(h) |-> b[i]]
      /\ \A i \in 1..Len(p) : a[i] = healthCheckFromMap(p[i])
      /\ \A i \in 1..Len(h) : b[i] = healthCheckFromMap(h[i])
  BY <1>2
<1>7. ValidateHealthChecks(b)
  BY <1>5 DEF HasValidChecks
<1> HIDE DEF a, b, p, h
<1>8. IsList(a) /\ Len(a) = Len(p) /\ IsList(b) /\ Len(b) = Len(h)
  BY <1>2, <1>6, FunctionIsList
<1>9. \A i \in 1..Len(a) : a[i] = b[i]
  <2>1. \A i \in 1..Len(p) : i \in 1..Len(h)
    BY <1>2, <1>3
  <2> QED
    BY <1>4, <1>6, <1>8, <2>1
<1>10. ValidateHealthChecks(a)
  BY <1>3, <1>7, <1>8, <1>9, PrefixValid
<1> QED
  BY <1>5, <1>10 DEF HasValidChecks, a
-----------------------------------------------------------------------------
(* The dialogs. *)

\* A check that is taken is valid, and its numbers are set.
LEMMA PromptResult ==
  ASSUME NEW cur, CheckShape(cur), NEW others, NEW a \in CheckAnswers,
         promptHealthCheck(cur, others, a).ok
  PROVE  /\ CheckOK(promptHealthCheck(cur, others, a).hc)
         /\ Valid(promptHealthCheck(cur, others, a).hc, others)
<1> DEFINE nm == IF "name" \in DOMAIN a THEN a["name"] ELSE cur.name
           ty == IF "type" \in DOMAIN a THEN a["type"] ELSE cur.type
           named == [cur EXCEPT !.name = nm, !.type = ty]
           base == WithDefaults(named)
           T == [f \in Fields |-> IF base.type \in FieldTypes[f]
                                  THEN IF f \in DOMAIN a THEN a[f] ELSE base.text[f] ELSE ""]
           N == [n \in Numbers |-> IF n = "expect_status" /\ base.type # "http"
                                   THEN 0 ELSE IF n \in DOMAIN a THEN a[n] ELSE base.num[n]]
           hc == [base EXCEPT !.text = T, !.num = N]
<1>1. promptHealthCheck(cur, others, a) =
        IF base.type \in Types /\ Valid(hc, others) THEN [hc |-> hc, ok |-> TRUE]
        ELSE [hc |-> cur, ok |-> FALSE]
  BY DEF promptHealthCheck
<1> DEFINE r == promptHealthCheck(cur, others, a)
<1> HIDE DEF nm, ty, named, base, T, N, hc, r
<1>2. r.hc = hc /\ Valid(hc, others)
  BY <1>1 DEF r
<1>3. CheckShape(named)
  <2> DEFINE tx == cur.text
             nu == cur.num
  <2>1. cur = [name |-> cur.name, type |-> cur.type, text |-> tx, num |-> nu]
        /\ tx = [f \in Fields |-> tx[f]] /\ nu \in [Numbers -> Int]
    BY DEF CheckShape
  <2> DEFINE cn == cur.name
             ct == cur.type
             d == [cur EXCEPT !.name = nm]
  <2>2. named = [name |-> nm, type |-> ty, text |-> tx, num |-> nu]
    <3>1. named = [d EXCEPT !.type = ty]
      BY DEF named
    <3> HIDE DEF tx, nu, cn, ct
    <3>2. cur = [name |-> cn, type |-> ct, text |-> tx, num |-> nu]
      BY <2>1 DEF cn, ct
    <3>3. d = [name |-> nm, type |-> ct, text |-> tx, num |-> nu]
      BY <3>2
    <3> HIDE DEF d
    <3>4. [d EXCEPT !.type = ty] = [name |-> nm, type |-> ty, text |-> tx, num |-> nu]
      BY <3>3
    <3> QED
      BY <3>1, <3>4
  <2> HIDE DEF tx, nu
  <2>3. named.name = nm /\ named.type = ty /\ named.text = tx /\ named.num = nu
    BY <2>2
  <2> QED
    BY <2>1, <2>2, <2>3 DEF CheckShape
<1>4. CheckOK(base)
  BY <1>3, WithDefaultsResult DEF base
<1>5. N \in [Numbers -> Int]
  <2>1. \A n \in Numbers : n \in DOMAIN a => a[n] \in Int
    BY SetupAssumption DEF SetupAssumption
  <2>2. \A n \in Numbers : base.num[n] \in Int
    BY <1>4 DEF CheckOK, CheckShape
  <2> QED
    BY <2>1, <2>2 DEF N
<1>6. T = [f \in Fields |-> T[f]]
  BY DEF T
<1>7. CheckShape(hc) /\ hc.num = N
  <2> DEFINE bn == base.name
             bt == base.type
             bx == base.text
             bu == base.num
             d == [base EXCEPT !.text = T]
  <2>1. base = [name |-> bn, type |-> bt, text |-> bx, num |-> bu]
    BY <1>4 DEF CheckOK, CheckShape
  <2>2. hc = [name |-> bn, type |-> bt, text |-> T, num |-> N]
    <3>1. hc = [d EXCEPT !.num = N]
      BY DEF hc
    <3> HIDE DEF bn, bt, bx, bu
    <3>2. d = [name |-> bn, type |-> bt, text |-> T, num |-> bu]
      BY <2>1
    <3> HIDE DEF d
    <3>3. [d EXCEPT !.num = N] = [name |-> bn, type |-> bt, text |-> T, num |-> N]
      BY <3>2
    <3> QED
      BY <3>1, <3>3
  <2> HIDE DEF bn, bt
  <2>3. hc.name = bn /\ hc.type = bt /\ hc.text = T /\ hc.num = N
    BY <2>2
  <2> QED
    BY <1>5, <1>6, <2>2, <2>3 DEF CheckShape
<1>8. \A n \in Numbers : N[n] \in Int
  BY <1>5
<1>9. \A n \in Counts : hc.num[n] > 0
  <2>1. hc.num["interval"] >= 5 /\ hc.num["timeout"] >= 1 /\ hc.num["failures"] >= 1
    BY <1>2 DEF Valid
  <2>2. Counts = {"interval", "timeout", "failures"}
    BY DEF Counts, Numbers, ES
  <2>3. N["interval"] \in Int /\ N["timeout"] \in Int /\ N["failures"] \in Int
    BY <1>8 DEF Numbers
  <2> QED
    BY <1>7, <2>1, <2>2, <2>3
<1>10. hc.type = "http" => hc.num[ES] # 0
  <2>1. hc.type = "http" => hc.num["expect_status"] \in 100..599
    BY <1>2 DEF Valid
  <2>2. 0 \notin 100..599
    OBVIOUS
  <2> QED
    BY <2>1, <2>2 DEF ES
<1>11. CheckOK(hc)
  BY <1>7, <1>9, <1>10 DEF CheckOK
<1> QED
  BY <1>2, <1>11 DEF r

LEMMA NewCheckShape == CheckShape(NewCheck)
<1> DEFINE t == [f \in Fields |-> ""]
           k == [n \in Numbers |-> 0]
           no == ""
<1>1. NewCheck = [name |-> no, type |-> no, text |-> t, num |-> k]
  BY DEF NewCheck
<1>2. t = [f \in Fields |-> t[f]] /\ k \in [Numbers -> Int]
  OBVIOUS
<1> HIDE DEF t, k, no
<1>3. NewCheck.name = no /\ NewCheck.type = no /\ NewCheck.text = t /\ NewCheck.num = k
  BY <1>1
<1> QED
  BY <1>1, <1>2, <1>3 DEF CheckShape

\* The registered service is in the list, with the others.
LEMMA WithServiceResult ==
  ASSUME NEW services, IsList(services), NEW svc
  PROVE  /\ IsList(WithService(services, svc))
         /\ svc \in ToSet(WithService(services, svc))
         /\ ToSet(WithService(services, svc)) \subseteq ToSet(services) \union {svc}
<1> DEFINE Same == {i \in DOMAIN services : services[i].name = svc.name}
           first == CHOOSE i \in Same : \A j \in Same : i <= j
<1>1. CASE Same = {}
  <2>1. WithService(services, svc) = Append(services, svc)
    BY <1>1 DEF WithService
  <2> QED
    BY <2>1, AppendList
<1>2. CASE Same # {}
  <2>1. WithService(services, svc) = [services EXCEPT ![first] = svc]
    BY <1>2 DEF WithService
  <2>2. Same \in SUBSET Nat
    BY ListProperties
  <2>3. \E i \in Same : \A j \in Same : i <= j
    BY <1>2, <2>2, LeastExists
  <2>4. first \in DOMAIN services
    BY <2>3
  <2> HIDE DEF first
  <2> DEFINE r == [services EXCEPT ![first] = svc]
  <2>5. IsList(r) /\ svc \in ToSet(r) /\ ToSet(r) \subseteq ToSet(services) \union {svc}
    BY <2>4, ReplaceList
  <2> HIDE DEF r
  <2> QED
    BY <2>1, <2>5 DEF r
<1> QED
  BY <1>1, <1>2
-----------------------------------------------------------------------------
(* The inductive invariant. *)

DiskOK ==
  /\ DOMAIN file = Places
  /\ \A p \in Places : file[p].is \in {"absent", "broken", "toml"} /\ Decoded(file[p].data)
  /\ env \in [Places -> Creds \union {""}]
  /\ staged \in [Places -> SUBSET DOMAIN Content]
  /\ readable \in BOOLEAN

WizardOK ==
  /\ pc \in {"off", "menu", "open", "write", "chown", "consume"}
  /\ place \in Places
  /\ consumed \in {"", "env"} \union DOMAIN Content
  /\ edits \in 0..MaxEdits /\ faults \in 0..MaxFaults
  /\ created \in BOOLEAN
  /\ CfgOK(cfg)

\* While the last save counts, its file is the configuration the wizard has.
SavedOK == saved => pc \in {"menu", "chown", "consume"} /\ file[place] = Toml(ConfigToMap(cfg))

\* Every file has valid checks, and the wizard too, unless some hand wrote
\* others or a write was cut off inside one.
LegalOK ==
  legal => /\ ValidateHealthChecks(cfg.checks)
           /\ \A p \in Places : HasValidChecks(file[p])

Inv == DiskOK /\ WizardOK /\ SavedOK /\ LegalOK

LEMMA DefaultValid == CfgOK(DefaultConfig) /\ ValidateHealthChecks(DefaultConfig.checks)
<1>1. DefaultConfig.creds = "" /\ DefaultConfig.checks = <<>>
  BY DEF DefaultConfig
<1>2. AgreeBut(DefaultConfig, defaultWithEnv(""), "creds") /\ CfgShape(DefaultConfig)
  <2> DEFINE mo == [k \in Toggles |-> TRUE]
             iv == [k \in Intervals |-> DefaultInterval]
             th == [k \in Thresholds |-> DefaultThreshold]
             wa == [l \in Lists |-> <<>>]
             co == NoKeys
             no == <<>>
             em == ""
  <2>1. DefaultConfig = [creds |-> em, monitor |-> mo, interval |-> iv, threshold |-> th,
                         watch |-> wa, cooldown |-> co, services |-> no, checks |-> no]
    BY DEF DefaultConfig
  <2> HIDE DEF mo, iv, th, wa, co, no, em
  <2>2. CfgShape(DefaultConfig)
    BY <2>1, CfgRecord
  <2>3. AgreeBut(DefaultConfig, [DefaultConfig EXCEPT !.creds = ""], "creds")
    BY <2>2, CfgExcept
  <2> QED
    BY <2>2, <2>3 DEF defaultWithEnv
<1>3. CfgOK(defaultWithEnv(""))
  BY DefaultCfgOK
<1>4. CfgOK(DefaultConfig)
  BY <1>2, <1>3 DEF CfgOK, AgreeBut
<1>5. ValidateHealthChecks(<<>>)
  BY EmptyList DEF ValidateHealthChecks
<1> QED
  BY <1>1, <1>4, <1>5

LEMMA Bounds == MaxEdits \in Nat /\ MaxFaults \in Nat
BY SetupAssumption DEF SetupAssumption

LEMMA ZeroInBounds == 0 \in 0..MaxEdits /\ 0 \in 0..MaxFaults
BY Bounds

LEMMA InitInv == Init => Inv
<1> SUFFICES ASSUME Init
             PROVE  Inv
  OBVIOUS
<1> USE DEF Init
<1>1. file \in [Places -> HandWritten]
  BY SetupAssumption DEF SetupAssumption
<1>2. DOMAIN file = Places /\ \A p \in Places : file[p] \in HandWritten
  BY <1>1
<1>3. \A p \in Places : file[p].is \in {"absent", "broken", "toml"} /\ Decoded(file[p].data)
  BY <1>2, SetupAssumption DEF SetupAssumption
<1>4. env \in [Places -> Creds \union {""}]
  <2>1. CASE env \in [Places -> {""}]
    BY <2>1
  <2>2. CASE env \in [etc : Creds, local : {""}]
    <3>1. env \in [{"etc", "local"} -> Creds \union {""}]
      BY <2>2
    <3> QED
      BY <3>1 DEF Places
  <2> QED
    BY <2>1, <2>2
<1>5. staged \in [Places -> SUBSET DOMAIN Content]
  OBVIOUS
<1>6. DiskOK
  BY <1>2, <1>3, <1>4, <1>5 DEF DiskOK
<1>7. WizardOK
  <2>1. edits \in 0..MaxEdits /\ faults \in 0..MaxFaults
    BY ZeroInBounds, Zenon
  <2>2. /\ pc \in {"off", "menu", "open", "write", "chown", "consume"} /\ place \in Places
        /\ consumed \in {"", "env"} \union DOMAIN Content
    BY DEF Places
  <2>3. CfgOK(cfg)
    BY DefaultValid
  <2> QED
    BY <2>1, <2>2, <2>3 DEF WizardOK
<1>8. SavedOK /\ LegalOK
  BY DefaultValid DEF SavedOK, LegalOK
<1> QED
  BY <1>6, <1>7, <1>8 DEF Inv
-----------------------------------------------------------------------------
(* The steps. *)

LEMMA StartInv == Inv /\ Start => Inv'
<1> SUFFICES ASSUME Inv, Start
             PROVE  Inv'
  OBVIOUS
<1> DEFINE f == IF file["local"].is # "absent" THEN file["local"] ELSE file["etc"]
<1>1. {"etc", "local"} \subseteq Places /\ resolvePaths \in Places
  BY DEF Places, resolvePaths
<1>2. cfg' = readConfig(f, "")
  BY LoadTwo DEF Start
<1>3. \E p \in Places : f = file[p]
  BY <1>1
<1>4. Decoded(f.data) /\ (legal => HasValidChecks(f))
  BY <1>3 DEF Inv, DiskOK, LegalOK
<1> HIDE DEF f
<1>5. CfgOK(cfg') /\ (legal => ValidateHealthChecks(cfg'.checks))
  BY <1>2, <1>4, ReadOK DEF HasValidChecks
<1>6. DiskOK'
  <2>1. staged' \in [Places -> SUBSET DOMAIN Content]
    BY <1>1, SetupAssumption DEF Inv, DiskOK, Start, SetupAssumption
  <2> QED
    BY <2>1 DEF Inv, DiskOK, Start
<1>7. WizardOK'
  BY <1>1, <1>5 DEF Inv, WizardOK, Start
<1>8. SavedOK'
  BY DEF Start, SavedOK
<1>9. LegalOK'
  BY <1>5 DEF Inv, LegalOK, Start, HasValidChecks
<1> QED
  BY <1>6, <1>7, <1>8, <1>9 DEF Inv

\* What a write that is cut off does to the files.
LEMMA CutWriteInv ==
  ASSUME Inv, CutWrite
  PROVE  /\ DOMAIN file' = Places
         /\ \A p \in Places : file'[p].is \in {"absent", "broken", "toml"} /\ Decoded(file'[p].data)
         /\ legal' => legal /\ \A p \in Places : HasValidChecks(file'[p])
<1>1. /\ place \in Places /\ DOMAIN file = Places /\ CfgOK(cfg)
      /\ \A p \in Places : file[p].is \in {"absent", "broken", "toml"} /\ Decoded(file[p].data)
      /\ legal => ValidateHealthChecks(cfg.checks) /\ \A p \in Places : HasValidChecks(file[p])
  BY DEF Inv, DiskOK, WizardOK, LegalOK
<1>2. CASE file' = file /\ legal' = legal
  BY <1>1, <1>2
<1>3. CASE file' = [file EXCEPT ![place] = Broken] /\ legal' = legal
  <2>1. Broken.is = "broken" /\ Decoded(Broken.data)
    BY EmptyDecoded DEF Broken
  <2>2. HasValidChecks(Broken)
    BY <2>1, NoChecks
  <2>3. DOMAIN file' = Places /\ \A p \in Places : file'[p] \in {file[p], Broken}
    BY <1>1, <1>3
  <2> QED
    BY <1>1, <1>3, <2>1, <2>2, <2>3
<1>4. CASE \E t \in CutOff(ConfigToMap(cfg)) :
             /\ file' = [file EXCEPT ![place] = Toml(t)]
             /\ legal' = (legal /\ IsPrefix(t.health_checks, ConfigToMap(cfg).health_checks))
  <2> DEFINE m == ConfigToMap(cfg)
  <2>1. PICK t \in CutOff(m) : /\ file' = [file EXCEPT ![place] = Toml(t)]
                               /\ legal' = (legal /\ IsPrefix(t.health_checks, m.health_checks))
    BY <1>4
  <2>2. Decoded(m)
    BY <1>1, ToFile
  <2>3. legal => HasValidChecks(Toml(m))
    <3>1. readConfig(Toml(m), "") = ConfigFromMap(m, "")
      BY DEF readConfig, Toml
    <3> QED
      BY <1>1, <3>1, RoundTripValid DEF HasValidChecks
  <2> HIDE DEF m
  <2>4. Decoded(t)
    BY <2>1, <2>2, CutDecoded
  <2>5. Toml(t).is = "toml" /\ Decoded(Toml(t).data)
    BY <2>4 DEF Toml
  <2>6. legal' => legal /\ HasValidChecks(Toml(t))
    BY <2>1, <2>2, <2>3, <2>4, CutValid
  <2>7. DOMAIN file' = Places /\ \A p \in Places : file'[p] \in {file[p], Toml(t)}
    BY <1>1, <2>1
  <2> QED
    BY <1>1, <2>5, <2>6, <2>7
<1> QED
  BY <1>2, <1>3, <1>4 DEF CutWrite

LEMMA EndInv == Inv /\ End => Inv'
<1> SUFFICES ASSUME Inv, End
             PROVE  Inv'
  OBVIOUS
<1>1. /\ DOMAIN file' = Places
      /\ \A p \in Places : file'[p].is \in {"absent", "broken", "toml"} /\ Decoded(file'[p].data)
      /\ legal' => legal /\ \A p \in Places : HasValidChecks(file'[p])
  <2>1. CASE pc = "write"
    BY <2>1, CutWriteInv DEF End
  <2>2. CASE pc # "write"
    BY <2>2 DEF End, Inv, DiskOK, LegalOK
  <2> QED
    BY <2>1, <2>2
<1>2. DiskOK'
  BY <1>1 DEF Inv, DiskOK, End
<1>3. WizardOK'
  <2>1. faults' \in 0..MaxFaults
    <3>1. faults \in 0..MaxFaults /\ faults' \in {faults, faults + 1} /\ faults' <= MaxFaults
      BY DEF Inv, WizardOK, End
    <3> QED
      BY <3>1, Bounds
  <2> QED
    BY <2>1, DefaultValid DEF Inv, WizardOK, End, Places
<1>4. SavedOK'
  BY DEF End, SavedOK
<1>5. LegalOK'
  BY <1>1, DefaultValid DEF LegalOK, End, HasValidChecks
<1> QED
  BY <1>2, <1>3, <1>4, <1>5 DEF Inv

LEMMA HandEditInv == Inv /\ HandEdit => Inv'
<1> SUFFICES ASSUME Inv, HandEdit
             PROVE  Inv'
  OBVIOUS
<1>1. PICK f \in HandWritten \ {Absent} :
        file' = [file EXCEPT !["etc"] = f] /\ legal' = (legal /\ HasValidChecks(f))
  BY DEF HandEdit
<1>2. f.is \in {"absent", "broken", "toml"} /\ Decoded(f.data)
  BY <1>1, SetupAssumption DEF SetupAssumption
<1>3. /\ DOMAIN file = Places /\ DOMAIN file' = Places
      /\ \A p \in Places : file'[p] = f \/ file'[p] = file[p]
  BY <1>1 DEF Inv, DiskOK
<1>4. DiskOK'
  BY <1>2, <1>3 DEF Inv, DiskOK, HandEdit
<1>5. WizardOK'
  <2>1. faults \in 0..MaxFaults /\ faults < MaxFaults /\ faults' = faults + 1
    BY DEF Inv, WizardOK, HandEdit
  <2>2. faults' \in 0..MaxFaults
    BY <2>1, Bounds
  <2> QED
    BY <2>2 DEF Inv, WizardOK, HandEdit
<1>6. SavedOK'
  BY DEF Inv, HandEdit, SavedOK
<1>7. LegalOK'
  <2> SUFFICES ASSUME legal'
               PROVE  ValidateHealthChecks(cfg'.checks) /\ \A p \in Places : HasValidChecks(file'[p])
    BY DEF LegalOK, HasValidChecks
  <2>1. legal /\ HasValidChecks(f)
    BY <1>1
  <2>2. cfg' = cfg
    BY DEF HandEdit
  <2> QED
    BY <1>3, <2>1, <2>2 DEF Inv, LegalOK
<1> QED
  BY <1>4, <1>5, <1>6, <1>7 DEF Inv

LEMMA DialogBound == Inv /\ Dialog => edits' \in 0..MaxEdits
<1> SUFFICES ASSUME Inv, Dialog
             PROVE  edits' \in 0..MaxEdits
  OBVIOUS
<1>1. edits \in 0..MaxEdits /\ edits < MaxEdits /\ edits' = edits + 1
  BY DEF Dialog, Inv, WizardOK
<1> QED
  BY <1>1, Bounds

\* Every dialog that saves.
LEMMA SaveInv ==
  ASSUME Inv, Dialog, NEW newCfg, NEW c, SaveThen(newCfg, c), CfgOK(newCfg),
         c \in {"", "env"} \union DOMAIN Content,
         legal => ValidateHealthChecks(newCfg.checks)
  PROVE  Inv'
<1> USE DEF SaveThen, disk
<1>1. DiskOK'
  BY DEF Inv, DiskOK
<1>2. edits' \in 0..MaxEdits
  BY DialogBound
<1>3. WizardOK'
  BY <1>2 DEF Inv, WizardOK
<1>4. SavedOK'
  BY DEF SavedOK
<1>5. LegalOK'
  BY DEF Inv, LegalOK, HasValidChecks
<1> QED
  BY <1>1, <1>3, <1>4, <1>5 DEF Inv

\* A dialog that leaves services and health checks alone.
LEMMA SettingInv ==
  ASSUME Inv, Dialog, NEW newCfg, Save(newCfg), CfgOK(newCfg), newCfg.checks = cfg.checks
  PROVE  Inv'
<1>1. legal => ValidateHealthChecks(newCfg.checks)
  BY DEF Inv, LegalOK
<1> QED
  BY <1>1, SaveInv DEF Save

LEMMA setMonitorInv == Inv /\ setMonitor => Inv'
<1> SUFFICES ASSUME Inv, setMonitor
             PROVE  Inv'
  OBVIOUS
<1>1. PICK a : Dialog /\ Save([cfg EXCEPT !.monitor = Answered(@, a)])
  BY DEF setMonitor
<1> DEFINE x == Answered(cfg.monitor, a)
           d == [cfg EXCEPT !.monitor = x]
<1>2. CfgOK(cfg) /\ CfgShape(cfg)
  BY DEF Inv, WizardOK, CfgOK
<1>3. x = [k \in Toggles |-> x[k]]
  <2>1. DOMAIN cfg.monitor = Toggles
    BY <1>2 DEF CfgOK
  <2> QED
    BY <2>1 DEF Answered
<1>4. Save(d)
  BY <1>1
<1> HIDE DEF x
<1>5. AgreeBut(cfg, d, "monitor") /\ d.monitor = x
  BY <1>2, CfgExcept
<1> HIDE DEF d
<1>6. CfgOK(d) /\ d.checks = cfg.checks
  BY <1>2, <1>3, <1>5, CfgWith DEF AgreeBut
<1> QED
  BY <1>1, <1>4, <1>6, SettingInv

LEMMA setIntervalsInv == Inv /\ setIntervals => Inv'
<1> SUFFICES ASSUME Inv, setIntervals
             PROVE  Inv'
  OBVIOUS
<1>1. PICK a : Dialog /\ Save([cfg EXCEPT !.interval = Answered(@, a)])
  BY DEF setIntervals
<1> DEFINE x == Answered(cfg.interval, a)
           d == [cfg EXCEPT !.interval = x]
<1>2. CfgOK(cfg) /\ CfgShape(cfg)
  BY DEF Inv, WizardOK, CfgOK
<1>3. x = [k \in Intervals |-> x[k]]
  <2>1. DOMAIN cfg.interval = Intervals
    BY <1>2 DEF CfgOK
  <2> QED
    BY <2>1 DEF Answered
<1>4. Save(d)
  BY <1>1
<1> HIDE DEF x
<1>5. AgreeBut(cfg, d, "interval") /\ d.interval = x
  BY <1>2, CfgExcept
<1> HIDE DEF d
<1>6. CfgOK(d) /\ d.checks = cfg.checks
  BY <1>2, <1>3, <1>5, CfgWith DEF AgreeBut
<1> QED
  BY <1>1, <1>4, <1>6, SettingInv

LEMMA setThresholdsInv == Inv /\ setThresholds => Inv'
<1> SUFFICES ASSUME Inv, setThresholds
             PROVE  Inv'
  OBVIOUS
<1>1. PICK a : Dialog /\ Save([cfg EXCEPT !.threshold = Answered(@, a)])
  BY DEF setThresholds
<1> DEFINE x == Answered(cfg.threshold, a)
           d == [cfg EXCEPT !.threshold = x]
<1>2. CfgOK(cfg) /\ CfgShape(cfg)
  BY DEF Inv, WizardOK, CfgOK
<1>3. x = [k \in Thresholds |-> x[k]]
  <2>1. DOMAIN cfg.threshold = Thresholds
    BY <1>2 DEF CfgOK
  <2> QED
    BY <2>1 DEF Answered
<1>4. Save(d)
  BY <1>1
<1> HIDE DEF x
<1>5. AgreeBut(cfg, d, "threshold") /\ d.threshold = x
  BY <1>2, CfgExcept
<1> HIDE DEF d
<1>6. CfgOK(d) /\ d.checks = cfg.checks
  BY <1>2, <1>3, <1>5, CfgWith DEF AgreeBut
<1> QED
  BY <1>1, <1>4, <1>6, SettingInv

LEMMA setWatchListsInv == Inv /\ setWatchLists => Inv'
<1> SUFFICES ASSUME Inv, setWatchLists
             PROVE  Inv'
  OBVIOUS
<1>1. PICK a : Dialog /\ Save([cfg EXCEPT !.watch = Answered(@, a)])
  BY DEF setWatchLists
<1> DEFINE x == Answered(cfg.watch, a)
           d == [cfg EXCEPT !.watch = x]
<1>2. CfgOK(cfg) /\ CfgShape(cfg)
  BY DEF Inv, WizardOK, CfgOK
<1>3. x = [l \in Lists |-> x[l]]
  <2>1. DOMAIN cfg.watch = Lists
    BY <1>2 DEF CfgOK
  <2> QED
    BY <2>1 DEF Answered
<1>4. Save(d)
  BY <1>1
<1> HIDE DEF x
<1>5. AgreeBut(cfg, d, "watch") /\ d.watch = x
  BY <1>2, CfgExcept
<1> HIDE DEF d
<1>6. CfgOK(d) /\ d.checks = cfg.checks
  BY <1>2, <1>3, <1>5, CfgWith DEF AgreeBut
<1> QED
  BY <1>1, <1>4, <1>6, SettingInv

LEMMA setCooldownsInv == Inv /\ setCooldowns => Inv'
<1> SUFFICES ASSUME Inv, setCooldowns
             PROVE  Inv'
  OBVIOUS
<1>1. PICK K, a :
        Dialog /\ Save([cfg EXCEPT !.cooldown =
                          [k \in (DOMAIN @ \union K) \ {k \in K : a[k] = Cooldowns[k]}
                             |-> IF k \in K THEN a[k] ELSE @[k]]])
  BY DEF setCooldowns
<1> DEFINE x == [k \in (DOMAIN cfg.cooldown \union K) \ {k \in K : a[k] = Cooldowns[k]}
                   |-> IF k \in K THEN a[k] ELSE cfg.cooldown[k]]
           d == [cfg EXCEPT !.cooldown = x]
<1>2. CfgOK(cfg) /\ CfgShape(cfg)
  BY DEF Inv, WizardOK, CfgOK
<1>3. x = [k \in DOMAIN x |-> x[k]]
  OBVIOUS
<1>4. Save(d)
  BY <1>1
<1> HIDE DEF x
<1>5. AgreeBut(cfg, d, "cooldown") /\ d.cooldown = x
  BY <1>2, CfgExcept
<1> HIDE DEF d
<1>6. CfgOK(d) /\ d.checks = cfg.checks
  BY <1>2, <1>3, <1>5, CfgWith DEF AgreeBut
<1> QED
  BY <1>1, <1>4, <1>6, SettingInv

LEMMA resetDefaultsInv == Inv /\ resetDefaults => Inv'
<1> SUFFICES ASSUME Inv, resetDefaults
             PROVE  Inv'
  OBVIOUS
<1>1. Dialog /\ SaveThen(DefaultConfig, "env")
  BY DEF resetDefaults
<1> QED
  BY <1>1, DefaultValid, SaveInv

LEMMA setCredentialsInv == Inv /\ setCredentials => Inv'
<1> SUFFICES ASSUME Inv, setCredentials
             PROVE  Inv'
  OBVIOUS
<1>1. Dialog /\ UNCHANGED <<file, staged, readable, pc, place, consumed, created, saved, legal>>
  BY DEF setCredentials
<1>2. PICK new \in Creds :
        \/ /\ env' = [env EXCEPT ![place] = new]
           /\ cfg' = [cfg EXCEPT !.creds = new]
           /\ faults' = faults
        \/ /\ faults < MaxFaults /\ faults' = faults + 1
           /\ env' \in {env, [env EXCEPT ![place] = ""]}
           /\ cfg' = cfg
  BY DEF setCredentials
<1>3. CfgOK(cfg) /\ CfgShape(cfg) /\ env \in [Places -> Creds \union {""}] /\ place \in Places
  BY DEF Inv, WizardOK, DiskOK, CfgOK
<1>4. /\ CfgOK(cfg') /\ cfg'.checks = cfg.checks /\ cfg'.services = cfg.services
      /\ ConfigToMap(cfg') = ConfigToMap(cfg)
  <2>1. AgreeBut(cfg, cfg', "creds")
    <3>1. AgreeBut(cfg, [cfg EXCEPT !.creds = new], "creds")
      BY <1>3, CfgExcept
    <3>2. AgreeBut(cfg, cfg, "creds")
      BY <1>3 DEF AgreeBut
    <3> QED
      BY <1>2, <3>1, <3>2
  <2>2. CfgOK(cfg')
    BY <1>3, <2>1, CfgWith
  <2> QED
    BY <2>1, <2>2 DEF AgreeBut, ConfigToMap
<1>5. env' \in [Places -> Creds \union {""}]
  BY <1>2, <1>3
<1>6. faults' \in 0..MaxFaults
  <2>1. faults \in 0..MaxFaults
    BY DEF Inv, WizardOK
  <2>2. faults' = faults \/ (faults < MaxFaults /\ faults' = faults + 1)
    BY <1>2
  <2> QED
    BY <2>1, <2>2, Bounds
<1>7. edits' \in 0..MaxEdits
  BY <1>1, DialogBound
<1>8. DiskOK'
  BY <1>1, <1>5 DEF Inv, DiskOK
<1>9. WizardOK'
  BY <1>1, <1>4, <1>6, <1>7 DEF Inv, WizardOK
<1>10. SavedOK'
  BY <1>1, <1>4 DEF Inv, SavedOK
<1>11. LegalOK'
  BY <1>1, <1>4 DEF Inv, LegalOK, HasValidChecks
<1> QED
  BY <1>8, <1>9, <1>10, <1>11 DEF Inv

LEMMA registerServiceInv == Inv /\ registerService => Inv'
<1> SUFFICES ASSUME Inv, registerService
             PROVE  Inv'
  OBVIOUS
<1>1. PICK f \in Listed, unitExists \in BOOLEAN :
        /\ Dialog /\ Registrable(Content[f], unitExists)
        /\ SaveThen([cfg EXCEPT !.services = WithService(@, Content[f])], f)
  BY DEF registerService
<1> DEFINE x == WithService(cfg.services, Content[f])
           d == [cfg EXCEPT !.services = x]
<1>2. CfgOK(cfg) /\ CfgShape(cfg)
  BY DEF Inv, WizardOK, CfgOK
<1>3. IsList(x) /\ Content[f] \in ToSet(x) /\ ToSet(x) \subseteq ToSet(cfg.services) \union {Content[f]}
  BY <1>2, WithServiceResult DEF CfgOK
<1>4. \A svc \in ToSet(x) : Usable(svc)
  BY <1>1, <1>2, <1>3 DEF CfgOK, Registrable, Usable
<1>5. SaveThen(d, f)
  BY <1>1
<1>6. f \in DOMAIN Content
  BY DEF Listed, Inv, DiskOK, WizardOK
<1> HIDE DEF x
<1>7. AgreeBut(cfg, d, "services") /\ d.services = x
  BY <1>2, CfgExcept
<1> HIDE DEF d
<1>8. CfgOK(d) /\ d.checks = cfg.checks
  BY <1>2, <1>3, <1>4, <1>7, CfgWith DEF AgreeBut
<1>9. legal => ValidateHealthChecks(d.checks)
  BY <1>8 DEF Inv, LegalOK
<1> QED
  BY <1>1, <1>5, <1>6, <1>8, <1>9, SaveInv

LEMMA deleteStagedInv == Inv /\ deleteStaged => Inv'
<1> SUFFICES ASSUME Inv, deleteStaged
             PROVE  Inv'
  OBVIOUS
<1>1. PICK f \in Listed : staged' = [staged EXCEPT ![place] = @ \ {f}]
  BY DEF deleteStaged
<1>2. Dialog /\ UNCHANGED <<file, env, readable, pc, place, cfg, consumed, created, faults, saved, legal>>
  BY DEF deleteStaged
<1>3. edits' \in 0..MaxEdits
  BY <1>2, DialogBound
<1>4. staged' \in [Places -> SUBSET DOMAIN Content]
  BY <1>1 DEF Inv, DiskOK, WizardOK
<1>5. DiskOK' /\ WizardOK'
  BY <1>2, <1>3, <1>4 DEF Inv, DiskOK, WizardOK
<1>6. SavedOK' /\ LegalOK'
  BY <1>2 DEF Inv, SavedOK, LegalOK, HasValidChecks
<1> QED
  BY <1>5, <1>6 DEF Inv

LEMMA ensureCustomDirInv == Inv /\ ensureCustomDir => Inv'
<1> SUFFICES ASSUME Inv, ensureCustomDir
             PROVE  Inv'
  OBVIOUS
<1>1. /\ staged' = [staged EXCEPT ![place] = @ \union {Example}]
      /\ UNCHANGED <<file, env, readable, pc, place, cfg, consumed, created, edits, faults, saved, legal>>
  BY DEF ensureCustomDir
<1>2. staged' \in [Places -> SUBSET DOMAIN Content]
  BY <1>1, SetupAssumption DEF Inv, DiskOK, WizardOK, SetupAssumption
<1>3. DiskOK' /\ WizardOK'
  BY <1>1, <1>2 DEF Inv, DiskOK, WizardOK
<1>4. SavedOK' /\ LegalOK'
  BY <1>1 DEF Inv, SavedOK, LegalOK, HasValidChecks
<1> QED
  BY <1>3, <1>4 DEF Inv

LEMMA addHealthCheckInv == Inv /\ addHealthCheck => Inv'
<1> SUFFICES ASSUME Inv, addHealthCheck
             PROVE  Inv'
  OBVIOUS
<1>1. PICK a \in CheckAnswers :
        /\ Dialog /\ promptHealthCheck(NewCheck, ToSet(cfg.checks), a).ok
        /\ Save([cfg EXCEPT !.checks =
                   Append(@, promptHealthCheck(NewCheck, ToSet(cfg.checks), a).hc)])
  BY DEF addHealthCheck
<1> DEFINE r == promptHealthCheck(NewCheck, ToSet(cfg.checks), a)
           x == Append(cfg.checks, r.hc)
           d == [cfg EXCEPT !.checks = x]
<1>2. CheckOK(r.hc) /\ Valid(r.hc, ToSet(cfg.checks))
  BY <1>1, NewCheckShape, PromptResult
<1>3. Save(d)
  BY <1>1
<1> HIDE DEF r
<1>4. CfgOK(cfg) /\ CfgShape(cfg)
  BY DEF Inv, WizardOK, CfgOK
<1>5. ChecksOK(x)
  <2>1. IsList(x) /\ ToSet(x) = ToSet(cfg.checks) \union {r.hc}
    BY <1>4, AppendList DEF CfgOK, ChecksOK
  <2> QED
    BY <1>2, <1>4, <2>1 DEF CfgOK, ChecksOK
<1>6. legal => ValidateHealthChecks(x)
  BY <1>2, <1>4, AppendValid DEF Inv, LegalOK, CfgOK, ChecksOK
<1> HIDE DEF x
<1>7. AgreeBut(cfg, d, "checks") /\ d.checks = x
  BY <1>4, CfgExcept
<1> HIDE DEF d
<1>8. CfgOK(d) /\ (legal => ValidateHealthChecks(d.checks))
  BY <1>4, <1>5, <1>6, <1>7, CfgWith
<1> QED
  BY <1>1, <1>3, <1>8, SaveInv DEF Save

LEMMA editHealthCheckInv == Inv /\ editHealthCheck => Inv'
<1> SUFFICES ASSUME Inv, editHealthCheck
             PROVE  Inv'
  OBVIOUS
<1>1. PICK i \in DOMAIN cfg.checks, a \in CheckAnswers :
        /\ Dialog
        /\ promptHealthCheck(cfg.checks[i], ToSet(RemoveAt(cfg.checks, i)), a).ok
        /\ Save([cfg EXCEPT !.checks =
                   [cfg.checks EXCEPT ![i] =
                      promptHealthCheck(cfg.checks[i], ToSet(RemoveAt(cfg.checks, i)), a).hc]])
  BY DEF editHealthCheck
<1> DEFINE r == promptHealthCheck(cfg.checks[i], ToSet(RemoveAt(cfg.checks, i)), a)
           x == [cfg.checks EXCEPT ![i] = r.hc]
           d == [cfg EXCEPT !.checks = x]
<1>2. CfgOK(cfg) /\ CfgShape(cfg)
  BY DEF Inv, WizardOK, CfgOK
<1>3. IsList(cfg.checks) /\ CheckOK(cfg.checks[i])
  BY <1>2 DEF CfgOK, ChecksOK, ToSet
<1>4. CheckOK(r.hc) /\ Valid(r.hc, ToSet(RemoveAt(cfg.checks, i)))
  BY <1>1, <1>3, PromptResult DEF CheckOK
<1>5. Save(d)
  BY <1>1
<1> HIDE DEF r
<1>6. ChecksOK(x)
  <2>1. IsList(x) /\ ToSet(x) \subseteq ToSet(cfg.checks) \union {r.hc}
    BY <1>3, ReplaceList
  <2> QED
    BY <1>2, <1>4, <2>1 DEF CfgOK, ChecksOK
<1>7. legal => ValidateHealthChecks(x)
  BY <1>3, <1>4, ReplaceValid DEF Inv, LegalOK
<1> HIDE DEF x
<1>8. AgreeBut(cfg, d, "checks") /\ d.checks = x
  BY <1>2, CfgExcept
<1> HIDE DEF d
<1>9. CfgOK(d) /\ (legal => ValidateHealthChecks(d.checks))
  BY <1>2, <1>6, <1>7, <1>8, CfgWith
<1> QED
  BY <1>1, <1>5, <1>9, SaveInv DEF Save

LEMMA deleteHealthCheckInv == Inv /\ deleteHealthCheck => Inv'
<1> SUFFICES ASSUME Inv, deleteHealthCheck
             PROVE  Inv'
  OBVIOUS
<1>1. PICK i \in DOMAIN cfg.checks : Dialog /\ Save([cfg EXCEPT !.checks = RemoveAt(@, i)])
  BY DEF deleteHealthCheck
<1> DEFINE x == RemoveAt(cfg.checks, i)
           d == [cfg EXCEPT !.checks = x]
<1>2. CfgOK(cfg) /\ CfgShape(cfg) /\ IsList(cfg.checks)
  BY DEF Inv, WizardOK, CfgOK, ChecksOK
<1>3. Save(d)
  BY <1>1
<1>4. ChecksOK(x)
  <2>1. IsList(x) /\ ToSet(x) \subseteq ToSet(cfg.checks)
    BY <1>2, RemoveAtList
  <2> QED
    BY <1>2, <2>1 DEF CfgOK, ChecksOK
<1>5. legal => ValidateHealthChecks(x)
  BY <1>2, RemoveValid DEF Inv, LegalOK
<1> HIDE DEF x
<1>6. AgreeBut(cfg, d, "checks") /\ d.checks = x
  BY <1>2, CfgExcept
<1> HIDE DEF d
<1>7. CfgOK(d) /\ (legal => ValidateHealthChecks(d.checks))
  BY <1>2, <1>4, <1>5, <1>6, CfgWith
<1> QED
  BY <1>1, <1>3, <1>7, SaveInv DEF Save

LEMMA openConfigInv == Inv /\ openConfig => Inv'
<1> SUFFICES ASSUME Inv, openConfig
             PROVE  Inv'
  OBVIOUS
<1>1. /\ pc = "open" /\ pc' \in {"write", "chown", "consume"}
      /\ faults' = faults \/ (faults < MaxFaults /\ faults' = faults + 1)
      /\ readable' \in BOOLEAN /\ created' \in BOOLEAN
      /\ UNCHANGED <<env, staged, place, cfg, consumed, edits, saved, legal>>
  BY DEF openConfig, Inv, DiskOK, WizardOK
<1>2. file' = file \/ file' = [file EXCEPT ![place] = Empty]
  BY DEF openConfig
<1>3. DOMAIN file' = Places /\ \A p \in Places : file'[p] = file[p] \/ file'[p] = Empty
  BY <1>2 DEF Inv, DiskOK
<1>4. Empty.is = "toml" /\ Decoded(Empty.data)
  BY EmptyDecoded DEF Empty, Toml
<1>5. faults' \in 0..MaxFaults
  <2>1. faults \in 0..MaxFaults
    BY DEF Inv, WizardOK
  <2> QED
    BY <1>1, <2>1, Bounds
<1>6. DiskOK'
  BY <1>1, <1>3, <1>4 DEF Inv, DiskOK
<1>7. WizardOK'
  BY <1>1, <1>5 DEF Inv, WizardOK
<1>8. SavedOK'
  BY <1>1 DEF Inv, SavedOK
<1>9. LegalOK'
  <2>1. HasValidChecks(Empty)
    BY NoChecks
  <2>2. legal => \A p \in Places : HasValidChecks(file'[p])
    BY <1>3, <2>1 DEF Inv, LegalOK
  <2> QED
    BY <1>1, <2>2 DEF Inv, LegalOK, HasValidChecks
<1> QED
  BY <1>6, <1>7, <1>8, <1>9 DEF Inv

LEMMA writeConfigInv == Inv /\ writeConfig => Inv'
<1> SUFFICES ASSUME Inv, writeConfig
             PROVE  Inv'
  OBVIOUS
<1> DEFINE t == Toml(ConfigToMap(cfg))
<1>1. /\ pc = "write" /\ pc' \in {"chown", "consume"}
      /\ faults' = faults \/ (faults < MaxFaults /\ faults' = faults + 1)
      /\ created' \in BOOLEAN
      /\ UNCHANGED <<env, staged, readable, place, cfg, consumed, edits>>
  BY DEF writeConfig, Inv, WizardOK
<1>2. \/ file' = [file EXCEPT ![place] = t] /\ legal' = legal
      \/ ~saved' /\ CutWrite
  BY DEF writeConfig
<1>3. place \in Places /\ DOMAIN file = Places /\ CfgOK(cfg)
  BY DEF Inv, DiskOK, WizardOK
<1>4. t.is = "toml" /\ t.data = ConfigToMap(cfg) /\ Decoded(t.data)
  BY <1>3, ToFile DEF Toml
<1>5. ConfigToMap(cfg') = ConfigToMap(cfg)
  BY <1>1
<1>6. legal => HasValidChecks(t)
  <2>1. readConfig(t, "") = ConfigFromMap(ConfigToMap(cfg), "")
    BY <1>4 DEF readConfig
  <2> QED
    BY <1>3, <2>1, RoundTripValid DEF Inv, LegalOK, HasValidChecks
<1> HIDE DEF t
<1>7. /\ DOMAIN file' = Places
      /\ \A p \in Places : file'[p].is \in {"absent", "broken", "toml"} /\ Decoded(file'[p].data)
      /\ legal' => legal /\ \A p \in Places : HasValidChecks(file'[p])
  <2>1. CASE file' = [file EXCEPT ![place] = t] /\ legal' = legal
    <3>1. DOMAIN file' = Places /\ \A p \in Places : file'[p] \in {file[p], t}
      BY <1>3, <2>1
    <3> QED
      BY <1>4, <1>6, <2>1, <3>1 DEF Inv, DiskOK, LegalOK
  <2>2. CASE CutWrite
    BY <2>2, CutWriteInv
  <2> QED
    BY <1>2, <2>1, <2>2
<1>8. saved' => file'[place] = t
  BY <1>2, <1>3
<1>9. faults' \in 0..MaxFaults
  <2>1. faults \in 0..MaxFaults
    BY DEF Inv, WizardOK
  <2> QED
    BY <1>1, <2>1, Bounds
<1>10. DiskOK'
  BY <1>1, <1>7 DEF Inv, DiskOK
<1>11. WizardOK'
  BY <1>1, <1>9 DEF Inv, WizardOK
<1>12. SavedOK'
  BY <1>1, <1>5, <1>8 DEF SavedOK, t
<1>13. LegalOK'
  BY <1>1, <1>7 DEF Inv, LegalOK, HasValidChecks
<1> QED
  BY <1>10, <1>11, <1>12, <1>13 DEF Inv

LEMMA chownConfigInv == Inv /\ chownConfig => Inv'
<1> SUFFICES ASSUME Inv, chownConfig
             PROVE  Inv'
  OBVIOUS
<1>1. /\ pc = "chown" /\ pc' = "consume" /\ created' = FALSE /\ readable' \in BOOLEAN
      /\ faults' = faults \/ (faults < MaxFaults /\ faults' = faults + 1)
      /\ UNCHANGED <<file, env, staged, place, cfg, consumed, edits, saved, legal>>
  BY DEF chownConfig, Inv, DiskOK
<1>2. faults' \in 0..MaxFaults
  <2>1. faults \in 0..MaxFaults
    BY DEF Inv, WizardOK
  <2> QED
    BY <1>1, <2>1, Bounds
<1>3. DiskOK' /\ WizardOK'
  BY <1>1, <1>2 DEF Inv, DiskOK, WizardOK
<1>4. SavedOK' /\ LegalOK'
  BY <1>1 DEF Inv, SavedOK, LegalOK, HasValidChecks
<1> QED
  BY <1>3, <1>4 DEF Inv

LEMMA consumeInv == Inv /\ consume => Inv'
<1> SUFFICES ASSUME Inv, consume
             PROVE  Inv'
  OBVIOUS
<1>1. /\ pc' = "menu" /\ consumed' = "" /\ pc = "consume"
      /\ UNCHANGED <<file, readable, place, cfg, created, edits, faults, saved, legal>>
  BY DEF consume
<1>2. env' \in [Places -> Creds \union {""}]
  BY DEF Inv, DiskOK, consume
<1>3. staged' \in [Places -> SUBSET DOMAIN Content]
  BY DEF Inv, DiskOK, consume
<1>4. DiskOK' /\ WizardOK'
  BY <1>1, <1>2, <1>3 DEF Inv, DiskOK, WizardOK
<1>5. SavedOK' /\ LegalOK'
  BY <1>1 DEF Inv, SavedOK, LegalOK, HasValidChecks
<1> QED
  BY <1>4, <1>5 DEF Inv

LEMMA NextInv == Inv /\ [Next]_vars => Inv'
<1> SUFFICES ASSUME Inv, [Next]_vars
             PROVE  Inv'
  OBVIOUS
<1>1. CASE Next
  BY <1>1, StartInv, EndInv, HandEditInv, setMonitorInv, setIntervalsInv, setThresholdsInv,
     setWatchListsInv, setCooldownsInv, resetDefaultsInv, setCredentialsInv,
     registerServiceInv, deleteStagedInv, ensureCustomDirInv, addHealthCheckInv,
     editHealthCheckInv, deleteHealthCheckInv, openConfigInv, writeConfigInv, chownConfigInv,
     consumeInv
     DEF Next
<1>2. CASE UNCHANGED vars
  BY <1>2 DEF vars, Inv, DiskOK, WizardOK, SavedOK, LegalOK, HasValidChecks
<1> QED
  BY <1>1, <1>2

LEMMA Invariant == Spec => []Inv
BY InitInv, NextInv, PTL DEF Spec
-----------------------------------------------------------------------------
(* The theorems. *)

\* Whatever is answered and whatever fails, the variables keep their types, and
\* the configuration in memory has usable services and checks with numbers set.
THEOREM TypeCorrect == Spec => []TypeOK
<1>1. Inv => TypeOK
  <2> SUFFICES ASSUME Inv
               PROVE  TypeOK
    OBVIOUS
  <2>1. DOMAIN cfg.monitor = Toggles /\ DOMAIN cfg.watch = Lists
    BY DEF Inv, WizardOK, CfgOK
  <2>2. \A svc \in ToSet(cfg.services) : Usable(svc)
    BY DEF Inv, WizardOK, CfgOK
  <2>3. ASSUME NEW hc \in ToSet(cfg.checks)
        PROVE  /\ DOMAIN hc.text = Fields
               /\ \A n \in Numbers \ {"expect_status"} : hc.num[n] > 0
               /\ hc.type = "http" => hc.num["expect_status"] # 0
    <3>1. CheckOK(hc)
      BY DEF Inv, WizardOK, CfgOK, ChecksOK
    <3> QED
      BY <3>1 DEF CheckOK, CheckShape, Counts, ES
  <2> QED
    BY <2>1, <2>2, <2>3 DEF Inv, DiskOK, WizardOK, TypeOK
<1> QED
  BY <1>1, Invariant, PTL

LEMMA DaemonReads == DaemonConfig = readConfig(DaemonFile, env["etc"])
BY LoadOne DEF DaemonConfig

LEMMA DaemonFileIs ==
  ASSUME Inv
  PROVE  /\ Decoded(DaemonFile.data)
         /\ DaemonFile.is = "toml" => DaemonFile = file["etc"]
         /\ readable => DaemonFile = file["etc"]
         /\ HasValidChecks(file["etc"]) => HasValidChecks(DaemonFile)
<1>1. Decoded(file["etc"].data)
  BY DEF Inv, DiskOK, Places
<1>2. Broken.is = "broken" /\ Decoded(Broken.data) /\ HasValidChecks(Broken)
  BY EmptyDecoded, NoChecks DEF Broken
<1> QED
  BY <1>1, <1>2 DEF DaemonFile

\* After a save to /etc the daemon starts with the very settings the wizard
\* shows, for every configuration that dialogs and files can make (SaveConfig
\* and LoadConfig are inverse to each other but for what Settings leaves out).
THEOREM SettingsTheorem == Spec => []EditsReachDaemon
<1>1. Inv => EditsReachDaemon
  <2> SUFFICES ASSUME Inv, saved, place = "etc", readable,
                      \A hc \in ToSet(cfg.checks) : hc.type = "http" => hc.num["expect_status"] > 0
               PROVE  Settings(DaemonConfig) = Settings(cfg)
    BY DEF EditsReachDaemon
  <2>1. file["etc"] = Toml(ConfigToMap(cfg)) /\ CfgOK(cfg)
    BY DEF Inv, SavedOK, WizardOK
  <2>2. DaemonConfig = ConfigFromMap(ConfigToMap(cfg), env["etc"])
    BY <2>1, DaemonReads, DaemonFileIs DEF readConfig, Toml
  <2>3. \A hc \in ToSet(cfg.checks) : StatusOK(hc)
    BY DEF StatusOK, ES
  <2> QED
    BY <2>1, <2>2, <2>3, RoundTrip
<1> QED
  BY <1>1, Invariant, PTL

\* No order of dialogs, failed or cut off saves and ends of the wizard leaves a
\* file the daemon ends on, if no hand wrote an invalid check, no write was cut
\* off inside a check, and the env file has credentials.
THEOREM DaemonTheorem == Spec => []DaemonComesUp
<1>1. Inv => DaemonComesUp
  <2> SUFFICES ASSUME Inv, legal, env["etc"] # ""
               PROVE  CanRun(DaemonConfig)
    BY DEF DaemonComesUp
  <2>1. "etc" \in Places
    BY DEF Places
  <2>2. Decoded(DaemonFile.data) /\ HasValidChecks(DaemonFile)
    BY <2>1, DaemonFileIs DEF Inv, LegalOK
  <2>3. DaemonConfig.creds = env["etc"] /\ DaemonConfig.checks = readConfig(DaemonFile, "").checks
    BY <2>2, DaemonReads, ReadOK
  <2> QED
    BY <2>2, <2>3 DEF CanRun, HasValidChecks
<1> QED
  BY <1>1, Invariant, PTL

\* The steps of a save that creates the file, and what it leaves.
HiddenInv ==
  /\ faults \in Nat
  /\ created => pc \in {"write", "chown"}
  /\ readable \/ created \/ faults > 0

LEMMA HiddenNext == HiddenInv /\ [Next]_vars => HiddenInv'
<1> SUFFICES ASSUME HiddenInv, [Next]_vars
             PROVE  HiddenInv'
  OBVIOUS
<1> USE DEF HiddenInv
<1>1. CASE openConfig
  <2>1. ~created /\ (readable \/ faults > 0)
    BY <1>1 DEF openConfig
  <2>2. \/ readable' = (readable /\ ~created') /\ pc' = "write" /\ faults' = faults
        \/ faults' = faults + 1 /\ created' = created
    BY <1>1 DEF openConfig
  <2>3. CASE readable' = (readable /\ ~created') /\ pc' = "write" /\ faults' = faults
    <3>1. readable /\ ~created' => readable'
      BY <2>3
    <3> QED
      BY <2>1, <2>3, <3>1
  <2>4. CASE faults' = faults + 1 /\ created' = created
    BY <2>1, <2>4
  <2> QED
    BY <2>2, <2>3, <2>4
<1>2. CASE writeConfig
  BY <1>2 DEF writeConfig
<1>3. CASE chownConfig
  BY <1>3 DEF chownConfig
<1>4. CASE End
  <2>1. /\ faults' = IF pc = "menu" THEN faults ELSE faults + 1
        /\ created' = FALSE /\ readable' = readable
    BY <1>4 DEF End
  <2> QED
    BY <2>1
<1>5. CASE HandEdit
  BY <1>5 DEF HandEdit
<1>6. CASE setCredentials
  <2>1. /\ pc' = pc /\ created' = created /\ readable' = readable
        /\ faults' = faults \/ faults' = faults + 1
    BY <1>6 DEF setCredentials
  <2> QED
    BY <2>1
<1>7. CASE consume \/ Start
  <2>1. /\ pc \in {"consume", "off"} /\ created' = created
        /\ readable' = readable /\ faults' = faults
    BY <1>7 DEF consume, Start
  <2> QED
    BY <2>1
<1>8. CASE deleteStaged \/ ensureCustomDir
  BY <1>8 DEF deleteStaged, ensureCustomDir, Dialog
<1>9. CASE \/ setMonitor \/ setIntervals \/ setThresholds \/ setWatchLists \/ setCooldowns
          \/ resetDefaults \/ registerService
          \/ addHealthCheck \/ editHealthCheck \/ deleteHealthCheck
  <2>1. pc = "menu" /\ created' = created /\ readable' = readable /\ faults' = faults
    BY <1>9 DEF setMonitor, setIntervals, setThresholds, setWatchLists, setCooldowns, resetDefaults,
       registerService, addHealthCheck, editHealthCheck, deleteHealthCheck, Dialog, Save, SaveThen, disk
  <2> QED
    BY <2>1
<1>10. CASE UNCHANGED vars
  BY <1>10 DEF vars
<1> QED
  BY <1>1, <1>2, <1>3, <1>4, <1>5, <1>6, <1>7, <1>8, <1>9, <1>10 DEF Next

\* README.md's table of files: a configuration file that the daemon may not read
\* is one whose creation is under way, or has met a fault (saveConfig).
THEOREM ReadableTheorem == Spec => []HiddenByFaultOnly
<1>1. Init => HiddenInv
  <2>1. Init => faults = 0 /\ created = FALSE /\ readable = TRUE
    BY DEF Init
  <2> QED
    BY <2>1 DEF HiddenInv
<1>2. HiddenInv => HiddenByFaultOnly
  BY DEF HiddenInv, HiddenByFaultOnly
<1> QED
  BY <1>1, <1>2, HiddenNext, PTL DEF Spec

\* Credentials the daemon would have had are gone only for one of three reasons.
THEOREM CredentialsTheorem == Spec => CredentialsLost
<1> DEFINE Lost == DaemonConfig.creds # "" /\ DaemonConfig'.creds = "" =>
                     \/ consumed = "env"
                     \/ env["etc"] # env'["etc"] /\ faults' = faults + 1
                     \/ env["etc"] = "" /\ file["etc"].data.telegram # ""
<1>1. Inv /\ Inv' /\ [Next]_vars => [Lost]_vars
  <2> SUFFICES ASSUME Inv, Inv', Next, DaemonConfig.creds # "", DaemonConfig'.creds = ""
               PROVE  \/ consumed = "env"
                      \/ env["etc"] # env'["etc"] /\ faults' = faults + 1
                      \/ env["etc"] = "" /\ file["etc"].data.telegram # ""
    OBVIOUS
  <2>1. "etc" \in Places
    BY DEF Places
  <2>2. Decoded(DaemonFile.data) /\ (DaemonFile.is = "toml" => DaemonFile = file["etc"])
    BY DaemonFileIs
  <2>3. DaemonConfig.creds = IF DaemonFile.is = "toml" /\ env["etc"] = ""
                             THEN DaemonFile.data.telegram ELSE env["etc"]
    BY <2>2, DaemonReads, ReadOK
  <2>4. env'["etc"] = ""
    <3>1. Decoded(DaemonFile'.data)
      BY EmptyDecoded, <2>1 DEF Inv, DiskOK, DaemonFile, Broken
    <3>2. DaemonConfig' = readConfig(DaemonFile', env'["etc"])
      BY LoadOne DEF DaemonConfig
    <3>3. DaemonConfig'.creds = IF DaemonFile'.is = "toml" /\ env'["etc"] = ""
                                THEN DaemonFile'.data.telegram ELSE env'["etc"]
      BY <3>1, <3>2, ReadOK
    <3> QED
      BY <3>3
  <2>6. CASE env["etc"] = ""
    BY <2>2, <2>3, <2>6
  <2>7. CASE env["etc"] # ""
    <3>1. env'["etc"] = ""
      BY <2>4
    <3>2. CASE consume
      BY <2>7, <3>1, <3>2 DEF consume, Inv, DiskOK
    <3>3. CASE setCredentials
      <4>1. PICK new \in Creds :
              \/ env' = [env EXCEPT ![place] = new]
              \/ faults' = faults + 1
        BY <3>3 DEF setCredentials
      <4>2. new # ""
        BY SetupAssumption DEF SetupAssumption
      <4>3. faults' = faults + 1
        BY <2>1, <2>7, <3>1, <4>1, <4>2 DEF Inv, DiskOK
      <4> QED
        BY <2>7, <3>1, <4>3
    <3>4. CASE ~consume /\ ~setCredentials
      <4>1. env' = env
        BY <3>4 DEF Next, Start, End, HandEdit, setMonitor, setIntervals, setThresholds, setWatchLists,
           setCooldowns, resetDefaults, registerService, deleteStaged, ensureCustomDir, addHealthCheck,
           editHealthCheck, deleteHealthCheck, openConfig, writeConfig, chownConfig, Save, SaveThen, disk
      <4> QED
        BY <2>7, <3>1, <4>1
    <3> QED
      BY <3>2, <3>3, <3>4
  <2> QED
    BY <2>6, <2>7
<1> HIDE DEF Lost
<1>2. Spec => [][Lost]_vars
  BY <1>1, Invariant, PTL DEF Spec
<1> QED
  BY <1>2 DEF CredentialsLost, Lost
=============================================================================
