-------------------------- MODULE TelegramProofs ---------------------------
(***************************************************************************)
(* Proofs about Telegram, for any limits, alerts and answers: a text of    *)
(* any length is cut so that Telegram takes it, and no shorter than it     *)
(* must be; what Send returns is true of what Telegram has, and how long   *)
(* it takes at most.                                                       *)
(*                                                                         *)
(* The text is dealt with by induction on the message, symbol by symbol:   *)
(* html.EscapeString adds the bytes of one symbol, those bytes are whole,  *)
(* and a cut in the middle of them is moved back to where they begin.      *)
(***************************************************************************)
EXTENDS Telegram, SequenceTheorems, FiniteSetTheorems, WellFoundedInduction, TLAPS

(***************************************************************************)
(* Induction.  The theorems of the library take a predicate as a           *)
(* parameter, which the provers cannot instantiate; here it is a set.      *)
(***************************************************************************)

(* A nonempty set of numbers has a least one. *)
LEMMA LeastExists ==
  ASSUME NEW S \in SUBSET Nat, S # {}
  PROVE  \E i \in S : \A j \in S : i <= j
<1>1. \E i \in S : \A j \in S : ~(<<j, i>> \in OpToRel(<, Nat))
  BY NatLessThanWellFounded, WFMin
<1>2. PICK i \in S : \A j \in S : ~(<<j, i>> \in OpToRel(<, Nat))
  BY <1>1
<1>3. \A j \in S : ~(j < i)
  BY <1>2 DEF OpToRel
<1> QED
  BY <1>3

(* A nonempty set of numbers up to n has a greatest one. *)
LEMMA GreatestExists ==
  ASSUME NEW n \in Nat, NEW S \in SUBSET (0 .. n), S # {}
  PROVE  \E i \in S : \A j \in S : i >= j
<1> DEFINE T == {n - i : i \in S}
<1>1. \A i \in S : n - i \in Nat
  OBVIOUS
<1>2. T \in SUBSET Nat /\ T # {}
  BY <1>1
<1>3. PICK t \in T : \A u \in T : t <= u
  BY <1>2, LeastExists
<1>4. PICK i \in S : t = n - i
  OBVIOUS
<1>5. ASSUME NEW j \in S
      PROVE  i >= j
  <2>1. t <= n - j
    BY <1>3
  <2> QED
    BY <1>4, <2>1
<1> QED
  BY <1>5

(* What holds of 0 and is kept by + 1 holds of every number. *)
LEMMA NatInductionSet ==
  ASSUME NEW S, 0 \in S, \A n \in Nat : n \in S => n + 1 \in S
  PROVE  Nat \subseteq S
<1> SUFFICES ASSUME Nat \ S # {}
             PROVE  FALSE
  OBVIOUS
<1>1. PICK m \in Nat \ S : \A j \in Nat \ S : m <= j
  BY LeastExists
<1>2. m # 0 /\ m - 1 \in Nat /\ (m - 1) + 1 = m
  BY <1>1
<1>3. m - 1 \in S
  BY <1>1, <1>2
<1> QED
  BY <1>1, <1>2, <1>3

(* Every sequence is reached from the empty one by appending. *)
LEMMA SeqInductionSet ==
  ASSUME NEW S, NEW T, << >> \in T,
         \A s \in Seq(S), e \in S : s \in T => Append(s, e) \in T
  PROVE  Seq(S) \subseteq T
<1> DEFINE N == {n \in Nat : \A s \in Seq(S) : Len(s) = n => s \in T}
<1>1. 0 \in N
  BY EmptySeq
<1>2. ASSUME NEW n \in Nat, n \in N, NEW s \in Seq(S), Len(s) = n + 1
      PROVE  s \in T
  <2>1. s # << >>
    BY <1>2, EmptySeq
  <2>2. PICK r \in Seq(S), e \in S : s = Append(r, e)
    BY <2>1, SequenceEmptyOrAppend
  <2>3. Len(r) = n
    BY <1>2, <2>2, AppendProperties, LenProperties
  <2> QED
    BY <1>2, <2>2, <2>3
<1> HIDE DEF N
<1>3. \A n \in Nat : n \in N => n + 1 \in N
  BY <1>2 DEF N
<1>4. Nat \subseteq N
  BY <1>1, <1>3, NatInductionSet
<1> QED
  BY <1>4, LenProperties DEF N
-----------------------------------------------------------------------------
(***************************************************************************)
(* FlattenSeq of the community modules, which html.EscapeString is modelled *)
(* with, without its recursive function.                                   *)
(***************************************************************************)

\* f is what FlattenSeq computes along the sequence ss.
Flattens(f, ss) == f = [i \in 1 .. Len(ss) |-> IF i = 1 THEN ss[i] ELSE f[i - 1] \o ss[i]]

(* Such a function exists: FlattenSeq's recursion is well defined. *)
LEMMA FlattenExists ==
  ASSUME NEW S, NEW ss \in Seq(Seq(S))
  PROVE  \E f : Flattens(f, ss)
<1> DEFINE Good(r) == \E f \in [1 .. Len(r) -> Seq(S)] : Flattens(f, r)
           T == {r \in Seq(Seq(S)) : Good(r)}
<1>1. << >> \in T
  <2>1. Flattens([i \in 1 .. 0 |-> << >>], << >>)
    BY EmptySeq DEF Flattens
  <2> QED
    BY <2>1, EmptySeq
<1>2. ASSUME NEW r \in Seq(Seq(S)), NEW x \in Seq(S), r \in T
      PROVE  Append(r, x) \in T
  <2>1. PICK f \in [1 .. Len(r) -> Seq(S)] : Flattens(f, r)
    BY <1>2
  <2> DEFINE n == Len(r)
             q == Append(r, x)
             y == IF n = 0 THEN x ELSE f[n] \o x
             g == [i \in 1 .. n + 1 |-> IF i = n + 1 THEN y ELSE f[i]]
  <2>2. /\ n \in Nat /\ q \in Seq(Seq(S)) /\ Len(q) = n + 1
        /\ \A i \in 1 .. n : q[i] = r[i]
        /\ q[n + 1] = x
    BY AppendProperties, LenProperties
  <2>3. y \in Seq(S)
    <3>1. CASE n = 0
      BY <3>1
    <3>2. CASE n # 0
      <4>1. n \in 1 .. Len(r)
        BY <2>2, <3>2
      <4>2. f[n] \in Seq(S)
        BY <2>1, <4>1
      <4> QED
        BY <3>2, <4>2, ConcatProperties
    <3> QED
      BY <3>1, <3>2
  <2> HIDE DEF y, q, n
  <2>4. g \in [1 .. n + 1 -> Seq(S)]
    BY <2>1, <2>2, <2>3 DEF n
  <2>5. \A i \in 1 .. n : f[i] = IF i = 1 THEN r[i] ELSE f[i - 1] \o r[i]
    BY <2>1 DEF Flattens, n
  <2>6. ASSUME NEW i \in 1 .. n + 1
        PROVE  g[i] = IF i = 1 THEN q[i] ELSE g[i - 1] \o q[i]
    <3>1. CASE i = n + 1
      BY <2>2, <3>1 DEF y
    <3>2. CASE i # n + 1 /\ i = 1
      BY <2>2, <2>5, <3>2
    <3>3. CASE i # n + 1 /\ i # 1
      <4>1. i \in 1 .. n /\ i - 1 \in 1 .. n + 1 /\ i - 1 # n + 1
        BY <2>2, <3>3
      <4> QED
        BY <2>2, <2>5, <3>3, <4>1
    <3> QED
      BY <3>1, <3>2, <3>3
  <2> HIDE DEF g
  <2>7. Flattens(g, q)
    BY <2>2, <2>4, <2>6 DEF Flattens
  <2> QED
    BY <2>2, <2>4, <2>7 DEF q
<1> HIDE DEF T
<1>3. Seq(Seq(S)) \subseteq T
  BY <1>1, <1>2, SeqInductionSet
<1> QED
  BY <1>3 DEF T

(* FlattenSeq is its last value. *)
LEMMA FlattenResult ==
  ASSUME NEW S, NEW ss \in Seq(Seq(S)), ss # << >>
  PROVE  \E f : Flattens(f, ss) /\ FlattenSeq(ss) = f[Len(ss)]
<1> DEFINE f == CHOOSE f : Flattens(f, ss)
<1>1. Flattens(f, ss)
  BY FlattenExists
<1>2. Len(ss) # 0
  BY EmptySeq
<1>3. FlattenSeq(ss) = (CHOOSE h : h = [i \in 1 .. Len(ss) |->
                          IF i = 1 THEN ss[i] ELSE h[i - 1] \o ss[i]])[Len(ss)]
  BY <1>2 DEF FlattenSeq
<1>4. FlattenSeq(ss) = f[Len(ss)]
  BY <1>3 DEF Flattens
<1> QED
  BY <1>1, <1>4

(* One sequence more is concatenated at the end. *)
LEMMA FlattenAppend ==
  ASSUME NEW S, NEW ss \in Seq(Seq(S)), NEW x \in Seq(S)
  PROVE  FlattenSeq(Append(ss, x)) = FlattenSeq(ss) \o x
<1> DEFINE n == Len(ss)
           q == Append(ss, x)
<1>1. /\ n \in Nat /\ q \in Seq(Seq(S)) /\ Len(q) = n + 1 /\ q # << >>
      /\ \A i \in 1 .. n : q[i] = ss[i]
      /\ q[n + 1] = x
  BY AppendProperties, LenProperties
<1>2. PICK g : Flattens(g, q) /\ FlattenSeq(q) = g[n + 1]
  BY <1>1, FlattenResult
<1> HIDE DEF q
<1>3. \A i \in 1 .. n + 1 : g[i] = IF i = 1 THEN q[i] ELSE g[i - 1] \o q[i]
  BY <1>1, <1>2 DEF Flattens
<1>4. CASE ss = << >>
  <2>1. n = 0 /\ FlattenSeq(ss) = << >>
    BY <1>4, EmptySeq DEF FlattenSeq
  <2>2. g[1] = x
    BY <1>1, <1>3, <2>1
  <2> QED
    BY <1>2, <2>1, <2>2, ConcatEmptySeq DEF q
<1>5. CASE ss # << >>
  <2>1. PICK f : Flattens(f, ss) /\ FlattenSeq(ss) = f[n]
    BY <1>5, FlattenResult
  <2> HIDE DEF n
  <2>2. \A i \in 1 .. n : f[i] = IF i = 1 THEN ss[i] ELSE f[i - 1] \o ss[i]
    BY <2>1 DEF Flattens, n
  <2> DEFINE I == {i \in Nat : i + 1 \in 1 .. n => f[i + 1] = g[i + 1]}
  <2>3. 0 \in I
    BY <1>1, <1>3, <2>2
  <2>4. ASSUME NEW i \in Nat, i \in I
        PROVE  i + 1 \in I
    <3> SUFFICES ASSUME i + 2 \in 1 .. n
                 PROVE  f[i + 2] = g[i + 2]
      OBVIOUS
    <3>1. /\ i + 1 \in 1 .. n /\ i + 2 \in 1 .. n + 1
          /\ i + 2 # 1 /\ (i + 2) - 1 = i + 1
      BY <1>1
    <3>2. f[i + 1] = g[i + 1]
      BY <2>4, <3>1
    <3> QED
      BY <1>1, <1>3, <2>2, <3>1, <3>2
  <2> HIDE DEF I
  <2>5. Nat \subseteq I
    BY <2>3, <2>4, NatInductionSet
  <2>6. n # 0 /\ n - 1 \in I /\ (n - 1) + 1 = n
    BY <1>1, <1>5, <2>5, EmptySeq DEF n
  <2>7. f[n] = g[n]
    BY <1>1, <2>6 DEF I
  <2>8. g[n + 1] = g[n] \o x
    <3>1. n + 1 \in 1 .. n + 1 /\ n + 1 # 1 /\ (n + 1) - 1 = n
      BY <1>1, <2>6
    <3> QED
      BY <1>1, <1>3, <3>1
  <2> QED
    BY <1>2, <2>1, <2>7, <2>8 DEF q
<1> QED
  BY <1>4, <1>5
-----------------------------------------------------------------------------
(***************************************************************************)
(* html.EscapeString, symbol by symbol.                                    *)
(***************************************************************************)

\* What Bytes makes texts of.
Byte == {"x", "semi", "&", "rune", "cont"}

(* Each symbol has one, two or four bytes. *)
LEMMA BytesCases ==
  ASSUME NEW c \in Symbols
  PROVE  \/ c \in {"plain", "semicolon"} /\ Len(Bytes[c]) = 1 /\ Bytes[c][1] \in {"x", "semi"}
         \/ c = "accent" /\ Len(Bytes[c]) = 2 /\ Bytes[c][1] = "rune" /\ Bytes[c][2] = "cont"
         \/ /\ c = "special" /\ Len(Bytes[c]) = 4
            /\ Bytes[c][1] = "&" /\ Bytes[c][2] = "x"
            /\ Bytes[c][3] = "x" /\ Bytes[c][4] = "semi"
<1>1. CASE c = "plain"
  BY <1>1 DEF Bytes
<1>2. CASE c = "semicolon"
  BY <1>2 DEF Bytes
<1>3. CASE c = "special"
  BY <1>3 DEF Bytes
<1>4. CASE c = "accent"
  BY <1>4 DEF Bytes
<1> QED
  BY <1>1, <1>2, <1>3, <1>4 DEF Symbols

(* The bytes of a symbol are a sequence of bytes. *)
LEMMA BytesType ==
  ASSUME NEW c \in Symbols
  PROVE  Bytes[c] \in Seq(Byte)
<1>1. CASE c = "plain"
  BY <1>1 DEF Bytes, Byte
<1>2. CASE c = "semicolon"
  BY <1>2 DEF Bytes, Byte
<1>3. CASE c = "special"
  BY <1>3 DEF Bytes, Byte
<1>4. CASE c = "accent"
  BY <1>4 DEF Bytes, Byte
<1> QED
  BY <1>1, <1>2, <1>3, <1>4 DEF Symbols

(* Escaping one symbol more adds its bytes. *)
LEMMA EscapeAppend ==
  ASSUME NEW t \in Seq(Symbols), NEW c \in Symbols
  PROVE  EscapeString(Append(t, c)) = EscapeString(t) \o Bytes[c]
<1> DEFINE ss == [i \in DOMAIN t |-> Bytes[t[i]]]
           n  == Len(t)
           u  == Append(t, c)
           us == [i \in DOMAIN u |-> Bytes[u[i]]]
           ws == Append(ss, Bytes[c])
           B  == Seq(Byte)
<1>1. n \in Nat /\ DOMAIN t = 1 .. n /\ u \in Seq(Symbols) /\ DOMAIN u = 1 .. n + 1
  BY AppendProperties, LenProperties
<1>2. /\ \A i \in 1 .. n : u[i] = t[i] /\ t[i] \in Symbols
      /\ u[n + 1] = c
  BY <1>1, AppendProperties, ElementOfSeq
<1> HIDE DEF n, u, B
<1>3. Bytes[c] \in B /\ \A i \in 1 .. n : Bytes[t[i]] \in B
  BY <1>2, BytesType DEF B
<1>4. ss \in Seq(B) /\ Len(ss) = n /\ \A i \in 1 .. n : ss[i] = Bytes[t[i]]
  BY <1>1, <1>3
<1>5. us \in Seq(B) /\ Len(us) = n + 1 /\ \A i \in 1 .. n + 1 : us[i] = Bytes[u[i]]
  <2>1. \A i \in 1 .. n + 1 : Bytes[u[i]] \in B
    <3> TAKE i \in 1 .. n + 1
    <3>1. CASE i = n + 1
      BY <1>2, <1>3, <3>1
    <3>2. CASE i # n + 1
      BY <1>1, <1>2, <1>3, <3>2
    <3> QED
      BY <3>1, <3>2
  <2> QED
    BY <1>1, <2>1
<1> HIDE DEF ss, us
<1>6. /\ ws \in Seq(B) /\ Len(ws) = n + 1
      /\ \A i \in 1 .. n : ws[i] = ss[i]
      /\ ws[n + 1] = Bytes[c]
  BY <1>3, <1>4, AppendProperties
<1> HIDE DEF ws
<1>7. \A i \in 1 .. n + 1 : us[i] = ws[i]
  BY <1>1, <1>2, <1>4, <1>5, <1>6
<1>8. us = ws
  BY <1>5, <1>6, <1>7, SeqEqual
<1>9. FlattenSeq(ws) = FlattenSeq(ss) \o Bytes[c]
  BY <1>3, <1>4, FlattenAppend DEF B, ws
<1> QED
  BY <1>8, <1>9 DEF EscapeString, ss, us, u

(* Nothing escaped is nothing. *)
LEMMA EscapeEmpty == EscapeString(<< >>) = << >>
<1>1. [i \in DOMAIN << >> |-> Bytes[<< >>[i]]] = << >>
  OBVIOUS
<1>2. FlattenSeq(<< >>) = << >>
  BY EmptySeq DEF FlattenSeq
<1> QED
  BY <1>1, <1>2 DEF EscapeString

(* Whole texts are whole when put together. *)
LEMMA WholeConcat ==
  ASSUME NEW a \in Seq(Byte), NEW b \in Seq(Byte), Whole(a), Whole(b)
  PROVE  Whole(a \o b)
<1> DEFINE n == Len(a)
           m == Len(b)
           r == a \o b
<1>1. /\ n \in Nat /\ m \in Nat
      /\ DOMAIN a = 1 .. n /\ DOMAIN b = 1 .. m /\ DOMAIN r = 1 .. n + m
      /\ Len(r) = n + m
      /\ \A i \in 1 .. n + m : r[i] = IF i <= n THEN a[i] ELSE b[i - n]
  BY ConcatProperties, LenProperties
<1>2. /\ \A i \in 1 .. n : a[i] = "&" => i + 3 <= n /\ a[i + 3] = "semi"
      /\ \A i \in 1 .. n : a[i] = "rune" => i < n /\ a[i + 1] = "cont"
      /\ \A i \in 1 .. n : a[i] = "cont" => i > 1 /\ a[i - 1] \in {"rune", "cont"}
  BY <1>1 DEF Whole
<1>3. /\ \A i \in 1 .. m : b[i] = "&" => i + 3 <= m /\ b[i + 3] = "semi"
      /\ \A i \in 1 .. m : b[i] = "rune" => i < m /\ b[i + 1] = "cont"
      /\ \A i \in 1 .. m : b[i] = "cont" => i > 1 /\ b[i - 1] \in {"rune", "cont"}
  BY <1>1 DEF Whole
<1> HIDE DEF n, m, r
<1>4. ASSUME NEW i \in 1 .. n + m
      PROVE  /\ r[i] = "&" => i + 3 <= n + m /\ r[i + 3] = "semi"
             /\ r[i] = "rune" => i < n + m /\ r[i + 1] = "cont"
             /\ r[i] = "cont" => i > 1 /\ r[i - 1] \in {"rune", "cont"}
  <2>1. CASE i \in 1 .. n
    <3>1. r[i] = a[i]
      BY <1>1, <2>1
    <3>2. ASSUME a[i] = "&"
          PROVE  i + 3 <= n + m /\ r[i + 3] = "semi"
      <4>1. i + 3 <= n /\ a[i + 3] = "semi"
        BY <1>2, <2>1, <3>2
      <4>2. i + 3 \in 1 .. n + m /\ i + 3 <= n
        <5>1. n \in Nat /\ m \in Nat
          BY <1>1
        <5>2. i \in Nat /\ i >= 1
          BY <5>1
        <5>3. i + 3 <= n
          BY <4>1
        <5> QED
          BY <5>1, <5>2, <5>3
      <4>3. r[i + 3] = a[i + 3]
        BY <1>1, <4>2
      <4>4. i + 3 <= n + m
        BY <1>1, <4>2
      <4> QED
        BY <4>1, <4>3, <4>4
    <3>3. ASSUME a[i] = "rune"
          PROVE  i < n + m /\ r[i + 1] = "cont"
      <4>1. i < n /\ a[i + 1] = "cont"
        BY <1>2, <2>1, <3>3
      <4>2. i + 1 \in 1 .. n + m /\ i + 1 <= n
        BY <1>1, <4>1
      <4> QED
        BY <1>1, <4>1, <4>2
    <3>4. ASSUME a[i] = "cont"
          PROVE  i > 1 /\ r[i - 1] \in {"rune", "cont"}
      <4>1. i > 1 /\ a[i - 1] \in {"rune", "cont"}
        BY <1>2, <2>1, <3>4
      <4>2. i - 1 \in 1 .. n + m /\ i - 1 <= n
        BY <1>1, <2>1, <4>1
      <4> QED
        BY <1>1, <4>1, <4>2
    <3> QED
      BY <3>1, <3>2, <3>3, <3>4
  <2>2. CASE i \notin 1 .. n
    <3> DEFINE j == i - n
    <3>0. j \in 1 .. m /\ i = n + j
      BY <1>1, <2>2
    <3>1. r[i] = b[j]
      BY <1>1, <2>2
    <3> HIDE DEF j
    <3>2. ASSUME b[j] = "&"
          PROVE  i + 3 <= n + m /\ r[i + 3] = "semi"
      <4>1. j + 3 <= m /\ b[j + 3] = "semi"
        BY <1>3, <3>0, <3>2
      <4>2. i + 3 \in 1 .. n + m /\ ~(i + 3 <= n) /\ (i + 3) - n = j + 3
        <5>1. n \in Nat /\ m \in Nat
          BY <1>1
        <5>2. j \in Nat /\ j >= 1 /\ i = n + j
          BY <3>0, <5>1
        <5>3. j + 3 <= m
          BY <4>1
        <5> QED
          BY <5>1, <5>2, <5>3
      <4>3. r[i + 3] = b[j + 3]
        BY <1>1, <4>2
      <4>4. i + 3 <= n + m
        BY <1>1, <4>2
      <4> QED
        BY <4>1, <4>3, <4>4
    <3>3. ASSUME b[j] = "rune"
          PROVE  i < n + m /\ r[i + 1] = "cont"
      <4>1. j < m /\ b[j + 1] = "cont"
        BY <1>3, <3>0, <3>3
      <4>2. i + 1 \in 1 .. n + m /\ ~(i + 1 <= n) /\ (i + 1) - n = j + 1
        BY <1>1, <3>0, <4>1
      <4> QED
        BY <1>1, <3>0, <4>1, <4>2
    <3>4. ASSUME b[j] = "cont"
          PROVE  i > 1 /\ r[i - 1] \in {"rune", "cont"}
      <4>1. j > 1 /\ b[j - 1] \in {"rune", "cont"}
        BY <1>3, <3>0, <3>4
      <4>2. i > 1 /\ i - 1 \in 1 .. n + m /\ ~(i - 1 <= n) /\ (i - 1) - n = j - 1
        BY <1>1, <3>0, <4>1
      <4> QED
        BY <1>1, <4>1, <4>2
    <3> QED
      BY <3>1, <3>2, <3>3, <3>4
  <2> QED
    BY <2>1, <2>2
<1> QED
  BY <1>1, <1>4 DEF Whole, r

(* The bytes of a symbol are whole. *)
LEMMA WholeSymbol ==
  ASSUME NEW c \in Symbols
  PROVE  Whole(Bytes[c])
<1> DEFINE b == Bytes[c]
           m == Len(b)
<1>1. b \in Seq(Byte) /\ DOMAIN b = 1 .. m /\ Len(b) = m
  BY BytesType, LenProperties
<1>2. \/ m = 1 /\ b[1] \in {"x", "semi"}
      \/ m = 2 /\ b[1] = "rune" /\ b[2] = "cont"
      \/ m = 4 /\ b[1] = "&" /\ b[2] = "x" /\ b[3] = "x" /\ b[4] = "semi"
  BY BytesCases
<1> SUFFICES Whole(b)
  OBVIOUS
<1> HIDE DEF b, m
<1>3. CASE m = 1 /\ b[1] \in {"x", "semi"}
  <2>0. m = 1
    BY <1>3
  <2>1. \A i \in 1 .. m : i = 1
    BY <2>0
  <2>2. b[1] # "&" /\ b[1] # "rune" /\ b[1] # "cont"
    BY <1>3
  <2>3. \A i \in 1 .. m : b[i] # "&" /\ b[i] # "rune" /\ b[i] # "cont"
    BY <2>1, <2>2
  <2> QED
    BY <1>1, <2>3 DEF Whole
<1>4. CASE m = 2 /\ b[1] = "rune" /\ b[2] = "cont"
  <2>0. m = 2
    BY <1>4
  <2>1. \A i \in 1 .. m : i = 1 \/ i = 2
    BY <2>0
  <2>2. \A i \in 1 .. m : b[i] = "rune" => i < m /\ b[i + 1] = "cont"
    BY <1>4, <2>1
  <2>3. \A i \in 1 .. m : b[i] = "cont" => i > 1 /\ b[i - 1] \in {"rune", "cont"}
    BY <1>4, <2>1
  <2>4. \A i \in 1 .. m : b[i] # "&"
    BY <1>4, <2>1
  <2> QED
    BY <1>1, <2>2, <2>3, <2>4 DEF Whole
<1>5. CASE m = 4 /\ b[1] = "&" /\ b[2] = "x" /\ b[3] = "x" /\ b[4] = "semi"
  <2>0. m = 4
    BY <1>5
  <2>1. \A i \in 1 .. m : i = 1 \/ i = 2 \/ i = 3 \/ i = 4
    BY <2>0
  <2>2. 1 + 3 <= m /\ 1 + 3 = 4 /\ b[4] = "semi"
    BY <1>5, <2>0
  <2>3. /\ b[2] # "&" /\ b[3] # "&" /\ b[4] # "&"
        /\ \A j \in {"rune", "cont"} : b[1] # j /\ b[2] # j /\ b[3] # j /\ b[4] # j
    BY <1>5
  <2>4. \A i \in 1 .. m : b[i] = "&" => i + 3 <= m /\ b[i + 3] = "semi"
    BY <2>1, <2>2, <2>3
  <2>5. \A i \in 1 .. m : b[i] # "rune" /\ b[i] # "cont"
    BY <2>1, <2>3
  <2> QED
    BY <1>1, <2>4, <2>5 DEF Whole
<1> QED
  BY <1>2, <1>3, <1>4, <1>5

(* So are those of the ellipsis. *)
LEMMA WholeEllipsis == ellipsis \in Seq(Byte) /\ Whole(ellipsis) /\ Len(ellipsis) = 3
<1>1. ellipsis \in Seq(Byte) /\ Len(ellipsis) = 3 /\ DOMAIN ellipsis = {1, 2, 3}
  BY DEF ellipsis, Byte
<1>2. ellipsis[1] = "rune" /\ ellipsis[2] = "cont" /\ ellipsis[3] = "cont"
  BY DEF ellipsis
<1> HIDE DEF ellipsis
<1> QED
  BY <1>1, <1>2 DEF Whole

(* An escaped text of any length is whole. *)
LEMMA EscapeWhole ==
  ASSUME NEW t \in Seq(Symbols)
  PROVE  EscapeString(t) \in Seq(Byte) /\ Whole(EscapeString(t))
<1> DEFINE Good(r) == EscapeString(r) \in Seq(Byte) /\ Whole(EscapeString(r))
           T == {r \in Seq(Symbols) : Good(r)}
<1>1. << >> \in T
  <2>1. Whole(<< >>)
    BY DEF Whole
  <2> QED
    BY <2>1, EscapeEmpty, EmptySeq
<1>2. ASSUME NEW r \in Seq(Symbols), NEW c \in Symbols, r \in T
      PROVE  Append(r, c) \in T
  <2>1. EscapeString(r) \in Seq(Byte) /\ Whole(EscapeString(r))
    BY <1>2
  <2>2. Bytes[c] \in Seq(Byte) /\ Whole(Bytes[c])
    BY BytesType, WholeSymbol
  <2>3. Whole(EscapeString(r) \o Bytes[c]) /\ EscapeString(r) \o Bytes[c] \in Seq(Byte)
    BY <2>1, <2>2, WholeConcat, ConcatProperties
  <2>4. Append(r, c) \in Seq(Symbols)
    BY AppendProperties
  <2> QED
    BY <2>3, <2>4, EscapeAppend
<1> HIDE DEF T
<1>3. Seq(Symbols) \subseteq T
  BY <1>1, <1>2, SeqInductionSet
<1> QED
  BY <1>3 DEF T
-----------------------------------------------------------------------------
(* The beginning of a text. *)
LEMMA Beginning ==
  ASSUME NEW S, NEW t \in Seq(S), NEW n \in 0 .. Len(t)
  PROVE  /\ SubSeq(t, 1, n) \in Seq(S)
         /\ Len(SubSeq(t, 1, n)) = n
         /\ \A i \in 1 .. n : SubSeq(t, 1, n)[i] = t[i]
<1>1. Len(t) \in Nat /\ \A i \in 1 .. Len(t) : t[i] \in S
  BY LenProperties, ElementOfSeq
<1>2. \A i \in 1 .. n : t[i] \in S
  BY <1>1
<1>3. n \in Int /\ 1 \in Int /\ (IF 1 <= n THEN n - 1 + 1 ELSE 0) = n /\ n - 1 + 1 = n
  BY <1>1
<1>4. \A i \in 1 .. n : 1 + i - 1 = i
  BY <1>1
<1>5. /\ SubSeq(t, 1, n) \in Seq(S)
      /\ Len(SubSeq(t, 1, n)) = IF 1 <= n THEN n - 1 + 1 ELSE 0
      /\ \A i \in 1 .. n - 1 + 1 : SubSeq(t, 1, n)[i] = t[1 + i - 1]
  BY <1>2, <1>3, SubSeqProperties
<1> QED
  BY <1>3, <1>4, <1>5

(* A beginning is the one before it and one element more. *)
LEMMA BeginningAppend ==
  ASSUME NEW S, NEW t \in Seq(S), NEW n \in 0 .. Len(t), n < Len(t)
  PROVE  SubSeq(t, 1, n + 1) = Append(SubSeq(t, 1, n), t[n + 1])
<1>1. Len(t) \in Nat /\ n + 1 \in 0 .. Len(t) /\ n + 1 \in 1 .. Len(t)
  BY LenProperties
<1>2. t[n + 1] \in S
  BY <1>1, ElementOfSeq
<1> DEFINE a == SubSeq(t, 1, n)
           b == SubSeq(t, 1, n + 1)
           c == Append(a, t[n + 1])
<1>3. a \in Seq(S) /\ Len(a) = n /\ \A i \in 1 .. n : a[i] = t[i]
  BY Beginning
<1>4. b \in Seq(S) /\ Len(b) = n + 1 /\ \A i \in 1 .. n + 1 : b[i] = t[i]
  BY <1>1, Beginning
<1> HIDE DEF a, b
<1>5. /\ c \in Seq(S) /\ Len(c) = n + 1
      /\ \A i \in 1 .. n : c[i] = a[i]
      /\ c[n + 1] = t[n + 1]
  BY <1>2, <1>3, AppendProperties
<1> HIDE DEF c
<1>6. \A i \in 1 .. n + 1 : b[i] = c[i]
  <2> TAKE i \in 1 .. n + 1
  <2>1. CASE i = n + 1
    BY <1>4, <1>5, <2>1
  <2>2. CASE i # n + 1
    <3>1. i \in 1 .. n
      BY <1>1, <2>2
    <3> QED
      BY <1>3, <1>4, <1>5, <3>1
  <2> QED
    BY <2>1, <2>2
<1>7. b = c
  BY <1>4, <1>5, <1>6, SeqEqual
<1> QED
  BY <1>7 DEF a, b, c

\* The bytes of the first n symbols of t.
Offset(t, n) == Len(EscapeString(SubSeq(t, 1, n)))

\* a is a beginning of s.
Starts(a, s) == Len(a) <= Len(s) /\ \A i \in 1 .. Len(a) : s[i] = a[i]

(* The bytes of the first symbols are the first bytes. *)
LEMMA EscapeStarts ==
  ASSUME NEW t \in Seq(Symbols), NEW n \in 0 .. Len(t)
  PROVE  Starts(EscapeString(SubSeq(t, 1, n)), EscapeString(t))
<1> DEFINE Good(r) == \A k \in 0 .. Len(r) : Starts(EscapeString(SubSeq(r, 1, k)), EscapeString(r))
           T == {r \in Seq(Symbols) : Good(r)}
<1>0. ASSUME NEW a \in Seq(Byte)
      PROVE  Starts(a, a)
  BY <1>0, LenProperties DEF Starts
<1>1. << >> \in T
  <2>1. \A k \in 0 .. Len(<< >>) : SubSeq(<< >>, 1, k) = << >>
    <3>1. << >> \in Seq(Symbols) /\ Len(<< >>) = 0
      BY EmptySeq
    <3>2. SubSeq(<< >>, 1, 0) = << >>
      BY <3>1, SubSeqFull
    <3> QED
      BY <3>1, <3>2
  <2>2. EscapeString(<< >>) \in Seq(Byte) /\ << >> \in Seq(Symbols)
    BY EscapeEmpty, EmptySeq
  <2> QED
    BY <1>0, <2>1, <2>2
<1>2. ASSUME NEW r \in Seq(Symbols), NEW c \in Symbols, r \in T
      PROVE  Append(r, c) \in T
  <2> DEFINE u == Append(r, c)
             n0 == Len(r)
             e == EscapeString(r)
  <2>1. n0 \in Nat /\ u \in Seq(Symbols) /\ Len(u) = n0 + 1
    BY AppendProperties, LenProperties
  <2>2. e \in Seq(Byte) /\ Bytes[c] \in Seq(Byte) /\ EscapeString(u) = e \o Bytes[c]
    BY EscapeWhole, BytesType, EscapeAppend
  <2> HIDE DEF e
  <2>3. Starts(e, e \o Bytes[c])
    <3>1. /\ Len(e) \in Nat /\ Len(Bytes[c]) \in Nat
          /\ Len(e \o Bytes[c]) = Len(e) + Len(Bytes[c])
          /\ \A i \in 1 .. Len(e) + Len(Bytes[c]) :
                (e \o Bytes[c])[i] = IF i <= Len(e) THEN e[i] ELSE Bytes[c][i - Len(e)]
      BY <2>2, ConcatProperties, LenProperties
    <3> HIDE DEF Bytes
    <3>2. \A i \in 1 .. Len(e) : i \in 1 .. Len(e) + Len(Bytes[c]) /\ i <= Len(e)
      BY <3>1
    <3> QED
      BY <3>1, <3>2 DEF Starts
  <2>4. ASSUME NEW k \in 0 .. n0 + 1
        PROVE  Starts(EscapeString(SubSeq(u, 1, k)), EscapeString(u))
    <3>1. CASE k = n0 + 1
      <4>1. SubSeq(u, 1, k) = u
        BY <2>1, <3>1, SubSeqFull
      <4> QED
        BY <1>0, <2>1, <4>1, EscapeWhole
    <3>2. CASE k # n0 + 1
      <4>1. k \in 0 .. n0 /\ k \in 0 .. Len(u)
        BY <2>1, <3>2
      <4> DEFINE x == SubSeq(u, 1, k)
                 y == SubSeq(r, 1, k)
      <4>2. /\ x \in Seq(Symbols) /\ Len(x) = k /\ \A i \in 1 .. k : x[i] = u[i]
            /\ y \in Seq(Symbols) /\ Len(y) = k /\ \A i \in 1 .. k : y[i] = r[i]
        BY <2>1, <4>1, Beginning
      <4>3. \A i \in 1 .. k : i \in 1 .. n0 /\ u[i] = r[i]
        BY <2>1, <4>1, AppendProperties
      <4> HIDE DEF x, y
      <4>4. x = y
        BY <4>2, <4>3, SeqEqual
      <4>5. Starts(EscapeString(y), e)
        BY <1>2, <4>1 DEF y, e
      <4>6. Starts(EscapeString(y), e \o Bytes[c])
        <5>1. EscapeString(y) \in Seq(Byte) /\ Len(EscapeString(y)) \in Nat /\ Len(e) \in Nat
              /\ Len(e \o Bytes[c]) \in Nat
          BY <2>2, <4>2, EscapeWhole, LenProperties, ConcatProperties
        <5> QED
          BY <2>3, <4>5, <5>1 DEF Starts
      <4> QED
        BY <2>2, <4>4, <4>6 DEF x
    <3> QED
      BY <3>1, <3>2
  <2> HIDE DEF u
  <2>5. Good(u)
    BY <2>1, <2>4
  <2> QED
    BY <2>1, <2>5 DEF u
<1> HIDE DEF T
<1>3. Seq(Symbols) \subseteq T
  BY <1>1, <1>2, SeqInductionSet
<1> QED
  BY <1>3 DEF T

(* Cut after the bytes of its first symbols, a text is these symbols escaped. *)
LEMMA EscapeBeginning ==
  ASSUME NEW t \in Seq(Symbols), NEW n \in 0 .. Len(t)
  PROVE  /\ Offset(t, n) \in 0 .. Len(EscapeString(t))
         /\ SubSeq(EscapeString(t), 1, Offset(t, n)) = EscapeString(SubSeq(t, 1, n))
<1> DEFINE s == EscapeString(t)
           a == EscapeString(SubSeq(t, 1, n))
           b == SubSeq(s, 1, Len(a))
<1>1. s \in Seq(Byte) /\ a \in Seq(Byte) /\ Len(s) \in Nat /\ Len(a) \in Nat
  BY EscapeWhole, Beginning, LenProperties
<1>2. Starts(a, s)
  BY EscapeStarts
<1> HIDE DEF s, a
<1>3. Len(a) \in 0 .. Len(s)
  BY <1>1, <1>2 DEF Starts
<1>4. b \in Seq(Byte) /\ Len(b) = Len(a) /\ \A i \in 1 .. Len(a) : b[i] = s[i]
  BY <1>1, <1>3, Beginning
<1> HIDE DEF b
<1>5. b = a
  BY <1>1, <1>2, <1>4, SeqEqual DEF Starts
<1> QED
  BY <1>3, <1>5 DEF a, b, s, Offset

(* The bytes of the symbol after the first n. *)
LEMMA NextSymbol ==
  ASSUME NEW t \in Seq(Symbols), NEW n \in 0 .. Len(t), n < Len(t)
  PROVE  /\ t[n + 1] \in Symbols
         /\ Offset(t, n + 1) = Offset(t, n) + Len(Bytes[t[n + 1]])
         /\ \A j \in 1 .. Len(Bytes[t[n + 1]]) :
              EscapeString(t)[Offset(t, n) + j] = Bytes[t[n + 1]][j]
<1> DEFINE s == EscapeString(t)
           a == EscapeString(SubSeq(t, 1, n))
           b == Bytes[t[n + 1]]
           r == EscapeString(SubSeq(t, 1, n + 1))
<1>1. Len(t) \in Nat /\ n + 1 \in 1 .. Len(t) /\ n + 1 \in 0 .. Len(t)
  BY LenProperties
<1>2. t[n + 1] \in Symbols
  BY <1>1, ElementOfSeq
<1>3. a \in Seq(Byte) /\ b \in Seq(Byte) /\ r = a \o b
  <2>1. SubSeq(t, 1, n) \in Seq(Symbols)
    BY Beginning
  <2>2. SubSeq(t, 1, n + 1) = Append(SubSeq(t, 1, n), t[n + 1])
    BY BeginningAppend
  <2>3. a \in Seq(Byte) /\ b \in Seq(Byte)
    BY <1>2, <2>1, EscapeWhole, BytesType
  <2>4. EscapeString(Append(SubSeq(t, 1, n), t[n + 1])) = a \o b
    BY <1>2, <2>1, EscapeAppend
  <2> QED
    BY <2>2, <2>3, <2>4
<1>4. Starts(r, s)
  BY <1>1, EscapeStarts
<1> HIDE DEF s, a, b, r
<1>5. /\ Len(a) \in Nat /\ Len(b) \in Nat /\ Len(r) = Len(a) + Len(b)
      /\ \A i \in 1 .. Len(a) + Len(b) : r[i] = IF i <= Len(a) THEN a[i] ELSE b[i - Len(a)]
  BY <1>3, ConcatProperties, LenProperties
<1>6. ASSUME NEW j \in 1 .. Len(b)
      PROVE  s[Len(a) + j] = b[j]
  <2>1. /\ Len(a) + j \in 1 .. Len(a) + Len(b)
        /\ ~(Len(a) + j <= Len(a)) /\ (Len(a) + j) - Len(a) = j
    BY <1>5
  <2>2. r[Len(a) + j] = b[j]
    BY <1>5, <2>1
  <2> QED
    BY <1>4, <1>5, <2>1, <2>2 DEF Starts
<1> QED
  BY <1>2, <1>5, <1>6 DEF a, b, r, s, Offset
-----------------------------------------------------------------------------
(* Where the text is cut. *)

(* The greatest of some numbers up to n, as Max and CHOOSE name it. *)
LEMMA MaxResult ==
  ASSUME NEW n \in Nat, NEW S \in SUBSET (0 .. n), S # {}
  PROVE  Max(S) \in S /\ \A j \in S : Max(S) >= j
<1>1. \E i \in S : \A j \in S : i >= j
  BY GreatestExists
<1> QED
  BY <1>1 DEF Max

(* The byte at which the text would be cut is moved back to the start of its
   character. *)
LEMMA CutAtRuneResult ==
  ASSUME NEW s, NEW max \in Nat, max > 3
  PROVE  /\ CutAtRune(s, max) \in 0 .. max - 3
         /\ CutAtRune(s, max) = 0 \/ isRuneStart(s[CutAtRune(s, max) + 1])
         /\ \A d \in CutAtRune(s, max) + 1 .. max - 3 : ~ isRuneStart(s[d + 1])
<1> DEFINE k == max - 3
           S == {c \in 0 .. k : c = 0 \/ isRuneStart(s[c + 1])}
           P(c) == /\ c = 0 \/ isRuneStart(s[c + 1])
                   /\ \A d \in c + 1 .. k : ~ isRuneStart(s[d + 1])
<1>1. k \in Nat /\ S \in SUBSET (0 .. k) /\ 0 \in S
  OBVIOUS
<1>2. PICK c \in S : \A j \in S : c >= j
  BY <1>1, GreatestExists
<1>3. ASSUME NEW d \in c + 1 .. k
      PROVE  ~ isRuneStart(s[d + 1])
  <2>1. d \in 0 .. k /\ ~(c >= d)
    BY <1>1
  <2> QED
    BY <1>2, <2>1
<1>4. c \in 0 .. k /\ P(c)
  BY <1>3
<1>5. CutAtRune(s, max) = CHOOSE x \in 0 .. k : P(x)
  BY WholeEllipsis DEF CutAtRune
<1> HIDE DEF P, k
<1>6. CutAtRune(s, max) \in 0 .. k /\ P(CutAtRune(s, max))
  BY <1>4, <1>5
<1> QED
  BY <1>6 DEF P, k

\* The first n symbols of t fit into k bytes, and no more.
Fitting(t, n, k) ==
  /\ n \in 0 .. Len(t)
  /\ Offset(t, n) <= k
  /\ \A m \in n + 1 .. Len(t) : ~(Offset(t, m) <= k)

(* There are such beginnings, at least the empty one, ... *)
LEMMA FittingExists ==
  ASSUME NEW t \in Seq(Symbols), NEW k \in Nat
  PROVE  \E n : Fitting(t, n, k)
<1> DEFINE S == {n \in 0 .. Len(t) : Offset(t, n) <= k}
<1>1. Len(t) \in Nat /\ 0 \in 0 .. Len(t)
  BY LenProperties
<1>2. Offset(t, 0) = 0
  <2>1. SubSeq(t, 1, 0) \in Seq(Symbols) /\ Len(SubSeq(t, 1, 0)) = 0
    BY <1>1, Beginning
  <2>2. SubSeq(t, 1, 0) = << >>
    BY <2>1, EmptySeq
  <2> QED
    BY <2>2, EscapeEmpty, EmptySeq DEF Offset
<1>3. S \in SUBSET (0 .. Len(t)) /\ 0 \in S
  BY <1>1, <1>2
<1>4. PICK n \in S : \A j \in S : n >= j
  BY <1>1, <1>3, GreatestExists
<1>5. ASSUME NEW m \in n + 1 .. Len(t)
      PROVE  ~(Offset(t, m) <= k)
  <2>1. m \in 0 .. Len(t) /\ ~(n >= m)
    BY <1>1
  <2> QED
    BY <1>4, <2>1
<1> QED
  BY <1>5 DEF Fitting

(* ... and only one that is the longest. *)
LEMMA FittingUnique ==
  ASSUME NEW t \in Seq(Symbols), NEW k, NEW n, NEW m, Fitting(t, n, k), Fitting(t, m, k)
  PROVE  n = m
<1>1. Len(t) \in Nat
  BY LenProperties
<1>2. n \in 0 .. Len(t) /\ m \in 0 .. Len(t)
  BY DEF Fitting
<1>3. ~(n < m) /\ ~(m < n)
  BY <1>1, <1>2 DEF Fitting
<1> QED
  BY <1>1, <1>2, <1>3

(* The cut falls behind the last symbol that leaves room for the ellipsis. *)
LEMMA CutResult ==
  ASSUME NEW t \in Seq(Symbols), NEW max \in Nat, max > 3, Len(EscapeString(t)) > max,
         NEW n, Fitting(t, n, max - 3)
  PROVE  Cut(EscapeString(t), max) = Offset(t, n)
<1> DEFINE s   == EscapeString(t)
           k   == max - 3
           o   == Offset(t, n)
           b   == Bytes[t[n + 1]]
           cut == CutAtRune(s, max)
           A   == {0} \union {i \in 1 .. cut : s[i] = "&"}
           amp == Max(A)
<1>1. /\ Len(t) \in Nat /\ Len(s) \in Nat /\ k \in Nat /\ n \in 0 .. Len(t)
      /\ o \in 0 .. Len(s) /\ o <= k /\ k < Len(s)
  BY EscapeWhole, LenProperties, EscapeBeginning DEF Fitting
<1>2. n < Len(t)
  <2>1. SubSeq(t, 1, Len(t)) = t
    BY SubSeqFull
  <2>2. Offset(t, Len(t)) = Len(s)
    BY <2>1 DEF Offset
  <2>3. n # Len(t)
    BY <1>1, <2>2
  <2> QED
    BY <1>1, <2>3
<1>3. /\ t[n + 1] \in Symbols
      /\ Offset(t, n + 1) = o + Len(b)
      /\ \A j \in 1 .. Len(b) : s[o + j] = b[j]
  BY <1>1, <1>2, NextSymbol
<1>4. Len(b) \in Nat /\ k < o + Len(b)
  <2>1. n + 1 \in n + 1 .. Len(t)
    BY <1>1, <1>2
  <2>2. ~(o + Len(b) <= k)
    BY <1>3, <2>1 DEF Fitting
  <2>3. Len(b) \in Nat
    BY <1>3, BytesType, LenProperties
  <2> QED
    BY <1>1, <2>2, <2>3
<1>5. /\ cut \in 0 .. k
      /\ cut = 0 \/ isRuneStart(s[cut + 1])
      /\ \A d \in cut + 1 .. k : ~ isRuneStart(s[d + 1])
  BY CutAtRuneResult
<1>6. /\ A \in SUBSET (0 .. cut) /\ A # {} /\ cut \in Nat
      /\ amp \in A /\ \A j \in A : amp >= j
  <2>1. A \in SUBSET (0 .. cut) /\ A # {} /\ cut \in Nat
    BY <1>1, <1>5
  <2> QED
    BY <2>1, MaxResult
<1>7. Cut(s, max) = IF amp > 0 /\ \A i \in amp .. cut : s[i] # "semi" THEN amp - 1 ELSE cut
  BY DEF Cut
\* The last entity before the byte o is whole.
<1>8. ASSUME NEW i \in 1 .. o, s[i] = "&"
      PROVE  i + 3 <= o /\ s[i + 3] = "semi"
  <2> DEFINE a == EscapeString(SubSeq(t, 1, n))
  <2>1. a \in Seq(Byte) /\ Whole(a) /\ Len(a) = o /\ DOMAIN a = 1 .. o
    BY <1>1, Beginning, EscapeWhole, LenProperties DEF Offset
  <2>2. Starts(a, s)
    BY <1>1, EscapeStarts
  <2> HIDE DEF a
  <2>3. \A j \in 1 .. o : s[j] = a[j]
    BY <2>1, <2>2 DEF Starts
  <2>4. i + 3 <= o /\ a[i + 3] = "semi"
    BY <1>8, <2>1, <2>3 DEF Whole
  <2>5. i + 3 \in 1 .. o
    BY <1>1, <2>4
  <2> QED
    BY <2>3, <2>4, <2>5
<1> SUFFICES Cut(s, max) = o
  OBVIOUS
<1> HIDE DEF s, k, o, b, cut, A, amp
\* Then a cut at o stays there.
<1>9. ASSUME cut = o
      PROVE  Cut(s, max) = o
  <2>1. CASE amp = 0
    BY <1>7, <1>9, <2>1
  <2>2. CASE amp # 0
    <3>1. amp \in 1 .. o /\ s[amp] = "&"
      BY <1>6, <1>9, <2>2 DEF A
    <3>2. amp + 3 <= o /\ s[amp + 3] = "semi"
      BY <1>8, <3>1
    <3>3. amp + 3 \in amp .. cut
      BY <1>1, <1>9, <3>1, <3>2
    <3> QED
      BY <1>7, <1>9, <3>2, <3>3
  <2> QED
    BY <2>1, <2>2
<1>10. CASE Len(b) = 1 /\ b[1] \in {"x", "semi"}
  <2>1. k = o /\ s[k + 1] = b[1]
    BY <1>1, <1>3, <1>4, <1>10
  <2>2. isRuneStart(s[k + 1])
    BY <1>10, <2>1 DEF isRuneStart
  <2>3. cut = o
    BY <1>1, <1>5, <2>1, <2>2
  <2> QED
    BY <1>9, <2>3
<1>11. CASE Len(b) = 2 /\ b[1] = "rune" /\ b[2] = "cont"
  <2>1. s[o + 1] = "rune" /\ s[o + 2] = "cont"
    BY <1>3, <1>11
  <2>2. isRuneStart(s[o + 1]) /\ ~ isRuneStart(s[o + 2])
    BY <2>1 DEF isRuneStart
  <2>3. k = o \/ k = o + 1
    BY <1>1, <1>4, <1>11
  <2>4. ~(o \in cut + 1 .. k)
    BY <1>5, <2>2
  <2>5. cut # o + 1
    <3>1. (o + 1) + 1 = o + 2 /\ o + 1 # 0
      BY <1>1
    <3> QED
      BY <1>5, <2>2, <3>1
  <2>6. cut = o
    BY <1>1, <1>5, <2>3, <2>4, <2>5
  <2> QED
    BY <1>9, <2>6
<1>12. CASE Len(b) = 4 /\ b[1] = "&" /\ b[2] = "x" /\ b[3] = "x" /\ b[4] = "semi"
  <2>1. s[o + 1] = "&" /\ s[o + 2] = "x" /\ s[o + 3] = "x" /\ s[o + 4] = "semi"
    BY <1>3, <1>12
  <2>2. /\ isRuneStart(s[o + 1]) /\ isRuneStart(s[o + 2])
        /\ isRuneStart(s[o + 3]) /\ isRuneStart(s[o + 4])
    BY <2>1 DEF isRuneStart
  <2>3. k = o \/ k = o + 1 \/ k = o + 2 \/ k = o + 3
    BY <1>1, <1>4, <1>12
  <2>4. isRuneStart(s[k + 1])
    <3>1. (o + 1) + 1 = o + 2 /\ (o + 2) + 1 = o + 3 /\ (o + 3) + 1 = o + 4
      BY <1>1
    <3> QED
      BY <2>2, <2>3, <3>1
  <2>5. cut = k
    BY <1>1, <1>5, <2>4
  <2>6. CASE k = o
    BY <1>9, <2>5, <2>6
  <2>7. CASE k # o
    <3>1. o + 1 \in A
      BY <1>1, <2>1, <2>3, <2>5, <2>7 DEF A
    <3>2. amp = o + 1
      <4>1. amp >= o + 1 /\ amp \in 1 .. cut /\ s[amp] = "&"
        BY <1>1, <1>6, <3>1 DEF A
      <4>2. amp = o + 1 \/ amp = o + 2 \/ amp = o + 3
        BY <1>1, <2>3, <2>5, <4>1
      <4> QED
        BY <2>1, <4>1, <4>2
    <3>3. ASSUME NEW i \in amp .. cut
          PROVE  s[i] # "semi"
      <4>1. i = o + 1 \/ i = o + 2 \/ i = o + 3
        BY <1>1, <2>3, <2>5, <3>2
      <4> QED
        BY <2>1, <4>1
    <3>4. amp > 0 /\ amp - 1 = o
      BY <1>1, <3>2
    <3> QED
      BY <1>7, <3>3, <3>4
  <2> QED
    BY <2>6, <2>7
<1> QED
  BY <1>3, <1>10, <1>11, <1>12, BytesCases DEF b
-----------------------------------------------------------------------------
(* A truncated text is whole, is no longer than allowed, and shows as much as
   can be shown. *)
LEMMA TruncateResult ==
  ASSUME NEW t \in Seq(Symbols), NEW max \in Int
  PROVE  /\ truncateEscaped(EscapeString(t), max) \in Seq(Byte)
         /\ Whole(truncateEscaped(EscapeString(t), max))
         /\ max >= 0 => Len(truncateEscaped(EscapeString(t), max)) <= max
         /\ truncateEscaped(EscapeString(t), max) = ShownOf(t, max)
<1> DEFINE s == EscapeString(t)
           r == truncateEscaped(s, max)
<1>1. s \in Seq(Byte) /\ Whole(s) /\ Len(s) \in Nat /\ Len(t) \in Nat
  BY EscapeWhole, LenProperties
<1>2. Len(ellipsis) = 3 /\ ellipsis \in Seq(Byte) /\ Whole(ellipsis)
  BY WholeEllipsis
<1>3. CASE Len(s) <= max
  <2>1. r = s
    BY <1>3 DEF truncateEscaped
  <2>2. ShownOf(t, max) = s
    BY <1>3 DEF ShownOf
  <2> QED
    BY <1>1, <1>3, <2>1, <2>2
<1>4. CASE ~(Len(s) <= max) /\ max <= 3
  <2>1. r = << >>
    BY <1>1, <1>2, <1>4 DEF truncateEscaped
  <2>2. ShownOf(t, max) = << >>
    BY <1>2, <1>4 DEF ShownOf
  <2>3. << >> \in Seq(Byte) /\ Len(<< >>) = 0 /\ Whole(<< >>)
    BY EmptySeq DEF Whole
  <2> QED
    BY <2>1, <2>2, <2>3
<1>5. CASE ~(Len(s) <= max) /\ ~(max <= 3)
  <2>1. max \in Nat /\ max > 3 /\ Len(s) > max /\ max - 3 \in Nat
    BY <1>1, <1>5
  <2>2. PICK n : Fitting(t, n, max - 3)
    BY <2>1, FittingExists
  <2> DEFINE a == EscapeString(SubSeq(t, 1, n))
  <2>3. n \in 0 .. Len(t) /\ Offset(t, n) <= max - 3
    BY <2>2 DEF Fitting
  <2>4. r = SubSeq(s, 1, Cut(s, max)) \o ellipsis
    <3>1. ~(Len(s) <= max) /\ ~(Len(s) > max /\ max <= Len(ellipsis))
      BY <1>2, <1>5
    <3> QED
      BY <3>1, Zenon DEF truncateEscaped
  <2>5. SubSeq(s, 1, Cut(s, max)) = a
    BY <2>1, <2>2, <2>3, CutResult, EscapeBeginning
  <2>6. a \in Seq(Byte) /\ Whole(a) /\ Len(a) \in Nat /\ Len(a) <= max - 3
    BY <2>3, Beginning, EscapeWhole, LenProperties DEF Offset
  <2>7. /\ a \o ellipsis \in Seq(Byte) /\ Whole(a \o ellipsis)
        /\ Len(a \o ellipsis) = Len(a) + 3
    <3> HIDE DEF a
    <3>1. Whole(a \o ellipsis)
      BY <1>2, <2>6, WholeConcat
    <3>2. a \o ellipsis \in Seq(Byte) /\ Len(a \o ellipsis) = Len(a) + Len(ellipsis)
      <4> HIDE DEF Byte, ellipsis
      <4> QED
        BY <1>2, <2>6, ConcatProperties
    <3> QED
      BY <1>2, <3>1, <3>2
  <2>8. ShownOf(t, max) = a \o ellipsis
    <3> DEFINE P(x) == /\ Offset(t, x) <= max - 3
                       /\ \A m \in x + 1 .. Len(t) : ~(Offset(t, m) <= max - 3)
               c == CHOOSE x \in 0 .. Len(t) : P(x)
    <3>1. P(n)
      BY <2>2 DEF Fitting
    <3>2. c \in 0 .. Len(t) /\ P(c)
      BY <2>3, <3>1
    <3>3. Fitting(t, c, max - 3)
      BY <3>2 DEF Fitting
    <3>4. c = n
      BY <2>2, <3>3, FittingUnique
    <3>5. ShownOf(t, max) = EscapeString(SubSeq(t, 1, c)) \o ellipsis
      BY <1>2, <1>5 DEF ShownOf, Offset
    <3> QED
      BY <3>4, <3>5
  <2> HIDE DEF a
  <2>9. Len(a \o ellipsis) <= max
    BY <2>1, <2>6, <2>7
  <2> QED
    BY <2>4, <2>5, <2>7, <2>8, <2>9
<1> QED
  BY <1>3, <1>4, <1>5

(* There are no more characters than bytes. *)
LEMMA CharactersBound ==
  ASSUME NEW s \in Seq(Byte)
  PROVE  Characters(s) \in Nat /\ Characters(s) <= Len(s)
<1> DEFINE n == Len(s)
           C == {i \in DOMAIN s : isRuneStart(s[i])}
<1>1. n \in Nat /\ DOMAIN s = 1 .. n
  BY LenProperties
<1>2. C \in SUBSET (1 .. n)
  BY <1>1
<1> HIDE DEF C, n
<1>3. IsFiniteSet(1 .. n) /\ Cardinality(1 .. n) = IF 1 > n THEN 0 ELSE n - 1 + 1
  BY <1>1, FS_Interval
<1>4. Cardinality(1 .. n) = n
  BY <1>1, <1>3
<1>5. IsFiniteSet(C) /\ Cardinality(C) <= n
  BY <1>2, <1>3, <1>4, FS_Subset
<1>6. Cardinality(C) \in Nat
  BY <1>5, FS_CardinalityType
<1> QED
  BY <1>5, <1>6 DEF Characters, C, n

(* What formatMessage makes of an alert whose fixed lines fit is accepted. *)
LEMMA FormatAccepted ==
  ASSUME NEW e \in Events, e.fixed <= Limit
  PROVE  /\ Whole(formatMessage(e).message) /\ Whole(formatMessage(e).details)
         /\ e.fixed + formatMessage(e).pre + Characters(formatMessage(e).message)
              + Characters(formatMessage(e).details) <= Limit
<1> DEFINE budget  == Limit - e.fixed
           message == truncateEscaped(EscapeString(e.message), budget)
           room    == budget - Len(message) - Pre
           shown   == e.details # <<>> /\ room > MinRoom
           details == truncateEscaped(EscapeString(e.details), room)
<1>1. /\ e.fixed \in Nat /\ e.message \in Seq(Symbols) /\ e.details \in Seq(Symbols)
      /\ Limit \in Nat /\ MinRoom \in Nat
  BY TelegramAssumption
<1>2. budget \in Int /\ budget >= 0
  BY <1>1
<1>3. message \in Seq(Byte) /\ Whole(message) /\ Len(message) <= budget /\ Len(message) \in Nat
  BY <1>1, <1>2, TruncateResult, LenProperties
<1>4. Characters(message) \in Nat /\ Characters(message) <= Len(message)
  BY <1>3, CharactersBound
<1>5. formatMessage(e) = [message |-> message,
                          details |-> IF shown THEN details ELSE <<>>,
                          pre     |-> IF shown THEN Pre ELSE 0]
  BY DEF formatMessage
<1> HIDE DEF message
<1>6. room \in Int
  BY <1>2, <1>3 DEF Pre
<1>7. CASE shown
  <2>1. room >= 0
    BY <1>1, <1>6, <1>7
  <2> HIDE DEF room
  <2>2. details \in Seq(Byte) /\ Whole(details) /\ Len(details) <= room /\ Len(details) \in Nat
    BY <1>1, <1>6, <2>1, TruncateResult, LenProperties
  <2>3. Characters(details) \in Nat /\ Characters(details) <= Len(details)
    BY <2>2, CharactersBound
  <2> HIDE DEF details
  <2>4. e.fixed + Pre + Characters(message) + Characters(details) <= Limit
    BY <1>1, <1>3, <1>4, <2>2, <2>3 DEF room, Pre
  <2>5. /\ formatMessage(e).message = message /\ formatMessage(e).details = details
        /\ formatMessage(e).pre = Pre
    BY <1>5, <1>7
  <2> QED
    BY <1>3, <2>2, <2>4, <2>5
<1>8. CASE ~shown
  <2>1. << >> \in Seq(Byte) /\ Len(<< >>) = 0 /\ Whole(<< >>)
    BY EmptySeq DEF Whole
  <2>2. Characters(<< >>) \in Nat /\ Characters(<< >>) <= 0
    BY <2>1, CharactersBound
  <2>3. /\ formatMessage(e).message = message /\ formatMessage(e).details = << >>
        /\ formatMessage(e).pre = 0
    BY <1>5, <1>8
  <2>4. e.fixed + 0 + Characters(message) + Characters(<< >>) <= Limit
    BY <1>1, <1>3, <1>4, <2>2
  <2> QED
    BY <1>3, <2>1, <2>3, <2>4
<1> QED
  BY <1>7, <1>8

\* The text is that of the alert, and a permanent error means it was refused.
TextInv ==
  /\ event \in Events
  /\ text = formatMessage(event)
  /\ result = "permanent" => ~ Accepts

(* Nothing changes the alert or its text while Send tries. *)
LEMMA TextInvariant == Spec => []TextInv
<1>1. Init => TextInv
  BY DEF Init, TextInv
<1>2. TextInv /\ [Next]_vars => TextInv'
  <2> SUFFICES ASSUME TextInv, [Next]_vars
               PROVE  TextInv'
    OBVIOUS
  <2> USE DEF TextInv, Accepts
  <2>1. CASE UNCHANGED vars
    BY <2>1 DEF vars
  <2>2. ASSUME NEW d \in Durations, Delivered(d)
        PROVE  TextInv'
    BY <2>2 DEF Delivered
  <2>3. ASSUME NEW d \in Durations, Rejected(d)
        PROVE  TextInv'
    BY <2>3 DEF Rejected
  <2>4. ASSUME NEW d \in Durations, NotReached(d) \/ AnswerLost(d)
        PROVE  TextInv'
    BY <2>4 DEF NotReached, AnswerLost, TryAgain, Attempting
  <2>5. ASSUME NEW d \in Durations, NEW ra \in RetryAfters, RateLimited(d, ra)
        PROVE  TextInv'
    BY <2>5 DEF RateLimited, TryAgain, Attempting
  <2>6. CASE GiveUp
    BY <2>6 DEF GiveUp
  <2> QED
    BY <2>1, <2>2, <2>3, <2>4, <2>5, <2>6 DEF Next
<1> QED
  BY <1>1, <1>2, PTL DEF Spec

(* Messages and details of any length are cut so that Telegram takes the      *)
(* alert, whatever symbol the cut falls into, and no more of the message is   *)
(* cut than must be (telegram.go, formatMessage and truncateEscaped).         *)
THEOREM TextTheorem == Spec => []TextAccepted
<1>1. TextInv => TextAccepted
  <2> SUFFICES ASSUME TextInv
               PROVE  TextAccepted
    OBVIOUS
  <2>1. event \in Events /\ text = formatMessage(event)
    BY DEF TextInv
  <2>2. /\ event.fixed \in Nat /\ event.message \in Seq(Symbols) /\ Limit \in Nat
    BY <2>1, TelegramAssumption
  <2>3. result = "permanent" => ~ chat \/ event.fixed > Limit
    <3> SUFFICES ASSUME result = "permanent", chat, ~(event.fixed > Limit)
                 PROVE  FALSE
      OBVIOUS
    <3>1. event.fixed <= Limit
      BY <2>2
    <3> QED
      BY <2>1, <3>1, FormatAccepted DEF TextInv, Accepts
  <2>4. text.message = truncateEscaped(EscapeString(event.message), Limit - event.fixed)
    BY <2>1 DEF formatMessage
  <2>5. text.message = ShownOf(event.message, Limit - event.fixed)
    BY <2>2, <2>4, TruncateResult
  <2> QED
    BY <2>3, <2>5 DEF TextAccepted
<1> QED
  BY <1>1, TextInvariant, PTL
-----------------------------------------------------------------------------
(***************************************************************************)
(* The call: its attempts and what it returns.                             *)
(***************************************************************************)

\* The seconds slept in the first n back-offs.
BackedOff(n) == 2 ^ n - 1

\* What is known of a call after so many attempts.
CallInv ==
  /\ attempt \in 0 .. maxRetries
  /\ taken \in 0 .. attempt /\ limited \in 0 .. attempt
  /\ elapsed \in Nat
  /\ result \in {"none", "nil", "permanent", "retries"}
  /\ result = "nil" => taken >= 1
  /\ taken >= 1 => Accepts
  /\ result = "permanent" => ~ Accepts
  /\ elapsed <= attempt * (Timeout + maxRetryAfter)
  /\ limited = 0 => elapsed <= attempt * Timeout + BackedOff(attempt)
-----------------------------------------------------------------------------
(* The back-off doubles with each attempt: one second, two, four. *)
LEMMA BackOffs ==
  ASSUME attempt \in 0 .. 2
  PROVE  /\ BackOff \in 1 .. 4
         /\ BackedOff(attempt) \in Nat
         /\ BackedOff(attempt + 1) = BackedOff(attempt) + BackOff
<1>1. /\ 2 ^ 0 = 1 /\ 2 ^ 1 = 2 /\ 2 ^ 2 = 4 /\ 2 ^ 3 = 8
  OBVIOUS
<1>2. CASE attempt = 0
  BY <1>1, <1>2 DEF BackOff, BackedOff
<1>3. CASE attempt = 1
  BY <1>1, <1>3 DEF BackOff, BackedOff
<1>4. CASE attempt = 2
  BY <1>1, <1>4 DEF BackOff, BackedOff
<1> QED
  BY <1>2, <1>3, <1>4

(* Send sleeps no longer than maxRetryAfter whatever retry_after says. *)
LEMMA WaitBounded ==
  ASSUME attempt \in 0 .. 2, NEW ra \in Nat
  PROVE  RetryWait(ra) \in 1 .. maxRetryAfter
BY BackOffs DEF RetryWait, maxRetryAfter

(* One more attempt that took d seconds and was slept after for wait seconds. *)
LEMMA Longer ==
  ASSUME CallInv, NEW d \in Durations, NEW wait \in 0 .. maxRetryAfter, Attempting,
         attempt' = attempt + 1, elapsed' = elapsed + d + wait
  PROVE  /\ attempt' \in 1 .. maxRetries
         /\ elapsed' \in Nat
         /\ elapsed' <= attempt' * (Timeout + maxRetryAfter)
         /\ limited = 0 /\ wait <= BackOff =>
              elapsed' <= attempt' * Timeout + BackedOff(attempt')
<1>1. attempt \in 0 .. 2 /\ d \in 0 .. Timeout /\ Timeout = 10 /\ maxRetryAfter = 30
  BY TelegramAssumption DEF CallInv, Attempting, maxRetries, Timeout, maxRetryAfter
<1>2. /\ BackOff \in 1 .. 4 /\ BackedOff(attempt) \in Nat
      /\ BackedOff(attempt + 1) = BackedOff(attempt) + BackOff
  BY <1>1, BackOffs
<1>3. /\ attempt' * (Timeout + maxRetryAfter) = attempt * (Timeout + maxRetryAfter) + 40
      /\ attempt' * Timeout = attempt * Timeout + 10
  BY <1>1
<1> QED
  BY <1>1, <1>2, <1>3 DEF CallInv, maxRetries

(* Before the first attempt nothing is taken and no time has passed. *)
LEMMA InitInv ==
  ASSUME Init
  PROVE  CallInv
<1>1. 2 ^ 0 = 1
  OBVIOUS
<1> QED
  BY <1>1 DEF Init, CallInv, BackedOff, maxRetries, Timeout, maxRetryAfter

(* Send answers for what Telegram did, attempt by attempt: it returns nil only
   on an answer 2xx, a permanent error only on a 400 or 413, and counts three. *)
LEMMA StepInv ==
  ASSUME CallInv, [Next]_vars
  PROVE  CallInv'
<1>1. ASSUME NEW d \in Durations, Delivered(d)
      PROVE  CallInv'
  <2>1. /\ attempt' \in 1 .. maxRetries /\ elapsed' \in Nat
        /\ elapsed' <= attempt' * (Timeout + maxRetryAfter)
        /\ limited = 0 => elapsed' <= attempt' * Timeout + BackedOff(attempt')
    <3>1. attempt \in 0 .. 2 /\ d \in Nat
      BY <1>1, TelegramAssumption DEF Delivered, Attempting, CallInv, maxRetries
    <3>2. elapsed' = elapsed + d + 0 /\ 0 \in 0 .. maxRetryAfter /\ 0 <= BackOff
      BY <1>1, <3>1, BackOffs DEF Delivered, CallInv, maxRetryAfter
    <3> QED
      BY <1>1, <3>2, Longer DEF Delivered
  <2>2. Accepts'
    BY <1>1 DEF Delivered, Accepts
  <2> QED
    BY <1>1, <2>1, <2>2 DEF Delivered, Attempting, CallInv, maxRetries
<1>2. ASSUME NEW d \in Durations, Rejected(d)
      PROVE  CallInv'
  <2>1. /\ attempt' \in 1 .. maxRetries /\ elapsed' \in Nat
        /\ elapsed' <= attempt' * (Timeout + maxRetryAfter)
        /\ limited = 0 => elapsed' <= attempt' * Timeout + BackedOff(attempt')
    <3>1. attempt \in 0 .. 2 /\ d \in Nat
      BY <1>2, TelegramAssumption DEF Rejected, Attempting, CallInv, maxRetries
    <3>2. elapsed' = elapsed + d + 0 /\ 0 \in 0 .. maxRetryAfter /\ 0 <= BackOff
      BY <1>2, <3>1, BackOffs DEF Rejected, CallInv, maxRetryAfter
    <3> QED
      BY <1>2, <3>2, Longer DEF Rejected
  <2>2. Accepts' = Accepts
    BY <1>2 DEF Rejected, Accepts
  <2> QED
    BY <1>2, <2>1, <2>2 DEF Rejected, Attempting, CallInv, maxRetries
<1>3. ASSUME NEW d \in Durations, NotReached(d) \/ AnswerLost(d)
      PROVE  CallInv'
  <2>1. /\ attempt' \in 1 .. maxRetries /\ elapsed' \in Nat
        /\ elapsed' <= attempt' * (Timeout + maxRetryAfter)
        /\ limited = 0 => elapsed' <= attempt' * Timeout + BackedOff(attempt')
    <3>1. attempt \in 0 .. 2
      BY <1>3 DEF NotReached, AnswerLost, TryAgain, Attempting, CallInv, maxRetries
    <3>2. BackOff \in 0 .. maxRetryAfter
      BY <3>1, BackOffs DEF maxRetryAfter
    <3> QED
      BY <1>3, <3>2, Longer DEF NotReached, AnswerLost, TryAgain
  <2>2. Accepts' = Accepts
    BY <1>3 DEF NotReached, AnswerLost, TryAgain, Accepts
  <2> QED
    BY <1>3, <2>1, <2>2
    DEF NotReached, AnswerLost, TryAgain, Attempting, CallInv, maxRetries
<1>4. ASSUME NEW d \in Durations, NEW ra \in RetryAfters, RateLimited(d, ra)
      PROVE  CallInv'
  <2>1. /\ attempt' \in 1 .. maxRetries /\ elapsed' \in Nat
        /\ elapsed' <= attempt' * (Timeout + maxRetryAfter)
    <3>1. attempt \in 0 .. 2 /\ ra \in Nat
      BY <1>4, TelegramAssumption DEF RateLimited, TryAgain, Attempting, CallInv, maxRetries
    <3>2. RetryWait(ra) \in 0 .. maxRetryAfter
      BY <3>1, WaitBounded DEF maxRetryAfter
    <3> QED
      BY <1>4, <3>2, Longer DEF RateLimited, TryAgain
  <2>2. Accepts' = Accepts
    BY <1>4 DEF RateLimited, TryAgain, Accepts
  <2> QED
    BY <1>4, <2>1, <2>2 DEF RateLimited, TryAgain, Attempting, CallInv, maxRetries
<1>5. ASSUME GiveUp \/ UNCHANGED vars
      PROVE  CallInv'
  <2>1. UNCHANGED <<event, chat, text, attempt, elapsed, taken, limited>>
    BY <1>5 DEF GiveUp, vars
  <2>2. result' \in {result, "retries"}
    BY <1>5 DEF GiveUp, vars
  <2>3. Accepts' = Accepts /\ BackedOff(attempt') = BackedOff(attempt)
    BY <2>1 DEF Accepts
  <2> QED
    BY <2>1, <2>2, <2>3 DEF CallInv
<1> QED
  BY <1>1, <1>2, <1>3, <1>4, <1>5 DEF Next

(* nil means that Telegram has the alert, a permanent error that it has not,  *)
(* so that the queue may forget it; and the call that holds sendMu ends       *)
(* within two minutes, 37 seconds without a 429 (telegram.go, Send).          *)
THEOREM ResultTheorem ==
  Spec => []ResultHonest
<1>1. CallInv => ResultHonest
  <2>1. 2 ^ 0 = 1 /\ 2 ^ 1 = 2 /\ 2 ^ 2 = 4 /\ 2 ^ 3 = 8
    OBVIOUS
  <2>2. CallInv => /\ taken <= maxRetries
                   /\ elapsed <= maxRetries * (Timeout + maxRetryAfter)
                   /\ limited = 0 => elapsed <= maxRetries * Timeout + 7
    <3> SUFFICES ASSUME CallInv
                 PROVE  /\ taken <= maxRetries
                        /\ elapsed <= maxRetries * (Timeout + maxRetryAfter)
                        /\ limited = 0 => elapsed <= maxRetries * Timeout + 7
      OBVIOUS
    <3> USE DEF maxRetries, Timeout, maxRetryAfter
    <3>1. /\ taken \in 0 .. attempt /\ elapsed \in Nat
          /\ elapsed <= attempt * 40
          /\ limited = 0 => elapsed <= attempt * 10 + BackedOff(attempt)
      BY DEF CallInv
    <3>2. CASE attempt = 0
      BY <2>1, <3>1, <3>2 DEF BackedOff
    <3>3. CASE attempt = 1
      BY <2>1, <3>1, <3>3 DEF BackedOff
    <3>4. CASE attempt = 2
      BY <2>1, <3>1, <3>4 DEF BackedOff
    <3>5. CASE attempt = 3
      BY <2>1, <3>1, <3>5 DEF BackedOff
    <3> QED
      BY <3>2, <3>3, <3>4, <3>5 DEF CallInv
  <2>3. CallInv => /\ Outcome = "ok" => taken >= 1
                   /\ Outcome = "permanent" => taken = 0
    BY DEF CallInv, Outcome
  <2> QED
    BY <2>2, <2>3 DEF ResultHonest
<1>2. CallInv /\ [Next]_vars => CallInv'
  BY StepInv
<1> QED
  BY <1>1, <1>2, InitInv, PTL DEF Spec
=============================================================================
