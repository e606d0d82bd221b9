--------------------------- MODULE SequenceLemmas ---------------------------
(***************************************************************************)
(* Lemmas about sequences and numbers that the proofs of several modules   *)
(* share: the concatenation of a sequence of sequences, and numbers as     *)
(* sequences of digits.  What a recursive function gives is shown by way   *)
(* of the least argument at which it would fail: the naturals are          *)
(* well-founded.                                                           *)
(***************************************************************************)
EXTENDS Integers, SequencesExt, Numerals, TLAPS, SequenceTheorems, WellFoundedInduction

(* A non-empty set of naturals has a least element.                        *)
LEMMA LeastNat ==
  ASSUME NEW T \in SUBSET Nat, T # {}
  PROVE  \E x \in T : \A y \in T : x <= y
<1> DEFINE R == OpToRel(<, Nat)
<1>1. \E x \in T : \A y \in T : ~(<<y, x>> \in R)
  <2> HIDE DEF R
  <2>1. IsWellFoundedOn(R, Nat)
    BY NatLessThanWellFounded DEF R
  <2> QED
    BY <2>1, WFMin
<1>2. \A x, y \in Nat : x < y => <<x, y>> \in R
  BY DEF OpToRel
<1>3. PICK x \in T : \A y \in T : ~(<<y, x>> \in R)
  BY <1>1
<1>4. \A y \in T : ~(y < x)
  BY <1>2, <1>3
<1> QED
  BY <1>4

(* Induction, on the set of the numbers for which something holds.         *)
LEMMA InductionTo ==
  ASSUME NEW N \in Nat, NEW P,
         0 \in P, \A n \in 0..(N - 1) : n \in P => n + 1 \in P
  PROVE  \A n \in 0..N : n \in P
<1> SUFFICES ASSUME NEW n \in 0..N, n \notin P PROVE FALSE
  OBVIOUS
<1> DEFINE T == {m \in 0..N : m \notin P}
<1>1. T \in SUBSET Nat /\ T # {}
  OBVIOUS
<1>2. PICK m \in T : \A y \in T : m <= y
  <2> HIDE DEF T
  <2> QED
    BY <1>1, LeastNat
<1>3. m # 0 /\ m \in 0..N
  BY <1>2
<1>4. m - 1 \in 0..(N - 1) /\ m - 1 \notin T
  BY <1>2, <1>3
<1>5. m - 1 \in P
  BY <1>4
<1>6. (m - 1) + 1 \in P
  BY <1>4, <1>5
<1> QED
  BY <1>2, <1>3, <1>6

-----------------------------------------------------------------------------
(* FlattenSeq.  Its recursive function, for the sequence of sequences s.   *)
Join(a, b) == a \o b
Joins(f, s) == f = [i \in 1..Len(s) |-> IF i = 1 THEN s[i] ELSE Join(f[i - 1], s[i])]

(* The start of such a function, up to n.                                  *)
JoinsTo(f, s, n) == f = [i \in 1..n |-> IF i = 1 THEN s[i] ELSE Join(f[i - 1], s[i])]

LEMMA JoinsExtend ==
  ASSUME NEW s, NEW n \in Nat, NEW f, JoinsTo(f, s, n)
  PROVE  \E g : JoinsTo(g, s, n + 1)
<1> DEFINE g == [i \in 1..(n + 1) |-> IF i <= n THEN f[i]
                                      ELSE IF i = 1 THEN s[i] ELSE Join(f[i - 1], s[i])]
           h == [i \in 1..(n + 1) |-> IF i = 1 THEN s[i] ELSE Join(g[i - 1], s[i])]
<1>1. \A i \in 1..n : f[i] = IF i = 1 THEN s[i] ELSE Join(f[i - 1], s[i])
  BY DEF JoinsTo
<1>2. ASSUME NEW i \in 1..(n + 1) PROVE g[i] = h[i]
  <2>1. CASE i = 1
    BY <2>1, <1>1
  <2>2. CASE i # 1
    <3>1. i - 1 \in 1..n /\ g[i - 1] = f[i - 1]
      BY <2>2
    <3>2. h[i] = Join(f[i - 1], s[i])
      BY <2>2, <3>1
    <3>3. g[i] = Join(f[i - 1], s[i])
      <4>1. CASE i <= n
        <5>1. g[i] = f[i] /\ i \in 1..n
          BY <4>1
        <5> QED
          BY <5>1, <1>1, <2>2
      <4>2. CASE ~(i <= n)
        BY <4>2, <2>2
      <4> QED
        BY <4>1, <4>2
    <3> QED
      BY <3>2, <3>3
  <2> QED
    BY <2>1, <2>2
<1>3. g = h
  BY <1>2
<1> QED
  BY <1>3 DEF JoinsTo

LEMMA JoinsExists ==
  ASSUME NEW s, Len(s) \in Nat
  PROVE  \E f : Joins(f, s)
<1> DEFINE P == {n \in Nat : \E f : JoinsTo(f, s, n)}
<1>1. 0 \in P
  <2>1. JoinsTo([i \in 1..0 |-> 0], s, 0)
    BY DEF JoinsTo
  <2> QED
    BY <2>1
<1>2. \A n \in 0..(Len(s) - 1) : n \in P => n + 1 \in P
  BY JoinsExtend
<1>3. \A n \in 0..Len(s) : n \in P
  <2> HIDE DEF P
  <2> QED
    BY <1>1, <1>2, InductionTo
<1>4. Len(s) \in P
  BY <1>3
<1> QED
  BY <1>4 DEF Joins, JoinsTo

LEMMA FlattenJoins ==
  ASSUME NEW s, Len(s) \in Nat, Len(s) # 0
  PROVE  \E f : Joins(f, s) /\ FlattenSeq(s) = f[Len(s)]
<1> DEFINE c == CHOOSE f : Joins(f, s)
<1>1. Joins(c, s)
  BY JoinsExists
<1>2. FlattenSeq(s) = c[Len(s)]
  BY DEF FlattenSeq, Joins, Join
<1> QED
  BY <1>1, <1>2

LEMMA JoinsType ==
  ASSUME NEW S, NEW s \in Seq(Seq(S)), NEW f, Joins(f, s)
  PROVE  \A i \in 1..Len(s) : f[i] \in Seq(S)
<1> DEFINE P == {n \in Nat : \A i \in 1..n : f[i] \in Seq(S)}
<1>1. \A i \in 1..Len(s) : f[i] = IF i = 1 THEN s[i] ELSE Join(f[i - 1], s[i])
  BY DEF Joins
<1>2. Len(s) \in Nat /\ \A i \in 1..Len(s) : s[i] \in Seq(S)
  OBVIOUS
<1>3. 0 \in P
  OBVIOUS
<1>4. ASSUME NEW n \in 0..(Len(s) - 1), n \in P PROVE n + 1 \in P
  <2>1. n \in Nat /\ n + 1 \in 1..Len(s) /\ \A i \in 1..n : f[i] \in Seq(S)
    BY <1>2, <1>4
  <2>2. f[n + 1] \in Seq(S)
    <3>1. CASE n = 0
      BY <3>1, <2>1, <1>1, <1>2
    <3>2. CASE n # 0
      <4>1. f[n + 1] = Join(f[n], s[n + 1])
        BY <3>2, <2>1, <1>1
      <4>2. f[n] \in Seq(S) /\ s[n + 1] \in Seq(S)
        BY <3>2, <2>1, <1>2
      <4> HIDE DEF P
      <4> QED
        BY <4>1, <4>2, ConcatProperties DEF Join
    <3> QED
      BY <3>1, <3>2
  <2>3. \A i \in 1..(n + 1) : i \in 1..n \/ i = n + 1
    BY <2>1
  <2> QED
    BY <2>1, <2>2, <2>3
<1>5. \A n \in 0..Len(s) : n \in P
  <2> HIDE DEF P
  <2> QED
    BY <1>2, <1>3, <1>4, InductionTo
<1>6. Len(s) \in P
  BY <1>5, <1>2
<1> QED
  BY <1>6

LEMMA JoinsAgree ==
  ASSUME NEW s, NEW t, NEW f, NEW g, Joins(f, s), Joins(g, t),
         Len(s) \in Nat, Len(t) \in Nat, Len(s) <= Len(t),
         \A i \in 1..Len(s) : s[i] = t[i]
  PROVE  \A i \in 1..Len(s) : f[i] = g[i]
<1> DEFINE m == Len(s)
<1> DEFINE P == {n \in Nat : \A i \in 1..n : f[i] = g[i]}
<1>0. 1..m \subseteq 1..Len(s) /\ 1..m \subseteq 1..Len(t)
  OBVIOUS
<1>1. \A i \in 1..m : f[i] = IF i = 1 THEN s[i] ELSE Join(f[i - 1], s[i])
  BY <1>0 DEF Joins
<1>2. \A i \in 1..m : g[i] = IF i = 1 THEN t[i] ELSE Join(g[i - 1], t[i])
  BY <1>0 DEF Joins
<1>3. 0 \in P
  OBVIOUS
<1>4. ASSUME NEW n \in 0..(m - 1), n \in P PROVE n + 1 \in P
  <2>1. n \in Nat /\ n + 1 \in 1..m /\ \A i \in 1..n : f[i] = g[i]
    BY <1>4
  <2>2. f[n + 1] = g[n + 1]
    <3>0. s[n + 1] = t[n + 1]
      BY <2>1
    <3>1. CASE n = 0
      BY <3>0, <3>1, <2>1, <1>1, <1>2
    <3>2. CASE n # 0
      <4>1. f[n + 1] = Join(f[n], s[n + 1]) /\ g[n + 1] = Join(g[n], t[n + 1])
        BY <3>2, <2>1, <1>1, <1>2
      <4>2. f[n] = g[n]
        BY <3>2, <2>1
      <4> QED
        BY <4>1, <4>2, <3>0
    <3> QED
      BY <3>1, <3>2
  <2>3. \A i \in 1..(n + 1) : i \in 1..n \/ i = n + 1
    BY <2>1
  <2> QED
    BY <2>1, <2>2, <2>3
<1>5. \A n \in 0..m : n \in P
  <2> HIDE DEF P
  <2> QED
    BY <1>3, <1>4, InductionTo
<1>6. m \in P
  BY <1>5
<1> QED
  BY <1>6

(* What FlattenSeq gives, for a sequence of sequences over S.              *)
LEMMA FlattenEmpty == FlattenSeq(<<>>) = <<>>
BY DEF FlattenSeq

LEMMA FlattenType ==
  ASSUME NEW S, NEW s \in Seq(Seq(S))
  PROVE  FlattenSeq(s) \in Seq(S)
<1>0. Len(s) \in Nat
  OBVIOUS
<1>1. CASE Len(s) = 0
  <2>1. s = <<>>
    BY <1>1, EmptySeq
  <2> QED
    BY <2>1, FlattenEmpty, EmptySeq
<1>2. CASE Len(s) # 0
  <2>1. PICK f : Joins(f, s) /\ FlattenSeq(s) = f[Len(s)]
    BY <1>0, <1>2, FlattenJoins
  <2>2. f[Len(s)] \in Seq(S)
    <3>1. \A i \in 1..Len(s) : f[i] \in Seq(S)
      BY <2>1, JoinsType
    <3> QED
      BY <3>1, <1>0, <1>2
  <2> QED
    BY <2>1, <2>2
<1> QED
  BY <1>1, <1>2

LEMMA FlattenAppend ==
  ASSUME NEW S, NEW s \in Seq(Seq(S)), NEW x \in Seq(S)
  PROVE  FlattenSeq(Append(s, x)) = FlattenSeq(s) \o x
<1> DEFINE t == Append(s, x)
<1>1. t \in Seq(Seq(S)) /\ Len(s) \in Nat /\ Len(t) = Len(s) + 1
      /\ t[Len(s) + 1] = x /\ \A i \in 1..Len(s) : t[i] = s[i]
  BY AppendProperties
<1> HIDE DEF t
<1>2. PICK g : Joins(g, t) /\ FlattenSeq(t) = g[Len(t)]
  BY <1>1, FlattenJoins, SMTT(30)
<1>3. g[Len(t)] = IF Len(t) = 1 THEN t[Len(t)] ELSE Join(g[Len(t) - 1], t[Len(t)])
  <2>1. Len(t) \in 1..Len(t)
    BY <1>1
  <2> QED
    BY <2>1, <1>2 DEF Joins
<1>4. CASE Len(s) = 0
  <2>1. s = <<>>
    BY <1>4, EmptySeq
  <2>2. FlattenSeq(s) = <<>>
    BY <2>1, FlattenEmpty
  <2>3. FlattenSeq(t) = x
    BY <1>1, <1>2, <1>3, <1>4
  <2> QED
    BY <2>2, <2>3, ConcatEmptySeq DEF t
<1>5. CASE Len(s) # 0
  <2>1. PICK f : Joins(f, s) /\ FlattenSeq(s) = f[Len(s)]
    BY <1>1, <1>5, FlattenJoins
  <2>2. Len(s) \in 1..Len(s) /\ Len(s) <= Len(t) /\ Len(t) \in Nat /\ Len(t) - 1 = Len(s)
    BY <1>1, <1>5
  <2>3. \A i \in 1..Len(s) : f[i] = g[i]
    <3>1. \A i \in 1..Len(s) : s[i] = t[i]
      BY <1>1
    <3>2. Joins(f, s) /\ Joins(g, t) /\ Len(s) \in Nat /\ Len(t) \in Nat /\ Len(s) <= Len(t)
      BY <1>1, <1>2, <2>1, <2>2
    <3> QED
      BY <3>1, <3>2, JoinsAgree, SMTT(30)
  <2>4. g[Len(s)] = f[Len(s)]
    BY <2>2, <2>3
  <2>5. g[Len(t)] = Join(g[Len(s)], x)
    BY <1>1, <1>3, <1>5, <2>2
  <2> QED
    BY <1>2, <2>1, <2>4, <2>5 DEF t, Join
<1> QED
  BY <1>1, <1>4, <1>5

(* The first n + 1 elements of a sequence.                                 *)
LEMMA NextPrefix ==
  ASSUME NEW S, NEW s \in Seq(S), NEW n \in 0..(Len(s) - 1)
  PROVE  /\ SubSeq(s, 1, n) \in Seq(S) /\ s[n + 1] \in S
         /\ SubSeq(s, 1, n + 1) = Append(SubSeq(s, 1, n), s[n + 1])
<1>1. Len(s) \in Nat /\ n \in Nat /\ n + 1 \in 1..Len(s) /\ 1 \in 1..Len(s)
      /\ \A i \in 1..n : s[i] \in S
  OBVIOUS
<1>2. SubSeq(s, 1, n) \in Seq(S) /\ s[n + 1] \in S
  BY <1>1, SubSeqProperties, ElementOfSeq
<1>3. SubSeq(s, 1, n + 1) = SubSeq(s, 1, (n + 1) - 1) \o <<s[n + 1]>>
  <2>1. n + 1 \in 1..Len(s)
    BY <1>1
  <2> QED
    BY <1>1, <2>1, SubSeqRecursiveSecond
<1>4. (n + 1) - 1 = n
  BY <1>1
<1>5. Append(SubSeq(s, 1, n), s[n + 1]) = SubSeq(s, 1, n) \o <<s[n + 1]>>
  BY <1>2, AppendIsConcat
<1> QED
  BY <1>2, <1>3, <1>4, <1>5

LEMMA FlattenNext ==
  ASSUME NEW S, NEW s \in Seq(Seq(S)), NEW n \in 0..(Len(s) - 1)
  PROVE  FlattenSeq(SubSeq(s, 1, n + 1)) = FlattenSeq(SubSeq(s, 1, n)) \o s[n + 1]
<1>1. /\ SubSeq(s, 1, n) \in Seq(Seq(S)) /\ s[n + 1] \in Seq(S)
      /\ SubSeq(s, 1, n + 1) = Append(SubSeq(s, 1, n), s[n + 1])
  BY NextPrefix
<1>2. FlattenSeq(Append(SubSeq(s, 1, n), s[n + 1])) = FlattenSeq(SubSeq(s, 1, n)) \o s[n + 1]
  BY <1>1, FlattenAppend
<1> QED
  BY <1>1, <1>2

LEMMA ConcatAppend ==
  ASSUME NEW S, NEW s \in Seq(S), NEW t \in Seq(S), NEW e \in S
  PROVE  s \o Append(t, e) = Append(s \o t, e)
<1>1. <<e>> \in Seq(S) /\ s \o t \in Seq(S)
  BY ConcatProperties
<1>2. Append(t, e) = t \o <<e>> /\ Append(s \o t, e) = (s \o t) \o <<e>>
  BY <1>1, AppendIsConcat
<1>3. (s \o t) \o <<e>> = s \o (t \o <<e>>)
  BY <1>1, ConcatAssociative
<1> QED
  BY <1>2, <1>3

LEMMA FlattenConcat ==
  ASSUME NEW S, NEW s \in Seq(Seq(S)), NEW t \in Seq(Seq(S))
  PROVE  FlattenSeq(s \o t) = FlattenSeq(s) \o FlattenSeq(t)
<1> DEFINE u(n) == SubSeq(t, 1, n)
           P == {n \in Nat : FlattenSeq(s \o u(n)) = FlattenSeq(s) \o FlattenSeq(u(n))}
<1>1. Len(t) \in Nat /\ FlattenSeq(s) \in Seq(S)
  BY FlattenType
<1>2. 0 \in P
  <2>1. u(0) = <<>>
    BY SubSeqEmpty
  <2>2. s \o <<>> = s /\ FlattenSeq(s) \o <<>> = FlattenSeq(s)
    BY <1>1, ConcatEmptySeq
  <2> HIDE DEF u
  <2> QED
    BY <2>1, <2>2, FlattenEmpty
<1>3. ASSUME NEW n \in 0..(Len(t) - 1), n \in P PROVE n + 1 \in P
  <2>1. u(n) \in Seq(Seq(S)) /\ t[n + 1] \in Seq(S) /\ u(n + 1) = Append(u(n), t[n + 1])
    BY NextPrefix
  <2>2. FlattenSeq(s \o u(n)) = FlattenSeq(s) \o FlattenSeq(u(n)) /\ n + 1 \in Nat
    BY <1>3
  <2> DEFINE x == t[n + 1] v == u(n) w == u(n + 1)
  <2>3. v \in Seq(Seq(S)) /\ x \in Seq(S) /\ w = Append(v, x)
        /\ FlattenSeq(s \o v) = FlattenSeq(s) \o FlattenSeq(v)
    BY <2>1, <2>2
  <2> HIDE DEF x, v, w
  <2>4. s \o w = Append(s \o v, x) /\ s \o v \in Seq(Seq(S)) /\ FlattenSeq(v) \in Seq(S)
    <3>1. s \o Append(v, x) = Append(s \o v, x)
      <4>1. \A p, q \in Seq(Seq(S)), r \in Seq(S) : p \o Append(q, r) = Append(p \o q, r)
        BY ConcatAppend, SMTT(30)
      <4> QED
        BY <4>1, <2>3, Zenon
    <3>2. s \o v \in Seq(Seq(S))
      BY <2>3
    <3>3. FlattenSeq(v) \in Seq(S)
      BY <2>3, FlattenType
    <3> QED
      BY <2>3, <3>1, <3>2, <3>3
  <2>5. FlattenSeq(s \o w) = FlattenSeq(s \o v) \o x
    BY <2>3, <2>4, FlattenAppend
  <2>6. FlattenSeq(w) = FlattenSeq(v) \o x
    BY <2>3, FlattenAppend
  <2>7. (FlattenSeq(s) \o FlattenSeq(v)) \o x = FlattenSeq(s) \o (FlattenSeq(v) \o x)
    <3>1. \A p, q, r \in Seq(S) : (p \o q) \o r = p \o (q \o r)
      BY ConcatAssociative, SMTT(30)
    <3> QED
      BY <3>1, <1>1, <2>3, <2>4, Zenon
  <2>8. FlattenSeq(s \o w) = FlattenSeq(s) \o FlattenSeq(w)
    BY <2>3, <2>5, <2>6, <2>7
  <2> QED
    BY <2>2, <2>8 DEF w
<1>4. \A n \in 0..Len(t) : n \in P
  <2> HIDE DEF P
  <2> QED
    BY <1>1, <1>2, <1>3, InductionTo
<1>5. Len(t) \in P
  <2> HIDE DEF P
  <2> QED
    BY <1>1, <1>4
<1>6. u(Len(t)) = t
  BY SubSeqFull
<1> QED
  BY <1>5, <1>6

(* A sequence is its first n elements and the others.                      *)
LEMMA SplitAt ==
  ASSUME NEW S, NEW s \in Seq(S), NEW n \in 0..Len(s)
  PROVE  /\ s = SubSeq(s, 1, n) \o SubSeq(s, n + 1, Len(s))
         /\ SubSeq(s, 1, n) \in Seq(S) /\ SubSeq(s, n + 1, Len(s)) \in Seq(S)
         /\ Len(SubSeq(s, 1, n)) = n /\ Len(SubSeq(s, n + 1, Len(s))) = Len(s) - n
         /\ \A i \in 1..n : SubSeq(s, 1, n)[i] = s[i]
         /\ \A i \in 1..(Len(s) - n) : SubSeq(s, n + 1, Len(s))[i] = s[n + i]
<1>1. Len(s) \in Nat /\ n \in Int /\ n + 1 \in Int /\ Len(s) \in Int
      /\ \A i \in 1..n : s[i] \in S
  OBVIOUS
<1>2. \A i \in (n + 1)..Len(s) : s[i] \in S
  OBVIOUS
<1>3. /\ SubSeq(s, 1, n) \in Seq(S) /\ Len(SubSeq(s, 1, n)) = n
      /\ \A i \in 1..n : SubSeq(s, 1, n)[i] = s[i]
  BY <1>1, SubSeqProperties
<1>4. /\ SubSeq(s, n + 1, Len(s)) \in Seq(S) /\ Len(SubSeq(s, n + 1, Len(s))) = Len(s) - n
      /\ \A i \in 1..(Len(s) - n) : SubSeq(s, n + 1, Len(s))[i] = s[n + i]
  BY <1>1, <1>2, SubSeqProperties
<1>5. SubSeq(s, 1, n) \o SubSeq(s, n + 1, Len(s)) = SubSeq(s, 1, Len(s))
  <2>1. 1 \in 1..(Len(s) + 1) /\ n \in (1 - 1)..Len(s) /\ Len(s) \in n..Len(s)
    BY <1>1
  <2> QED
    BY <2>1, ConcatAdjacentSubSeq
<1>6. SubSeq(s, 1, Len(s)) = s
  BY SubSeqFull
<1> QED
  BY <1>3, <1>4, <1>5, <1>6

LEMMA FlattenSplit ==
  ASSUME NEW S, NEW s \in Seq(Seq(S)), NEW n \in 0..Len(s)
  PROVE  /\ FlattenSeq(s) = FlattenSeq(SubSeq(s, 1, n)) \o FlattenSeq(SubSeq(s, n + 1, Len(s)))
         /\ FlattenSeq(SubSeq(s, 1, n)) \in Seq(S)
         /\ FlattenSeq(SubSeq(s, n + 1, Len(s))) \in Seq(S)
<1>1. /\ s = SubSeq(s, 1, n) \o SubSeq(s, n + 1, Len(s))
      /\ SubSeq(s, 1, n) \in Seq(Seq(S)) /\ SubSeq(s, n + 1, Len(s)) \in Seq(Seq(S))
  BY SplitAt
<1> QED
  BY <1>1, FlattenConcat, FlattenType

(* The n elements of a sequence behind the first i.                        *)
LEMMA PartOf ==
  ASSUME NEW S, NEW s \in Seq(S), NEW i \in Nat, NEW n \in Nat, i + n <= Len(s)
  PROVE  /\ SubSeq(s, i + 1, i + n) \in Seq(S)
         /\ Len(SubSeq(s, i + 1, i + n)) = n
         /\ \A j \in 1..n : SubSeq(s, i + 1, i + n)[j] = s[i + j]
<1> DEFINE p == i + 1 q == i + n
<1>1. /\ p \in Int /\ q \in Int /\ \A j \in p..q : s[j] \in S
      /\ (q - p) + 1 = n /\ (IF p <= q THEN (q - p) + 1 ELSE 0) = n
      /\ \A j \in 1..n : (p + j) - 1 = i + j
  OBVIOUS
<1> HIDE DEF p, q
<1>2. /\ SubSeq(s, p, q) \in Seq(S)
      /\ Len(SubSeq(s, p, q)) = IF p <= q THEN (q - p) + 1 ELSE 0
      /\ \A j \in 1..((q - p) + 1) : SubSeq(s, p, q)[j] = s[(p + j) - 1]
  BY <1>1, SubSeqProperties
<1>3. /\ SubSeq(s, p, q) \in Seq(S)
      /\ Len(SubSeq(s, p, q)) = n
      /\ \A j \in 1..n : SubSeq(s, p, q)[j] = s[i + j]
  BY <1>1, <1>2
<1> QED
  BY <1>3 DEF p, q

(* A sequence whose elements are those of s behind the first i.            *)
LEMMA IsPart ==
  ASSUME NEW S, NEW s \in Seq(S), NEW t \in Seq(S), NEW i \in Nat,
         i + Len(t) <= Len(s), \A j \in 1..Len(t) : t[j] = s[i + j]
  PROVE  t = SubSeq(s, i + 1, i + Len(t))
<1>1. Len(t) \in Nat
  OBVIOUS
<1> DEFINE u == SubSeq(s, i + 1, i + Len(t))
<1>2. u \in Seq(S) /\ Len(u) = Len(t) /\ \A j \in 1..Len(t) : u[j] = s[i + j]
  BY <1>1, PartOf
<1> HIDE DEF u
<1>3. \A j \in 1..Len(t) : t[j] = u[j]
  BY <1>2
<1>4. t = u
  BY <1>2, <1>3, SeqEqual
<1> QED
  BY <1>4 DEF u

-----------------------------------------------------------------------------
(* Division, and numbers written in a base.                                *)

LEMMA MulMono ==
  ASSUME NEW a \in Nat, NEW b \in Nat, NEW c \in Nat, a <= b
  PROVE  a * c <= b * c /\ c * a <= c * b
<1>1. PICK d \in Nat : b = a + d
  <2>1. b - a \in Nat /\ b = a + (b - a)
    OBVIOUS
  <2> QED
    BY <2>1
<1>2. b * c = a * c + d * c /\ d * c \in Nat /\ a * c \in Nat
  BY <1>1
<1>3. c * a = a * c /\ c * b = b * c
  OBVIOUS
<1> QED
  BY <1>2, <1>3

LEMMA DivIs ==
  ASSUME NEW v \in Nat, NEW m \in Nat, m > 0
  PROVE  /\ v \div m \in Nat /\ v % m \in 0..(m - 1)
         /\ v = m * (v \div m) + (v % m)
         /\ m * (v \div m) <= v /\ v < m * (v \div m) + m
OBVIOUS

LEMMA DivUnique ==
  ASSUME NEW v \in Nat, NEW m \in Nat, m > 0, NEW q \in Nat,
         m * q <= v, v < m * q + m
  PROVE  v \div m = q
<1> DEFINE d == v \div m
<1>1. d \in Nat /\ m * d <= v /\ v < m * d + m
  BY DivIs
<1> HIDE DEF d
<1>2. ASSUME d < q PROVE FALSE
  <2>1. m * (d + 1) <= m * q
    BY <1>1, <1>2, MulMono
  <2>2. m * (d + 1) = m * d + m
    BY <1>1
  <2>3. m * d \in Nat /\ m * q \in Nat
    BY <1>1
  <2> QED
    BY <1>1, <2>1, <2>2, <2>3
<1>3. ASSUME q < d PROVE FALSE
  <2>1. m * (q + 1) <= m * d
    BY <1>1, <1>3, MulMono
  <2>2. m * (q + 1) = m * q + m
    OBVIOUS
  <2>3. m * d \in Nat /\ m * q \in Nat
    BY <1>1
  <2> QED
    BY <1>1, <2>1, <2>2, <2>3
<1> QED
  BY <1>1, <1>2, <1>3 DEF d

LEMMA DivDiv ==
  ASSUME NEW v \in Nat, NEW p \in Nat, p > 0, NEW b \in Nat, b > 0
  PROVE  v \div (b * p) = (v \div p) \div b
<1> DEFINE x == v \div p
           y == x \div b
<1>1. x \in Nat /\ p * x <= v /\ v < p * x + p
  BY DivIs
<1>2. y \in Nat /\ b * y <= x /\ x < b * y + b
  BY <1>1, DivIs
<1> HIDE DEF x, y
<1>3. b * p \in Nat /\ b * p > 0
  <2>1. 1 * p <= b * p
    BY MulMono
  <2> QED
    BY <2>1
<1>4. (b * p) * y <= v
  <2>1. p * (b * y) <= p * x /\ b * y \in Nat /\ p * x \in Nat /\ p * (b * y) \in Nat
    BY <1>1, <1>2, MulMono
  <2>2. (b * p) * y = p * (b * y)
    BY <1>2
  <2> QED
    BY <1>1, <2>1, <2>2
<1>5. v < (b * p) * y + b * p
  <2>1. x + 1 \in Nat /\ b * y + b \in Nat /\ x + 1 <= b * y + b
    BY <1>1, <1>2
  <2>2. p * (x + 1) <= p * (b * y + b)
    BY <2>1, MulMono
  <2>3. p * (x + 1) = p * x + p /\ p * (b * y + b) = (b * p) * y + b * p
    BY <1>1, <1>2
  <2>4. p * x \in Nat /\ (b * p) * y \in Nat
    BY <1>1, <1>2
  <2> QED
    BY <1>1, <1>3, <2>2, <2>3, <2>4
<1>6. v \div (b * p) = y
  BY <1>2, <1>3, <1>4, <1>5, DivUnique
<1> QED
  BY <1>6 DEF x, y
LEMMA ModUnique ==
  ASSUME NEW v \in Nat, NEW m \in Nat, m > 0, NEW q \in Nat, NEW r \in 0..(m - 1), v = m * q + r
  PROVE  v % m = r
<1>1. m * q \in Nat /\ m * q <= v /\ v < m * q + m
  OBVIOUS
<1>2. v \div m = q
  BY <1>1, DivUnique
<1>3. v % m = v - m * (v \div m)
  OBVIOUS
<1> QED
  BY <1>1, <1>2, <1>3

(* The recursive function of Power.                                        *)
Powers(f, b, n) == f = [i \in 0..n |-> IF i = 0 THEN 1 ELSE b * f[i - 1]]

LEMMA PowersExist ==
  ASSUME NEW b, NEW n \in Nat
  PROVE  \E f : Powers(f, b, n)
<1> DEFINE P == {k \in Nat : \E f : Powers(f, b, k)}
<1>1. 0 \in P
  <2> DEFINE f == [i \in 0..0 |-> 1]
  <2>1. f = [i \in 0..0 |-> IF i = 0 THEN 1 ELSE b * f[i - 1]]
    OBVIOUS
  <2>2. Powers(f, b, 0)
    BY <2>1 DEF Powers
  <2> QED
    BY <2>2
<1>2. ASSUME NEW k \in 0..(n - 1), k \in P PROVE k + 1 \in P
  <2>1. PICK f : Powers(f, b, k)
    BY <1>2
  <2> DEFINE g == [i \in 0..(k + 1) |-> IF i <= k THEN f[i] ELSE b * f[k]]
             h == [i \in 0..(k + 1) |-> IF i = 0 THEN 1 ELSE b * g[i - 1]]
  <2>2. \A i \in 0..k : f[i] = IF i = 0 THEN 1 ELSE b * f[i - 1]
    BY <2>1 DEF Powers
  <2>3. ASSUME NEW i \in 0..(k + 1) PROVE g[i] = h[i]
    <3>1. CASE i = 0
      BY <3>1, <2>2
    <3>2. CASE i # 0 /\ i <= k
      <4>1. i \in 0..k /\ i - 1 \in 0..(k + 1) /\ i - 1 <= k
        BY <3>2
      <4>2. g[i] = f[i] /\ g[i - 1] = f[i - 1] /\ h[i] = b * g[i - 1]
        BY <3>2, <4>1
      <4> QED
        BY <2>2, <3>2, <4>1, <4>2
    <3>3. CASE i = k + 1
      <4>1. k \in 0..(k + 1) /\ k + 1 \in 0..(k + 1) /\ ~(k + 1 <= k) /\ (k + 1) - 1 = k /\ k + 1 # 0
        OBVIOUS
      <4>2. g[k] = f[k] /\ g[k + 1] = b * f[k] /\ h[k + 1] = b * g[(k + 1) - 1]
        BY <4>1
      <4> QED
        BY <3>3, <4>1, <4>2
    <3> QED
      BY <3>1, <3>2, <3>3
  <2>4. g = h
    BY <2>3
  <2>5. Powers(g, b, k + 1)
    BY <2>4 DEF Powers
  <2> QED
    BY <2>5
<1>3. \A k \in 0..n : k \in P
  <2> HIDE DEF P
  <2> QED
    BY <1>1, <1>2, InductionTo
<1> QED
  BY <1>3

LEMMA PowersAre ==
  ASSUME NEW b \in Nat, b > 0, NEW n \in Nat, NEW m \in Nat, NEW f, NEW g,
         Powers(f, b, n), Powers(g, b, m), n <= m
  PROVE  \A i \in 0..n : f[i] = g[i] /\ f[i] \in Nat \ {0}
<1> DEFINE P == {i \in Nat : f[i] = g[i] /\ f[i] \in Nat \ {0}}
<1>1. \A i \in 0..n : f[i] = IF i = 0 THEN 1 ELSE b * f[i - 1]
  BY DEF Powers
<1>2. \A i \in 0..m : g[i] = IF i = 0 THEN 1 ELSE b * g[i - 1]
  BY DEF Powers
<1>3. 0 \in P
  BY <1>1, <1>2
<1>4. ASSUME NEW i \in 0..(n - 1), i \in P PROVE i + 1 \in P
  <2>1. i + 1 \in 0..n /\ i + 1 \in 0..m /\ (i + 1) - 1 = i /\ i + 1 # 0 /\ i + 1 \in Nat
    OBVIOUS
  <2>2. f[i + 1] = b * f[(i + 1) - 1]
    BY <1>1, <2>1
  <2>3. g[i + 1] = b * g[(i + 1) - 1]
    BY <1>2, <2>1
  <2> DEFINE x == f[i]
  <2>4. x \in Nat \ {0} /\ f[i + 1] = b * x /\ g[i + 1] = b * x
    BY <1>4, <2>1, <2>2, <2>3
  <2> HIDE DEF x
  <2>5. b * x \in Nat \ {0}
    <3>1. 1 * x <= b * x /\ b * x \in Nat
      BY <2>4, MulMono
    <3> QED
      BY <2>4, <3>1
  <2> QED
    BY <2>1, <2>4, <2>5
<1>5. \A i \in 0..n : i \in P
  <2> HIDE DEF P
  <2> QED
    BY <1>3, <1>4, InductionTo
<1> QED
  BY <1>5

LEMMA PowerIs ==
  ASSUME NEW b, NEW n \in Nat
  PROVE  \E f : Powers(f, b, n) /\ Power(b, n) = f[n]
<1> DEFINE c == CHOOSE f : Powers(f, b, n)
<1>1. Powers(c, b, n)
  BY PowersExist
<1>2. Power(b, n) = c[n]
  BY DEF Power, Powers
<1> QED
  BY <1>1, <1>2

LEMMA PowerFacts ==
  ASSUME NEW b \in Nat, b > 0, NEW n \in Nat
  PROVE  /\ Power(b, 0) = 1
         /\ Power(b, n + 1) = b * Power(b, n)
         /\ Power(b, n) \in Nat \ {0}
<1>1. PICK f : Powers(f, b, n) /\ Power(b, n) = f[n]
  BY PowerIs
<1>2. PICK g : Powers(g, b, n + 1) /\ Power(b, n + 1) = g[n + 1]
  BY PowerIs
<1>3. PICK h : Powers(h, b, 0) /\ Power(b, 0) = h[0]
  BY PowerIs
<1>4. n + 1 \in Nat /\ n <= n + 1 /\ n \in 0..n /\ n + 1 \in 0..(n + 1) /\ (n + 1) - 1 = n
      /\ n + 1 # 0 /\ 0 \in 0..0
  OBVIOUS
<1>5. \A i \in 0..n : f[i] = g[i] /\ f[i] \in Nat \ {0}
  BY <1>1, <1>2, <1>4, PowersAre
<1>6. g[n + 1] = b * g[(n + 1) - 1]
  BY <1>2, <1>4 DEF Powers
<1>7. h[0] = 1
  BY <1>3, <1>4 DEF Powers
<1> QED
  BY <1>1, <1>2, <1>3, <1>4, <1>5, <1>6, <1>7

LEMMA DigitsType ==
  ASSUME NEW b \in Nat, b > 0, NEW v \in Nat, NEW w \in Nat
  PROVE  /\ DigitsOf(b, v, w) \in Seq(0..(b - 1)) /\ Len(DigitsOf(b, v, w)) = w
         /\ \A i \in 1..w : DigitsOf(b, v, w)[i] = (v \div Power(b, i - 1)) % b
<1>1. ASSUME NEW i \in 1..w PROVE (v \div Power(b, i - 1)) % b \in 0..(b - 1)
  <2> DEFINE p == Power(b, i - 1)
  <2>1. p \in Nat \ {0}
    BY PowerFacts
  <2> HIDE DEF p
  <2>2. v \div p \in Nat
    BY <2>1, DivIs
  <2>3. (v \div p) % b \in 0..(b - 1)
    BY <2>2, DivIs
  <2> QED
    BY <2>3 DEF p
<1>2. DigitsOf(b, v, w) = [i \in 1..w |-> (v \div Power(b, i - 1)) % b]
  BY DEF DigitsOf
<1> QED
  BY <1>1, <1>2

(* The recursive function of NumberOf, up to n.                            *)
Uppers(f, b, s, n) == f = [i \in 0..n |-> IF i = 0 THEN 0 ELSE s[Len(s) - i + 1] + b * f[i - 1]]

LEMMA UppersExist ==
  ASSUME NEW b, NEW s, NEW n \in Nat
  PROVE  \E f : Uppers(f, b, s, n)
<1> DEFINE d(i) == s[Len(s) - i + 1]
           Q(f, k) == f = [i \in 0..k |-> IF i = 0 THEN 0 ELSE d(i) + b * f[i - 1]]
           P == {k \in Nat : \E f : Q(f, k)}
<1>0. ASSUME NEW f, NEW k PROVE Q(f, k) <=> Uppers(f, b, s, k)
  BY DEF Uppers
<1> HIDE DEF d
<1>1. 0 \in P
  <2> DEFINE f == [i \in 0..0 |-> 0]
  <2>1. f = [i \in 0..0 |-> IF i = 0 THEN 0 ELSE d(i) + b * f[i - 1]]
    OBVIOUS
  <2> QED
    BY <2>1
<1>2. ASSUME NEW k \in 0..(n - 1), k \in P PROVE k + 1 \in P
  <2>1. PICK f : Q(f, k)
    BY <1>2
  <2> DEFINE g == [i \in 0..(k + 1) |-> IF i <= k THEN f[i] ELSE d(k + 1) + b * f[k]]
             h == [i \in 0..(k + 1) |-> IF i = 0 THEN 0 ELSE d(i) + b * g[i - 1]]
  <2>2. \A i \in 0..k : f[i] = IF i = 0 THEN 0 ELSE d(i) + b * f[i - 1]
    BY <2>1
  <2>3. ASSUME NEW i \in 0..(k + 1) PROVE g[i] = h[i]
    <3>1. CASE i = 0
      BY <3>1, <2>2
    <3>2. CASE i # 0 /\ i <= k
      <4>1. i \in 0..k /\ i - 1 \in 0..(k + 1) /\ i - 1 <= k
        BY <3>2
      <4>2. g[i] = f[i] /\ g[i - 1] = f[i - 1] /\ h[i] = d(i) + b * g[i - 1]
        BY <3>2, <4>1
      <4> QED
        BY <2>2, <3>2, <4>1, <4>2
    <3>3. CASE i = k + 1
      <4>1. k \in 0..(k + 1) /\ k + 1 \in 0..(k + 1) /\ ~(k + 1 <= k) /\ (k + 1) - 1 = k /\ k + 1 # 0
        OBVIOUS
      <4>2. g[k] = f[k] /\ g[k + 1] = d(k + 1) + b * f[k]
            /\ h[k + 1] = d(k + 1) + b * g[(k + 1) - 1]
        BY <4>1
      <4> QED
        BY <3>3, <4>1, <4>2
    <3> QED
      BY <3>1, <3>2, <3>3
  <2>4. g = h
    BY <2>3
  <2>5. Q(g, k + 1)
    BY <2>4
  <2>6. \E e : Q(e, k + 1)
    <3> HIDE DEF Q
    <3> QED
      BY <2>5
  <2> HIDE DEF g, h, Q
  <2> QED
    BY <2>6
<1>3. \A k \in 0..n : k \in P
  <2> HIDE DEF P
  <2> QED
    BY <1>1, <1>2, InductionTo
<1>4. PICK f : Q(f, n)
  BY <1>3
<1> QED
  BY <1>0, <1>4

LEMMA NumberIs ==
  ASSUME NEW b, NEW s, Len(s) \in Nat
  PROVE  \E f : Uppers(f, b, s, Len(s)) /\ NumberOf(b, s) = f[Len(s)]
<1> DEFINE c == CHOOSE f : Uppers(f, b, s, Len(s))
<1>1. Uppers(c, b, s, Len(s))
  BY UppersExist
<1>2. NumberOf(b, s) = c[Len(s)]
  BY DEF NumberOf, Uppers
<1> QED
  BY <1>1, <1>2

(* The digits of a number make that number: a number that is written in w  *)
(* bytes and read again is the same, if it fits.                           *)
LEMMA NumberOfDigits ==
  ASSUME NEW b \in Nat, b > 0, NEW w \in Nat, NEW v \in Nat, v < Power(b, w)
  PROVE  NumberOf(b, DigitsOf(b, v, w)) = v
<1> DEFINE s == DigitsOf(b, v, w)
<1>1. /\ s \in Seq(0..(b - 1)) /\ Len(s) = w
      /\ \A i \in 1..w : s[i] = (v \div Power(b, i - 1)) % b
  BY DigitsType
<1> HIDE DEF s
<1>2. PICK f : Uppers(f, b, s, Len(s)) /\ NumberOf(b, s) = f[Len(s)]
  BY <1>1, NumberIs
<1>3. \A i \in 0..w : f[i] = IF i = 0 THEN 0 ELSE s[w - i + 1] + b * f[i - 1]
  BY <1>1, <1>2 DEF Uppers
<1> DEFINE P == {i \in Nat : f[i] = v \div Power(b, w - i)}
<1>4. 0 \in P
  <2> DEFINE p == Power(b, w)
  <2>1. p \in Nat \ {0} /\ v < p /\ w - 0 = w
    BY PowerFacts
  <2>2. f[0] = 0
    BY <1>3
  <2> HIDE DEF p
  <2>3. v \div p = 0
    BY <2>1, DivUnique
  <2> QED
    BY <2>1, <2>2, <2>3 DEF p
<1>5. ASSUME NEW i \in 0..(w - 1), i \in P PROVE i + 1 \in P
  <2> DEFINE k == w - (i + 1)
             p == Power(b, k)
             x == v \div p
  <2>1. /\ k \in Nat /\ k + 1 = w - i /\ k + 1 \in 1..w /\ (k + 1) - 1 = k
        /\ i + 1 \in 0..w /\ i + 1 # 0 /\ (i + 1) - 1 = i /\ w - (i + 1) + 1 = k + 1
        /\ i + 1 \in Nat
    OBVIOUS
  <2>2. f[i + 1] = s[w - (i + 1) + 1] + b * f[(i + 1) - 1]
    BY <1>3, <2>1
  <2>3. s[k + 1] = (v \div Power(b, (k + 1) - 1)) % b
    BY <1>1, <2>1
  <2>4. f[i] = v \div Power(b, k + 1)
    BY <1>5, <2>1
  <2> HIDE DEF k
  <2>5. Power(b, k + 1) = b * p /\ p \in Nat \ {0}
    BY <2>1, PowerFacts
  <2>6. s[k + 1] = x % b
    BY <2>1, <2>3
  <2> HIDE DEF p
  <2>7. v \div (b * p) = x \div b /\ x \in Nat
    BY <2>5, DivDiv, DivIs
  <2> HIDE DEF x
  <2>8. f[i + 1] = (x % b) + b * (x \div b)
    BY <2>1, <2>2, <2>4, <2>5, <2>6, <2>7
  <2>9. (x % b) + b * (x \div b) = x
    <3> DEFINE q == x \div b r == x % b
    <3>1. x = b * q + r /\ q \in Nat /\ r \in 0..(b - 1) /\ b * q \in Nat
      BY <2>7, DivIs
    <3> HIDE DEF q, r
    <3>2. r + b * q = x
      BY <3>1
    <3> QED
      BY <3>2 DEF q, r
  <2>10. f[i + 1] = x
    BY <2>8, <2>9
  <2> QED
    BY <2>1, <2>10 DEF x, p, k
<1>6. \A i \in 0..w : i \in P
  <2> HIDE DEF P
  <2> QED
    BY <1>4, <1>5, InductionTo
<1>7. f[w] = v \div Power(b, w - w)
  BY <1>6
<1>8. w - w = 0 /\ Power(b, 0) = 1 /\ v \div 1 = v
  <2>1. v \div 1 = v
    BY DivUnique
  <2> QED
    BY <2>1, PowerFacts
<1> QED
  BY <1>1, <1>2, <1>7, <1>8 DEF s

LEMMA FlattenOne ==
  ASSUME NEW S, NEW x \in Seq(S)
  PROVE  FlattenSeq(<<x>>) = x
<1>1. <<>> \in Seq(Seq(S)) /\ Append(<<>>, x) = <<x>>
  BY EmptySeq
<1>2. FlattenSeq(Append(<<>>, x)) = FlattenSeq(<<>>) \o x
  BY <1>1, FlattenAppend
<1>3. FlattenSeq(<<>>) \o x = x
  BY FlattenEmpty, ConcatEmptySeq
<1> QED
  BY <1>1, <1>2, <1>3

(* A sequence is divided in one way only.                                  *)
LEMMA ConcatCancel ==
  ASSUME NEW S, NEW p \in Seq(S), NEW q \in Seq(S), NEW r \in Seq(S), NEW t \in Seq(S),
         p \o q = r \o t, Len(p) = Len(r)
  PROVE  p = r /\ q = t
<1>1. /\ Len(p) \in Nat /\ Len(q) \in Nat /\ Len(r) \in Nat /\ Len(t) \in Nat
      /\ Len(p \o q) = Len(p) + Len(q) /\ Len(r \o t) = Len(r) + Len(t)
      /\ \A i \in 1..(Len(p) + Len(q)) :
           (p \o q)[i] = IF i <= Len(p) THEN p[i] ELSE q[i - Len(p)]
      /\ \A i \in 1..(Len(r) + Len(t)) :
           (r \o t)[i] = IF i <= Len(r) THEN r[i] ELSE t[i - Len(r)]
  <2>1. /\ Len(p \o q) = Len(p) + Len(q)
        /\ \A i \in 1..(Len(p) + Len(q)) :
             (p \o q)[i] = IF i <= Len(p) THEN p[i] ELSE q[i - Len(p)]
    BY ConcatProperties, Zenon
  <2>2. /\ Len(r \o t) = Len(r) + Len(t)
        /\ \A i \in 1..(Len(r) + Len(t)) :
             (r \o t)[i] = IF i <= Len(r) THEN r[i] ELSE t[i - Len(r)]
    BY ConcatProperties, Zenon
  <2>3. Len(p) \in Nat /\ Len(q) \in Nat /\ Len(r) \in Nat /\ Len(t) \in Nat
    OBVIOUS
  <2> QED
    BY <2>1, <2>2, <2>3, Zenon
<1> DEFINE a == Len(p)
           c == Len(q)
           u == p \o q
<1>2. /\ a \in Nat /\ c \in Nat /\ Len(r) = a /\ Len(t) = c
      /\ \A i \in 1..(a + c) : u[i] = IF i <= a THEN p[i] ELSE q[i - a]
      /\ \A i \in 1..(a + c) : u[i] = IF i <= a THEN r[i] ELSE t[i - a]
  <2>1. Len(t) = c
    BY <1>1
  <2> QED
    BY <1>1, <2>1
<1>3. p = r
  <2>1. \A i \in 1..Len(p) : p[i] = r[i]
    <3> SUFFICES ASSUME NEW i \in 1..a PROVE p[i] = r[i]
      OBVIOUS
    <3> HIDE DEF a, c, u
    <3>1. i \in 1..(a + c) /\ i <= a
      BY <1>2
    <3> QED
      BY <1>2, <3>1
  <2> QED
    BY <2>1, SeqEqual
<1>4. q = t
  <2>1. \A i \in 1..Len(q) : q[i] = t[i]
    <3> SUFFICES ASSUME NEW i \in 1..c PROVE q[i] = t[i]
      OBVIOUS
    <3> HIDE DEF a, c, u
    <3>1. a + i \in 1..(a + c) /\ ~(a + i <= a) /\ (a + i) - a = i
      BY <1>2
    <3>2. u[a + i] = q[(a + i) - a] /\ u[a + i] = t[(a + i) - a]
      BY <1>2, <3>1, Zenon
    <3> QED
      BY <3>1, <3>2
  <2>2. Len(q) = Len(t)
    BY <1>2
  <2> QED
    BY <2>1, <2>2, SeqEqual
<1> QED
  BY <1>3, <1>4

LEMMA MinOfTwo ==
  ASSUME NEW a \in Int, NEW b \in Int
  PROVE  Min({a, b}) \in {a, b} /\ Min({a, b}) <= a /\ Min({a, b}) <= b
<1>1. \E x \in {a, b} : \A y \in {a, b} : x <= y
  <2>1. CASE a <= b
    BY <2>1
  <2>2. CASE b <= a
    BY <2>2
  <2> QED
    BY <2>1, <2>2
<1> QED
  BY <1>1 DEF Min

LEMMA NumberType ==
  ASSUME NEW b \in Nat, NEW s \in Seq(Nat)
  PROVE  NumberOf(b, s) \in Nat
<1>1. Len(s) \in Nat /\ \A i \in 1..Len(s) : s[i] \in Nat
  OBVIOUS
<1>2. PICK f : Uppers(f, b, s, Len(s)) /\ NumberOf(b, s) = f[Len(s)]
  BY <1>1, NumberIs
<1> DEFINE n == Len(s)
           P == {i \in Nat : f[i] \in Nat}
<1>3. \A i \in 0..n : f[i] = IF i = 0 THEN 0 ELSE s[n - i + 1] + b * f[i - 1]
  BY <1>1, <1>2 DEF Uppers
<1> HIDE DEF n
<1>4. n \in Nat /\ \A i \in 1..n : s[i] \in Nat
  BY <1>1 DEF n
<1>5. 0 \in P
  BY <1>3, <1>4
<1>6. ASSUME NEW i \in 0..(n - 1), i \in P PROVE i + 1 \in P
  <2>1. i + 1 \in 0..n /\ i + 1 # 0 /\ (i + 1) - 1 = i /\ n - (i + 1) + 1 \in 1..n
    BY <1>4
  <2>2. f[i + 1] = s[n - (i + 1) + 1] + b * f[i]
    BY <1>3, <2>1
  <2>3. b * f[i] \in Nat
    BY <1>6
  <2> QED
    BY <1>4, <2>1, <2>2, <2>3
<1>7. \A i \in 0..n : i \in P
  <2> HIDE DEF P
  <2> QED
    BY <1>4, <1>5, <1>6, InductionTo
<1> QED
  BY <1>2, <1>4, <1>7 DEF n

LEMMA ConcatIs ==
  ASSUME NEW S, NEW s \in Seq(S), NEW t \in Seq(S)
  PROVE  /\ s \o t \in Seq(S) /\ Len(s) \in Nat /\ Len(t) \in Nat
         /\ Len(s \o t) = Len(s) + Len(t)
         /\ \A i \in 1..Len(s) : (s \o t)[i] = s[i]
         /\ \A i \in 1..Len(t) : (s \o t)[Len(s) + i] = t[i]
  OBVIOUS

LEMMA PrefixIs ==
  ASSUME NEW S, NEW s \in Seq(S), NEW t \in Seq(S)
  PROVE  IsPrefix(s, t) <=> Len(s) <= Len(t) /\ \A i \in 1..Len(s) : s[i] = t[i]
<1> DEFINE n == Len(s)
           u == SubSeq(t, 1, n)
<1>1. n \in Nat /\ Len(t) \in Nat
  OBVIOUS
<1>2. SubSeq(s, 1, n) = s
  <2>1. n \in 0..Len(s)
    BY <1>1
  <2> DEFINE x == SubSeq(s, 1, n)
  <2>2. x \in Seq(S) /\ Len(x) = n /\ \A i \in 1..n : x[i] = s[i]
    BY <2>1, SplitAt
  <2> HIDE DEF x
  <2>3. x = s
    BY <2>2, SeqEqual
  <2> QED
    BY <2>3 DEF x
<1>3. ASSUME n <= Len(t)
      PROVE  s = u <=> \A i \in 1..n : s[i] = t[i]
  <2>1. n \in 0..Len(t)
    BY <1>1, <1>3
  <2> HIDE DEF n
  <2>2. u \in Seq(S) /\ Len(u) = n /\ \A i \in 1..n : u[i] = t[i]
    BY <2>1, SplitAt
  <2> HIDE DEF u
  <2>3. ASSUME \A i \in 1..n : s[i] = t[i] PROVE s = u
    <3>1. \A i \in 1..Len(s) : s[i] = u[i]
      BY <2>2, <2>3 DEF n
    <3>2. Len(s) = Len(u)
      BY <2>2 DEF n
    <3> QED
      BY <2>2, <3>1, <3>2, SeqEqual
  <2> QED
    BY <2>2, <2>3
<1> QED
  BY <1>2, <1>3, Zenon DEF IsPrefix

LEMMA FrontIsPrefix ==
  ASSUME NEW S, NEW s \in Seq(S), NEW t \in Seq(S)
  PROVE  IsPrefix(s, s \o t)
<1> DEFINE u == s \o t
<1>1. /\ u \in Seq(S) /\ Len(u) = Len(s) + Len(t) /\ Len(s) \in Nat /\ Len(t) \in Nat
      /\ \A i \in 1..Len(s) : u[i] = s[i]
  BY ConcatIs
<1> HIDE DEF u
<1>2. Len(s) <= Len(u) /\ \A i \in 1..Len(s) : s[i] = u[i]
  BY <1>1
<1>3. IsPrefix(s, u)
  BY <1>1, <1>2, PrefixIs
<1> QED
  BY <1>3 DEF u

LEMMA PrefixTransitive ==
  ASSUME NEW S, NEW s \in Seq(S), NEW t \in Seq(S), NEW u \in Seq(S),
         IsPrefix(s, t), IsPrefix(t, u)
  PROVE  IsPrefix(s, u)
<1>1. /\ Len(s) \in Nat /\ Len(t) \in Nat /\ Len(u) \in Nat
      /\ Len(s) <= Len(t) /\ \A i \in 1..Len(s) : s[i] = t[i]
      /\ Len(t) <= Len(u) /\ \A i \in 1..Len(t) : t[i] = u[i]
  BY PrefixIs
<1>2. Len(s) <= Len(u) /\ \A i \in 1..Len(s) : s[i] = u[i]
  BY <1>1
<1> QED
  BY <1>2, PrefixIs

(* Of two fronts of a sequence the shorter is a prefix of the longer.      *)
LEMMA ShorterFront ==
  ASSUME NEW S, NEW p \in Seq(S), NEW q \in Seq(S), NEW r \in Seq(S), NEW t \in Seq(S),
         p \o q = r \o t, Len(p) <= Len(r)
  PROVE  IsPrefix(p, r)
<1> DEFINE u == p \o q
           v == r \o t
<1>1. /\ Len(p) \in Nat /\ Len(r) \in Nat
      /\ \A i \in 1..Len(p) : u[i] = p[i]
      /\ \A i \in 1..Len(r) : v[i] = r[i]
  BY ConcatIs
<1>2. u = v
  OBVIOUS
<1> HIDE DEF u, v
<1>3. \A i \in 1..Len(p) : p[i] = r[i]
  <2>1. \A i \in 1..Len(p) : i \in 1..Len(r)
    BY <1>1
  <2> QED
    BY <1>1, <1>2, <2>1, Zenon
<1> QED
  BY <1>3, PrefixIs
=============================================================================
