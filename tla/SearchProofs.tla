---------------------------- MODULE SearchProofs ----------------------------
(***************************************************************************)
(* What the search and grep endpoints promise a client that pages through  *)
(* their results, for every index, page size, page number and offset:      *)
(*                                                                         *)
(*   SpecPageIsWhatItSays   a page holds what its number and size name     *)
(*   SpecNoSilentLoss       no constraint is lost where nobody sees it     *)
(*   CursorRoundTrip        the token of an offset is read as that offset  *)
(*   SpecPagesTile          the pages follow each other                    *)
(*   SpecHighlightsFaithful what is lit is what matched                    *)
(*                                                                         *)
(* IndexInv bounds the numbers, AnswerInv says where the last answer comes *)
(* from, and NumberInv and CursorInv say of what was returned so far which *)
(* stretch of the index it is.  Lemmas about sequences come first: what a  *)
(* library operator or a recursive function computes for a sequence of any *)
(* length follows from UpTo, an induction over a set.                      *)
(***************************************************************************)
EXTENDS Search, SequenceTheorems, FiniteSetTheorems, NaturalsInduction, WellFoundedInduction, TLAPS

-----------------------------------------------------------------------------
(* Sequences that are put together from sequences. *)

\* Induction up to a number, for a set instead of a predicate.
LEMMA UpTo ==
  ASSUME NEW n \in Nat, NEW T, 0 \in T, \A i \in 1..n : i - 1 \in T => i \in T
  PROVE  \A i \in 0..n : i \in T
<1> DEFINE Rest == {i \in 0..n : i \notin T}
<1> SUFFICES ASSUME Rest # {} PROVE FALSE
  OBVIOUS
<1>1. Rest \subseteq Nat
  OBVIOUS
<1> HIDE DEF Rest
<1>2. PICK least \in Rest : \A m \in Rest : ~(<<m, least>> \in OpToRel(<, Nat))
  BY <1>1, NatLessThanWellFounded, WFMin
<1>3. \A m \in Rest : ~(m < least)
  BY <1>1, <1>2 DEF OpToRel
<1>4. least \in 0..n /\ least \notin T
  BY <1>2 DEF Rest
<1>5. least # 0
  BY <1>4
<1>6. least \in 1..n /\ least - 1 \in 0..n /\ least - 1 < least
  BY <1>4, <1>5
<1>7. least - 1 \in T
  BY <1>3, <1>6 DEF Rest
<1> QED
  BY <1>4, <1>6, <1>7

\* FlattenSeq is the last of its partial results, each of which appends one sequence.
LEMMA FlattenSteps ==
  ASSUME NEW S, NEW seqs \in Seq(Seq(S))
  PROVE  \E flat \in [0..Len(seqs) -> Seq(S)] :
           /\ flat[0] = <<>>
           /\ \A i \in 1..Len(seqs) : flat[i] = flat[i - 1] \o seqs[i]
           /\ FlattenSeq(seqs) = flat[Len(seqs)]
<1> DEFINE n == Len(seqs)
           Partial(m, g) == /\ g \in [0..m -> Seq(S)]
                            /\ g[0] = <<>>
                            /\ \A i \in 1..m : g[i] = g[i - 1] \o seqs[i]
           T == {m \in 0..n : \E g : Partial(m, g)}
<1>1. n \in Nat /\ \A i \in 1..n : seqs[i] \in Seq(S)
  OBVIOUS
<1> HIDE DEF n
<1>2. 0 \in T
  <2>1. Partial(0, [i \in 0..0 |-> <<>>])
    OBVIOUS
  <2> HIDE DEF Partial
  <2>2. \E g : Partial(0, g)
    BY <2>1
  <2> QED
    BY <1>1, <2>2
<1>3. ASSUME NEW m \in 1..n, m - 1 \in T
      PROVE  m \in T
  <2>1. PICK g : Partial(m - 1, g)
    BY <1>3
  <2> DEFINE h == [i \in 0..m |-> IF i = m THEN g[m - 1] \o seqs[m] ELSE g[i]]
  <2>2. g[m - 1] \in Seq(S) /\ seqs[m] \in Seq(S)
    BY <1>1, <2>1
  <2>3. h \in [0..m -> Seq(S)]
    BY <1>1, <2>1, <2>2
  <2>4. h[m] = g[m - 1] \o seqs[m]
    <3>1. m \in 0..m
      BY <1>1
    <3> QED
      BY <3>1, Zenon
  <2>5. \A i \in 0..(m - 1) : h[i] = g[i]
    BY <1>1
  <2> HIDE DEF h
  <2>6. ASSUME NEW i \in 1..m PROVE h[i] = h[i - 1] \o seqs[i]
    <3>1. i - 1 \in 0..(m - 1)
      BY <1>1
    <3>2. h[i - 1] = g[i - 1]
      BY <2>5, <3>1
    <3>3. CASE i = m
      BY <2>4, <3>2, <3>3
    <3>4. CASE i # m
      <4>1. i \in 1..(m - 1) /\ i \in 0..(m - 1)
        BY <1>1, <3>4
      <4>2. g[i] = g[i - 1] \o seqs[i]
        BY <2>1, <4>1
      <4>3. h[i] = g[i]
        BY <2>5, <4>1
      <4> QED
        BY <3>2, <4>2, <4>3
    <3> QED
      BY <3>3, <3>4
  <2>7. h[0] = <<>>
    BY <1>1, <2>1, <2>5
  <2>8. Partial(m, h)
    BY <2>3, <2>6, <2>7
  <2> HIDE DEF Partial
  <2>9. \E f : Partial(m, f)
    BY <2>8
  <2>10. m \in 0..n
    BY <1>1
  <2> QED
    BY <2>9, <2>10
<1> HIDE DEF Partial
<1>4. n \in T
  <2> HIDE DEF T
  <2>1. \A i \in 0..n : i \in T
    BY <1>1, <1>2, <1>3, UpTo
  <2> QED
    BY <1>1, <2>1
<1>5. PICK flat : Partial(n, flat)
  BY <1>4
<1>6. /\ flat \in [0..n -> Seq(S)]
      /\ flat[0] = <<>>
      /\ \A i \in 1..n : flat[i] = flat[i - 1] \o seqs[i]
  BY <1>5 DEF Partial
<1>7. FlattenSeq(seqs) = flat[n]
  <2>1. CASE n = 0
    <3>1. seqs = <<>>
      BY <2>1, EmptySeq DEF n
    <3> QED
      BY <1>6, <2>1, <3>1 DEF FlattenSeq, n
  <2>2. CASE n # 0
    <3> DEFINE Step(f, i) == IF i = 1 THEN seqs[i] ELSE f[i - 1] \o seqs[i]
               IsFlatten(f) == f = [i \in 1..n |-> Step(f, i)]
               prefix == [i \in 1..n |-> flat[i]]
    <3>1. FlattenSeq(seqs) = (CHOOSE f : IsFlatten(f))[n]
      BY <2>2 DEF FlattenSeq, n
    <3>2. IsFlatten(prefix)
      <4>1. ASSUME NEW i \in 1..n
            PROVE  flat[i] = Step(prefix, i)
        <5>1. flat[i] = flat[i - 1] \o seqs[i] /\ seqs[i] \in Seq(S)
          BY <1>1, <1>6
        <5>2. CASE i = 1
          <6>1. flat[i - 1] = <<>>
            BY <1>6, <5>2
          <6>2. <<>> \o seqs[i] = seqs[i]
            BY <5>1, ConcatEmptySeq
          <6> QED
            BY <5>1, <5>2, <6>1, <6>2
        <5>3. CASE i # 1
          <6>1. i - 1 \in 1..n
            BY <1>1, <5>3
          <6>2. prefix[i - 1] = flat[i - 1]
            BY <6>1
          <6> QED
            BY <5>1, <5>3, <6>2
        <5> QED
          BY <5>2, <5>3
      <4> HIDE DEF Step
      <4> QED
        BY <4>1
    <3> DEFINE f0 == CHOOSE f : IsFlatten(f)
    <3>3. IsFlatten(f0)
      <4> HIDE DEF IsFlatten, prefix
      <4> QED
        BY <3>2
    <3> HIDE DEF f0
    <3>4. \A i \in 1..n : f0[i] = Step(f0, i)
      <4> HIDE DEF Step
      <4> QED
        BY <3>3
    <3> HIDE DEF IsFlatten, prefix
    <3> DEFINE U == {i \in 0..n : i = 0 \/ f0[i] = flat[i]}
    <3>5. ASSUME NEW i \in 1..n, i - 1 \in U PROVE i \in U
      <4>1. f0[i] = Step(f0, i) /\ flat[i] = flat[i - 1] \o seqs[i] /\ seqs[i] \in Seq(S)
        BY <1>1, <1>6, <3>4
      <4>2. CASE i = 1
        <5>1. flat[i - 1] = <<>>
          BY <1>6, <4>2
        <5>2. <<>> \o seqs[i] = seqs[i]
          BY <4>1, ConcatEmptySeq
        <5>3. f0[i] = flat[i]
          BY <4>1, <4>2, <5>1, <5>2
        <5> QED
          BY <1>1, <5>3
      <4>3. CASE i # 1
        <5>1. i - 1 # 0
          BY <4>3
        <5>2. f0[i - 1] = flat[i - 1]
          BY <3>5, <5>1
        <5>3. f0[i] = flat[i]
          BY <4>1, <4>3, <5>2
        <5> QED
          BY <1>1, <5>3
      <4> QED
        BY <4>2, <4>3
    <3>6. n \in U
      <4>1. 0 \in U
        BY <1>1
      <4> HIDE DEF U
      <4>2. \A i \in 0..n : i \in U
        BY <1>1, <3>5, <4>1, UpTo
      <4> QED
        BY <1>1, <4>2
    <3> QED
      BY <2>2, <3>1, <3>6 DEF f0
  <2> QED
    BY <2>1, <2>2
<1> QED
  BY <1>6, <1>7 DEF n
\* What it returns, of whatever the sequences hold.
LEMMA FlattenType ==
  ASSUME NEW S, NEW seqs \in Seq(Seq(S))
  PROVE  FlattenSeq(seqs) \in Seq(S)
<1>1. PICK flat \in [0..Len(seqs) -> Seq(S)] : FlattenSeq(seqs) = flat[Len(seqs)]
  BY FlattenSteps
<1>2. Len(seqs) \in 0..Len(seqs)
  OBVIOUS
<1> QED
  BY <1>1, <1>2

\* What is in two sequences is in their concatenation, and nothing else.
LEMMA ConcatHolds ==
  ASSUME NEW S, NEW s \in Seq(S), NEW t \in Seq(S), NEW e
  PROVE  e \in ToSet(s \o t) <=> e \in ToSet(s) \/ e \in ToSet(t)
<1>1. /\ s \o t \in Seq(S)
      /\ Len(s \o t) = Len(s) + Len(t)
      /\ \A i \in 1..(Len(s) + Len(t)) : (s \o t)[i] = IF i <= Len(s) THEN s[i] ELSE t[i - Len(s)]
  BY ConcatProperties
<1>2. /\ Len(s) \in Nat /\ Len(t) \in Nat
      /\ DOMAIN s = 1..Len(s) /\ DOMAIN t = 1..Len(t)
      /\ DOMAIN (s \o t) = 1..(Len(s) + Len(t))
  BY <1>1, LenProperties
<1> HIDE DEF ToSet
<1>3. ASSUME NEW i \in 1..(Len(s) + Len(t)), e = (s \o t)[i]
      PROVE  e \in ToSet(s) \/ e \in ToSet(t)
  <2>1. CASE i <= Len(s)
    <3>1. i \in 1..Len(s) /\ e = s[i]
      BY <1>1, <1>2, <1>3, <2>1
    <3> QED
      BY <1>2, <3>1 DEF ToSet
  <2>2. CASE ~(i <= Len(s))
    <3>1. i - Len(s) \in 1..Len(t) /\ e = t[i - Len(s)]
      BY <1>1, <1>2, <1>3, <2>2
    <3> QED
      BY <1>2, <3>1 DEF ToSet
  <2> QED
    BY <2>1, <2>2
<1>4. ASSUME NEW i \in 1..Len(s), e = s[i]
      PROVE  e \in ToSet(s \o t)
  <2>1. i \in 1..(Len(s) + Len(t)) /\ (s \o t)[i] = e
    BY <1>1, <1>2, <1>4
  <2> QED
    BY <1>2, <2>1 DEF ToSet
<1>5. ASSUME NEW i \in 1..Len(t), e = t[i]
      PROVE  e \in ToSet(s \o t)
  <2>1. Len(s) + i \in 1..(Len(s) + Len(t)) /\ (s \o t)[Len(s) + i] = e
    BY <1>1, <1>2, <1>5
  <2> QED
    BY <1>2, <2>1 DEF ToSet
<1> QED
  BY <1>2, <1>3, <1>4, <1>5 DEF ToSet

\* FlattenSeq keeps and invents nothing: what it returns holds what the sequences hold.
LEMMA FlattenHolds ==
  ASSUME NEW S, NEW seqs \in Seq(Seq(S)), NEW e
  PROVE  e \in ToSet(FlattenSeq(seqs)) <=> \E i \in DOMAIN seqs : e \in ToSet(seqs[i])
<1> DEFINE n == Len(seqs)
<1>1. PICK flat \in [0..n -> Seq(S)] :
        /\ flat[0] = <<>>
        /\ \A i \in 1..n : flat[i] = flat[i - 1] \o seqs[i]
        /\ FlattenSeq(seqs) = flat[n]
  BY FlattenSteps
<1>2. n \in Nat /\ DOMAIN seqs = 1..n /\ \A i \in 1..n : seqs[i] \in Seq(S)
  OBVIOUS
<1> HIDE DEF n
<1> DEFINE Held(m) == \E i \in 1..m : e \in ToSet(seqs[i])
           T == {m \in 0..n : e \in ToSet(flat[m]) <=> Held(m)}
<1>3. 0 \in T
  BY <1>1, <1>2 DEF ToSet
<1>4. ASSUME NEW m \in 1..n, m - 1 \in T
      PROVE  m \in T
  <2>1. flat[m - 1] \in Seq(S) /\ seqs[m] \in Seq(S) /\ flat[m] = flat[m - 1] \o seqs[m]
    <3>1. m - 1 \in 0..n
      BY <1>2
    <3>2. flat[m - 1] \in Seq(S)
      BY <1>1, <3>1
    <3> QED
      BY <1>1, <1>2, <3>2
  <2>2. e \in ToSet(flat[m]) <=> e \in ToSet(flat[m - 1]) \/ e \in ToSet(seqs[m])
    BY <2>1, ConcatHolds
  <2>3. e \in ToSet(flat[m - 1]) <=> Held(m - 1)
    BY <1>4
  <2>4. Held(m) <=> Held(m - 1) \/ e \in ToSet(seqs[m])
    <3>1. 1..m = 1..(m - 1) \cup {m}
      BY <1>2
    <3> QED
      BY <3>1
  <2> HIDE DEF Held
  <2>5. m \in 0..n
    BY <1>2
  <2> QED
    BY <2>2, <2>3, <2>4, <2>5
<1>5. n \in T
  <2> HIDE DEF T
  <2>1. \A m \in 0..n : m \in T
    BY <1>2, <1>3, <1>4, UpTo
  <2> QED
    BY <1>2, <2>1
<1> QED
  BY <1>1, <1>2, <1>5

\* Of sequences with no more than one entry it makes one that is not longer than they are
\* many.
LEMMA FlattenShort ==
  ASSUME NEW S, NEW seqs \in Seq(Seq(S)), \A i \in DOMAIN seqs : Len(seqs[i]) <= 1
  PROVE  Len(FlattenSeq(seqs)) <= Len(seqs)
<1> DEFINE n == Len(seqs)
<1>1. PICK flat \in [0..n -> Seq(S)] :
        /\ flat[0] = <<>>
        /\ \A i \in 1..n : flat[i] = flat[i - 1] \o seqs[i]
        /\ FlattenSeq(seqs) = flat[n]
  BY FlattenSteps
<1>2. /\ n \in Nat /\ DOMAIN seqs = 1..n
      /\ \A i \in 1..n : seqs[i] \in Seq(S) /\ Len(seqs[i]) <= 1
  OBVIOUS
<1> HIDE DEF n
<1> DEFINE T == {m \in 0..n : Len(flat[m]) <= m}
<1>3. 0 \in T
  BY <1>1, <1>2
<1>4. ASSUME NEW m \in 1..n, m - 1 \in T
      PROVE  m \in T
  <2>1. flat[m - 1] \in Seq(S) /\ seqs[m] \in Seq(S) /\ flat[m] = flat[m - 1] \o seqs[m]
    <3>1. m - 1 \in 0..n
      BY <1>2
    <3>2. flat[m - 1] \in Seq(S)
      BY <1>1, <3>1
    <3> QED
      BY <1>1, <1>2, <3>2
  <2>2. Len(flat[m]) = Len(flat[m - 1]) + Len(seqs[m])
    BY <2>1, ConcatProperties
  <2>3. Len(flat[m - 1]) \in Nat /\ Len(seqs[m]) \in Nat
    BY <2>1, LenProperties
  <2>4. Len(flat[m - 1]) <= m - 1 /\ Len(seqs[m]) <= 1
    BY <1>2, <1>4
  <2>5. Len(flat[m]) <= m
    BY <1>2, <2>2, <2>3, <2>4
  <2> QED
    BY <1>2, <2>5
<1>5. n \in T
  <2> HIDE DEF T
  <2>1. \A m \in 0..n : m \in T
    BY <1>2, <1>3, <1>4, UpTo
  <2> QED
    BY <1>2, <2>1
<1> QED
  BY <1>1, <1>5 DEF n

-----------------------------------------------------------------------------
(* The continuation token. *)

Byte == 0..255

\* digits is the function that its recursive definition describes.
LEMMA DigitsStep ==
  /\ digits \in [Nat -> Seq(Byte)]
  /\ \A n \in Nat : digits[n] = IF n < 10 THEN <<48 + n>> ELSE Append(digits[n \div 10], 48 + (n % 10))
<1> DEFINE Step(g, n) == IF n < 10 THEN <<48 + n>> ELSE Append(g[n \div 10], 48 + (n % 10))
           Partial(m, g) == g \in [0..m -> Seq(Byte)] /\ \A n \in 0..m : g[n] = Step(g, n)
<1>1. \A n \in Nat : n >= 10 => (n \div 10 \in 0..(n - 1) /\ n % 10 \in 0..9)
  OBVIOUS
<1>2. \A n \in Nat : n < 10 => <<48 + n>> \in Seq(Byte)
  <2>1. \A n \in Nat : n < 10 => 48 + n \in Byte
    BY DEF Byte
  <2> QED
    BY <2>1
<1>3. ASSUME NEW n \in Nat, NEW g, n >= 10 => g[n \div 10] \in Seq(Byte)
      PROVE  Step(g, n) \in Seq(Byte)
  <2>1. CASE n < 10
    BY <1>2, <2>1
  <2>2. CASE n >= 10
    <3>1. 48 + (n % 10) \in Byte
      BY <1>1, <2>2 DEF Byte
    <3>2. Append(g[n \div 10], 48 + (n % 10)) \in Seq(Byte)
      BY <1>3, <2>2, <3>1, AppendProperties
    <3>3. ~(n < 10)
      BY <2>2
    <3> QED
      BY <3>2, <3>3
  <2> QED
    BY <2>1, <2>2
<1>4. ASSUME NEW n \in Nat, NEW g, NEW h, n >= 10 => g[n \div 10] = h[n \div 10]
      PROVE  Step(g, n) = Step(h, n)
  <2>1. n < 10 \/ n >= 10
    OBVIOUS
  <2> QED
    BY <1>4, <2>1
<1> HIDE DEF Step
<1>5. \A m \in Nat : \E g : Partial(m, g)
  <2> SUFFICES ASSUME NEW last_ \in Nat PROVE \E g : Partial(last_, g)
    OBVIOUS
  <2> DEFINE T == {m \in 0..last_ : \E g : Partial(m, g)}
  <2>1. 0 \in T
    <3> DEFINE g == [n \in 0..0 |-> <<48>>]
    <3>1. <<48>> \in Seq(Byte)
      BY <1>2
    <3>2. g[0] = Step(g, 0)
      BY DEF Step
    <3>3. g \in [0..0 -> Seq(Byte)]
      BY <3>1
    <3>4. \A n \in 0..0 : g[n] = Step(g, n)
      BY <3>2
    <3> HIDE DEF g
    <3>5. Partial(0, g)
      BY <3>3, <3>4
    <3> QED
      BY <3>5
  <2>2. ASSUME NEW m \in 1..last_, m - 1 \in T PROVE m \in T
    <3>1. PICK g : Partial(m - 1, g)
      BY <2>2
    <3> DEFINE h == [n \in 0..m |-> IF n = m THEN Step(g, m) ELSE g[n]]
    <3>2. Step(g, m) \in Seq(Byte)
      <4>1. m >= 10 => m \div 10 \in 0..(m - 1)
        BY <1>1
      <4> QED
        BY <1>3, <3>1, <4>1
    <3>3. h \in [0..m -> Seq(Byte)]
      BY <3>1, <3>2
    <3>4. h[m] = Step(g, m) /\ \A n \in 0..(m - 1) : h[n] = g[n]
      OBVIOUS
    <3> HIDE DEF h
    <3>5. ASSUME NEW n \in 0..m PROVE h[n] = Step(h, n)
      <4>1. n >= 10 => n \div 10 \in 0..(n - 1)
        BY <1>1
      <4>2. n >= 10 => h[n \div 10] = g[n \div 10]
        BY <3>4, <4>1
      <4>3. Step(h, n) = Step(g, n)
        BY <1>4, <4>2
      <4>4. CASE n = m
        BY <3>4, <4>3, <4>4
      <4>5. CASE n # m
        <5>1. n \in 0..(m - 1)
          BY <4>5
        <5> QED
          BY <3>1, <3>4, <4>3, <5>1
      <4> QED
        BY <4>4, <4>5
    <3>6. Partial(m, h)
      BY <3>3, <3>5
    <3> HIDE DEF Partial
    <3>7. \E f : Partial(m, f)
      BY <3>6
    <3> QED
      BY <3>7
  <2> HIDE DEF T
  <2>3. \A m \in 0..last_ : m \in T
    BY <2>1, <2>2, UpTo
  <2> QED
    BY <2>3 DEF T
<1>6. ASSUME NEW m \in Nat, NEW k \in Nat, NEW g, NEW h, Partial(m, g), Partial(k, h), m <= k
      PROVE  \A n \in 0..m : g[n] = h[n]
  <2> SUFFICES ASSUME NEW first \in 0..m, g[first] # h[first] PROVE FALSE
    OBVIOUS
  <2> DEFINE U == {n \in Nat : n <= m /\ g[n] # h[n]}
  <2>1. first \in U /\ U \subseteq Nat
    OBVIOUS
  <2> HIDE DEF U
  <2>2. PICK n \in U : \A i \in U : ~(<<i, n>> \in OpToRel(<, Nat))
    BY <2>1, NatLessThanWellFounded, WFMin
  <2>3. \A i \in U : ~(i < n)
    BY <2>1, <2>2 DEF OpToRel
  <2>4. n \in 0..m /\ n \in 0..k /\ n \in Nat
    <3>1. n \in Nat /\ n <= m
      BY <2>2 DEF U
    <3> QED
      BY <1>6, <3>1
  <2>5. g[n] = Step(g, n) /\ h[n] = Step(h, n)
    BY <1>6, <2>4
  <2>6. n >= 10 => g[n \div 10] = h[n \div 10]
    <3>1. n >= 10 => (n \div 10 \in 0..(n - 1))
      BY <1>1, <2>4
    <3>2. n >= 10 => n \div 10 \notin U
      <4> DEFINE q == n \div 10
      <4>1. n >= 10 => q < n
        BY <2>4, <3>1
      <4> HIDE DEF q
      <4>2. n >= 10 => q \notin U
        BY <2>3, <4>1
      <4> QED
        BY <4>2 DEF q
    <3> QED
      BY <2>4, <3>1, <3>2 DEF U
  <2>7. g[n] = h[n]
    BY <1>4, <2>4, <2>5, <2>6
  <2> QED
    BY <2>2, <2>7 DEF U
<1> DEFINE some(m) == CHOOSE g : Partial(m, g)
           table == [n \in Nat |-> some(n)[n]]
<1>7. \A m \in Nat : Partial(m, some(m))
  <2> HIDE DEF Partial
  <2> QED
    BY <1>5
<1> HIDE DEF some
<1>8. table \in [Nat -> Seq(Byte)]
  <2>1. \A n \in Nat : some(n)[n] \in Seq(Byte)
    BY <1>7
  <2> QED
    BY <2>1
<1>9. ASSUME NEW n \in Nat PROVE table[n] = Step(table, n)
  <2>1. some(n)[n] = Step(some(n), n)
    BY <1>7
  <2>2. ASSUME n >= 10 PROVE some(n)[n \div 10] = table[n \div 10]
    <3> DEFINE q == n \div 10
    <3>1. q \in 0..(n - 1)
      BY <1>1, <2>2
    <3> HIDE DEF q
    <3>2. Partial(q, some(q)) /\ Partial(n, some(n)) /\ q \in Nat /\ q <= n /\ q \in 0..q
      BY <1>7, <3>1
    <3> HIDE DEF Partial
    <3>3. some(q)[q] = some(n)[q]
      BY <1>6, <3>2
    <3> QED
      BY <3>2, <3>3 DEF q
  <2> HIDE DEF table
  <2>3. Step(some(n), n) = Step(table, n)
    BY <1>4, <2>2
  <2> QED
    BY <2>1, <2>3 DEF table
<1> HIDE DEF table
<1> DEFINE IsDigits(f) == f = [n \in Nat |-> Step(f, n)]
<1>10. IsDigits(table)
  BY <1>8, <1>9
<1>11. IsDigits(digits)
  <2>1. digits = CHOOSE f : IsDigits(f)
    BY DEF digits, Step
  <2> HIDE DEF IsDigits
  <2> QED
    BY <1>10, <2>1
<1>12. \A n \in Nat : digits[n] = Step(digits, n)
  BY <1>11
<1>13. DOMAIN digits = Nat /\ digits = [n \in Nat |-> digits[n]]
  BY <1>11
<1>14. \A n \in Nat : digits[n] \in Seq(Byte)
  <2> SUFFICES ASSUME NEW top \in Nat, digits[top] \notin Seq(Byte) PROVE FALSE
    OBVIOUS
  <2> DEFINE U == {n \in Nat : digits[n] \notin Seq(Byte)}
  <2>1. top \in U /\ U \subseteq Nat
    OBVIOUS
  <2> HIDE DEF U
  <2>2. PICK n \in U : \A i \in U : ~(<<i, n>> \in OpToRel(<, Nat))
    BY <2>1, NatLessThanWellFounded, WFMin
  <2>3. n \in Nat /\ digits[n] \notin Seq(Byte)
    BY <2>2 DEF U
  <2>4. \A i \in U : ~(i < n)
    BY <2>1, <2>2 DEF OpToRel
  <2>5. n >= 10 => digits[n \div 10] \in Seq(Byte)
    <3>1. n >= 10 => n \div 10 \in 0..(n - 1)
      BY <1>1, <2>3
    <3> QED
      BY <2>3, <2>4, <3>1 DEF U
  <2>6. digits[n] \in Seq(Byte)
    BY <1>3, <1>12, <2>3, <2>5
  <2> QED
    BY <2>3, <2>6
<1> QED
  BY <1>12, <1>13, <1>14 DEF Step

\* decimal is the last of the numbers that the digits show one after the other.
LEMMA DecimalSteps ==
  ASSUME NEW s \in Seq(Byte)
  PROVE  \E v \in [0..Len(s) -> Int] :
           /\ v[0] = 0
           /\ \A n \in 1..Len(s) : v[n] = 10 * v[n - 1] + s[n] - 48
           /\ decimal(s) = v[Len(s)]
<1> DEFINE len == Len(s)
           Step(f, n) == IF n = 0 THEN 0 ELSE 10 * f[n - 1] + s[n] - 48
           Partial(m, g) == g \in [0..m -> Int] /\ \A n \in 0..m : g[n] = Step(g, n)
           T == {m \in 0..len : \E g : Partial(m, g)}
           IsValue(f) == f = [n \in 0..len |-> Step(f, n)]
<1>1. len \in Nat /\ \A n \in 1..len : s[n] \in Int
  <2>1. len \in Nat
    BY LenProperties
  <2>2. \A n \in 1..len : s[n] \in Byte
    BY ElementOfSeq
  <2>3. \A b \in Byte : b \in Int
    BY DEF Byte
  <2> HIDE DEF len
  <2> QED
    BY <2>1, <2>2, <2>3
<1>2. decimal(s) = (CHOOSE f : IsValue(f))[len]
  BY DEF decimal
<1> HIDE DEF len
<1>3. 0 \in T
  <2> DEFINE g == [n \in 0..0 |-> 0]
  <2>1. g \in [0..0 -> Int] /\ \A n \in 0..0 : g[n] = Step(g, n)
    OBVIOUS
  <2> HIDE DEF g, Step
  <2>2. Partial(0, g)
    BY <2>1
  <2> HIDE DEF Partial
  <2> QED
    BY <1>1, <2>2
<1>4. ASSUME NEW m \in 1..len, m - 1 \in T PROVE m \in T
  <2>1. PICK g : Partial(m - 1, g)
    BY <1>4
  <2> DEFINE h == [n \in 0..m |-> IF n = m THEN Step(g, m) ELSE g[n]]
  <2>2. Step(g, m) \in Int
    <3>1. g[m - 1] \in Int /\ s[m] \in Int /\ m # 0
      BY <1>1, <2>1
    <3> QED
      BY <3>1
  <2>3. h \in [0..m -> Int]
    <3> HIDE DEF Step
    <3> QED
      BY <2>1, <2>2
  <2>4. h[m] = Step(g, m) /\ \A n \in 0..(m - 1) : h[n] = g[n]
    <3> HIDE DEF Step
    <3> QED
      OBVIOUS
  <2> HIDE DEF h
  <2>5. ASSUME NEW n \in 0..m PROVE h[n] = Step(h, n)
    <3>1. CASE n = 0
      <4>1. n \in 0..(m - 1)
        BY <1>1, <3>1
      <4> QED
        BY <2>1, <2>4, <3>1, <4>1
    <3>2. CASE n # 0
      <4>1. n - 1 \in 0..(m - 1) /\ h[n - 1] = g[n - 1]
        BY <1>1, <2>4, <3>2
      <4>2. Step(h, n) = Step(g, n)
        BY <3>2, <4>1
      <4>3. n = m \/ n \in 0..(m - 1)
        BY <1>1
      <4> HIDE DEF Step
      <4> QED
        BY <2>1, <2>4, <4>2, <4>3
    <3> QED
      BY <3>1, <3>2
  <2> HIDE DEF Step
  <2>6. Partial(m, h)
    BY <2>3, <2>5
  <2> HIDE DEF Partial
  <2>7. m \in 0..len /\ \E f : Partial(m, f)
    BY <1>1, <2>6
  <2> QED
    BY <2>7
<1>5. PICK v : Partial(len, v)
  <2> HIDE DEF T
  <2>1. len \in T
    <3>1. \A m \in 0..len : m \in T
      BY <1>1, <1>3, <1>4, UpTo
    <3> QED
      BY <1>1, <3>1
  <2> QED
    BY <2>1 DEF T
<1> DEFINE f0 == CHOOSE f : IsValue(f)
<1>6. IsValue(f0)
  <2> HIDE DEF Step
  <2>1. IsValue(v)
    BY <1>5
  <2> HIDE DEF IsValue
  <2> QED
    BY <2>1
<1> HIDE DEF f0
<1>7. \A n \in 0..len : f0[n] = Step(f0, n)
  <2> HIDE DEF Step
  <2> QED
    BY <1>6
<1> DEFINE U == {m \in 0..len : f0[m] = v[m]}
<1>8. 0 \in U
  BY <1>1, <1>5, <1>7
<1>9. ASSUME NEW m \in 1..len, m - 1 \in U PROVE m \in U
  <2>1. m \in 0..len /\ m # 0 /\ f0[m - 1] = v[m - 1]
    BY <1>1, <1>9
  <2>2. f0[m] = Step(f0, m) /\ v[m] = Step(v, m)
    BY <1>5, <1>7, <2>1
  <2> QED
    BY <2>1, <2>2
<1>10. f0[len] = v[len]
  <2> HIDE DEF U
  <2>1. \A m \in 0..len : m \in U
    BY <1>1, <1>8, <1>9, UpTo
  <2>2. len \in 0..len
    BY <1>1
  <2>3. len \in U
    BY <2>1, <2>2
  <2> QED
    BY <2>3, Zenon DEF U
<1>11. v \in [0..len -> Int] /\ v[0] = 0 /\ \A n \in 1..len : v[n] = 10 * v[n - 1] + s[n] - 48
  BY <1>1, <1>5, SMTT(30)
<1>12. decimal(s) = f0[len]
  BY <1>2 DEF f0
<1> HIDE DEF IsValue, Step
<1>13. \E g \in [0..len -> Int] :
         /\ g[0] = 0 /\ \A n \in 1..len : g[n] = 10 * g[n - 1] + s[n] - 48
         /\ decimal(s) = g[len]
  BY <1>10, <1>11, <1>12
<1> QED
  BY <1>13 DEF len

\* One digit more.
LEMMA DecimalAppend ==
  ASSUME NEW s \in Seq(Byte), NEW b \in Byte
  PROVE  decimal(s) \in Int /\ decimal(Append(s, b)) = 10 * decimal(s) + b - 48
<1> DEFINE t == Append(s, b)
           n == Len(s)
<1>1. /\ t \in Seq(Byte) /\ Len(t) = n + 1 /\ t[n + 1] = b
      /\ \A i \in 1..n : t[i] = s[i]
      /\ n \in Nat
  BY AppendProperties, LenProperties
<1>2. PICK v \in [0..n -> Int] :
        v[0] = 0 /\ (\A i \in 1..n : v[i] = 10 * v[i - 1] + s[i] - 48) /\ decimal(s) = v[n]
  BY DecimalSteps
<1> HIDE DEF t, n
<1>3. PICK w \in [0..(n + 1) -> Int] :
        w[0] = 0 /\ (\A i \in 1..(n + 1) : w[i] = 10 * w[i - 1] + t[i] - 48) /\ decimal(t) = w[n + 1]
  <2>1. PICK w \in [0..Len(t) -> Int] :
          w[0] = 0 /\ (\A i \in 1..Len(t) : w[i] = 10 * w[i - 1] + t[i] - 48) /\ decimal(t) = w[Len(t)]
    BY <1>1, DecimalSteps
  <2> QED
    BY <1>1, <2>1
<1> DEFINE U == {i \in 0..n : w[i] = v[i]}
<1>4. 0 \in U
  BY <1>1, <1>2, <1>3
<1>5. ASSUME NEW i \in 1..n, i - 1 \in U PROVE i \in U
  <2>1. i \in 0..n /\ i \in 1..(n + 1)
    BY <1>1
  <2>2. w[i - 1] = v[i - 1] /\ t[i] = s[i]
    BY <1>1, <1>5
  <2> QED
    BY <1>2, <1>3, <2>1, <2>2
<1>6. w[n] = v[n]
  <2> HIDE DEF U
  <2>1. \A i \in 0..n : i \in U
    BY <1>1, <1>4, <1>5, UpTo
  <2> QED
    BY <1>1, <2>1 DEF U
<1>7. w[n + 1] = 10 * w[n] + b - 48
  <2>1. n + 1 \in 1..(n + 1) /\ (n + 1) - 1 = n
    BY <1>1
  <2> QED
    BY <1>1, <1>3, <2>1
<1>8. v[n] \in Int
  BY <1>1, <1>2
<1> QED
  BY <1>2, <1>3, <1>6, <1>7, <1>8 DEF t

\* The digits of a number show it, and parse reads it from them.
LEMMA ParseDigits ==
  ASSUME NEW offset \in Nat, offset <= MaxUsize
  PROVE  digits[offset] \in Seq(Byte) /\ parse(digits[offset]) = offset
<1> DEFINE Shows(n) == /\ digits[n] # <<>>
                       /\ \A i \in DOMAIN digits[n] : digits[n][i] \in 48..57
                       /\ decimal(digits[n]) = n
<1>1. decimal(<<>>) = 0
  <2>1. <<>> \in Seq(Byte) /\ Len(<<>>) = 0
    OBVIOUS
  <2>2. PICK v \in [0..Len(<<>>) -> Int] : v[0] = 0 /\ decimal(<<>>) = v[Len(<<>>)]
    BY <2>1, DecimalSteps
  <2> QED
    BY <2>1, <2>2
<1>2. ASSUME NEW n \in Nat, n >= 10 => Shows(n \div 10)
      PROVE  Shows(n)
  <2>1. CASE n < 10
    <3>1. digits[n] = <<48 + n>> /\ 48 + n \in Byte /\ 48 + n \in 48..57
      <4>1. digits[n] = <<48 + n>>
        BY <2>1, DigitsStep
      <4>2. 48 + n \in Byte /\ 48 + n \in 48..57
        BY <2>1 DEF Byte
      <4> QED
        BY <4>1, <4>2
    <3>2. Append(<<>>, 48 + n) = <<48 + n>>
      OBVIOUS
    <3>3. decimal(Append(<<>>, 48 + n)) = 10 * decimal(<<>>) + (48 + n) - 48
      <4>1. <<>> \in Seq(Byte)
        OBVIOUS
      <4> QED
        BY <3>1, <4>1, DecimalAppend
    <3>4. decimal(digits[n]) = n
      BY <1>1, <3>1, <3>2, <3>3
    <3>5. DOMAIN <<48 + n>> = {1} /\ <<48 + n>>[1] = 48 + n /\ <<48 + n>> # <<>>
      OBVIOUS
    <3> QED
      BY <3>1, <3>4, <3>5
  <2>2. CASE ~(n < 10)
    <3> DEFINE q == n \div 10
               r == n % 10
               s == digits[q]
    <3>1. q \in Nat /\ r \in 0..9 /\ n = 10 * q + r
      OBVIOUS
    <3>2. Shows(q)
      BY <1>2, <2>2
    <3>3. digits[n] = Append(s, 48 + r)
      BY <2>2, DigitsStep
    <3> HIDE DEF q, r
    <3>4. s \in Seq(Byte) /\ 48 + r \in Byte /\ 48 + r \in 48..57
      <4>1. s \in Seq(Byte)
        BY <3>1, DigitsStep
      <4>2. 48 + r \in Byte /\ 48 + r \in 48..57
        BY <3>1 DEF Byte
      <4> QED
        BY <4>1, <4>2
    <3>5. decimal(s) = q /\ \A i \in DOMAIN s : s[i] \in 48..57
      BY <3>2
    <3> HIDE DEF s, Shows
    <3>6. decimal(Append(s, 48 + r)) = 10 * q + (48 + r) - 48
      BY <3>4, <3>5, DecimalAppend
    <3>7. /\ Append(s, 48 + r) # <<>>
          /\ \A i \in DOMAIN Append(s, 48 + r) : Append(s, 48 + r)[i] \in 48..57
      <4> DEFINE b == 48 + r
                 t == Append(s, b)
                 k == Len(s)
      <4>1. b \in Byte /\ b \in 48..57
        BY <3>4
      <4> HIDE DEF b
      <4>2. /\ t \in Seq(Byte) /\ Len(t) = k + 1 /\ t[k + 1] = b /\ \A i \in 1..k : t[i] = s[i]
            /\ k \in Nat /\ DOMAIN s = 1..k
        BY <3>4, <4>1, AppendProperties, LenProperties
      <4> HIDE DEF t, k
      <4>3. DOMAIN t = 1..(k + 1) /\ t # <<>>
        BY <4>2, LenProperties
      <4>4. ASSUME NEW i \in 1..(k + 1) PROVE t[i] \in 48..57
        <5>1. CASE i \in 1..k
          <6>1. s[i] \in 48..57
            BY <3>5, <4>2, <5>1
          <6> QED
            BY <4>2, <5>1, <6>1
        <5>2. CASE i \notin 1..k
          <6>1. i = k + 1
            BY <4>2, <5>2
          <6> QED
            BY <4>1, <4>2, <6>1
        <5> QED
          BY <5>1, <5>2
      <4> QED
        BY <4>3, <4>4 DEF t, b
    <3>8. decimal(Append(s, 48 + r)) = n
      BY <3>1, <3>6
    <3> QED
      BY <3>3, <3>7, <3>8 DEF Shows
  <2> QED
    BY <2>1, <2>2
<1> HIDE DEF Shows
<1>3. Shows(offset)
  <2> SUFFICES ASSUME ~Shows(offset) PROVE FALSE
    OBVIOUS
  <2> DEFINE U == {n \in Nat : ~Shows(n)}
  <2>1. offset \in U /\ U \subseteq Nat
    OBVIOUS
  <2> HIDE DEF U
  <2>2. PICK n \in U : \A i \in U : ~(<<i, n>> \in OpToRel(<, Nat))
    BY <2>1, NatLessThanWellFounded, WFMin
  <2>3. n \in Nat /\ ~Shows(n)
    BY <2>2 DEF U
  <2>4. \A i \in U : ~(i < n)
    BY <2>1, <2>2 DEF OpToRel
  <2>5. n >= 10 => Shows(n \div 10)
    <3> DEFINE q == n \div 10
    <3>1. n >= 10 => q \in Nat /\ q < n
      BY <2>3
    <3> HIDE DEF q
    <3>2. n >= 10 => Shows(q)
      BY <2>4, <3>1 DEF U
    <3> QED
      BY <3>2 DEF q
  <2> QED
    BY <1>2, <2>3, <2>5
<1>4. digits[offset] \in Seq(Byte)
  BY DigitsStep
<1> DEFINE s == digits[offset]
<1>5. s \in Seq(Byte) /\ s # <<>> /\ (\A i \in DOMAIN s : s[i] \in 48..57) /\ decimal(s) = offset
  BY <1>3, <1>4 DEF Shows
<1> HIDE DEF s
<1>6. s[1] # 43
  <2>1. 1 \in DOMAIN s
    BY <1>5
  <2> QED
    BY <1>5, <2>1
<1>7. parse(s) = offset
  BY <1>5, <1>6 DEF parse
<1> QED
  BY <1>4, <1>7 DEF s

Sextet == 0..63

\* What is known of a sequence that is cut out of another.
LEMMA Cut ==
  ASSUME NEW S, NEW s \in Seq(S), NEW a \in 1..(Len(s) + 1), NEW b \in (a - 1)..Len(s)
  PROVE  /\ SubSeq(s, a, b) \in Seq(S)
         /\ Len(SubSeq(s, a, b)) = b - a + 1
         /\ \A i \in 1..(b - a + 1) : SubSeq(s, a, b)[i] = s[a + i - 1]
<1>1. Len(s) \in Nat /\ \A i \in 1..Len(s) : s[i] \in S
  BY LenProperties, ElementOfSeq
<1>2. a \in Int /\ b \in Int /\ (\A i \in a..b : s[i] \in S) /\ b - a + 1 \in Nat
  BY <1>1
<1>3. SubSeq(s, a, b) \in Seq(S) /\ \A i \in 1..(b - a + 1) : SubSeq(s, a, b)[i] = s[a + i - 1]
  BY <1>2, SubSeqProperties
<1>4. Len(SubSeq(s, a, b)) = IF a <= b THEN b - a + 1 ELSE 0
  BY <1>2, SubSeqProperties
<1> QED
  BY <1>1, <1>2, <1>3, <1>4

\* The four sextets of a number of 24 bits show it.
LEMMA Bits ==
  ASSUME NEW n \in Nat, n < 16777216
  PROVE  /\ (n \div 262144) * 262144 + ((n \div 4096) % 64) * 4096 + ((n \div 64) % 64) * 64 + (n % 64) = n
         /\ n \div 262144 \in Sextet /\ (n \div 4096) % 64 \in Sextet
         /\ (n \div 64) % 64 \in Sextet /\ n % 64 \in Sextet
<1> DEFINE q1 == n \div 64
           q2 == n \div 4096
           q3 == n \div 262144
           r0 == n % 64
           r1 == q1 % 64
           r2 == q2 % 64
<1>1. n = 64 * q1 + r0 /\ q1 = 64 * q2 + r1 /\ q2 = 64 * q3 + r2
  BY SMT
<1>2. r0 \in 0..63 /\ r1 \in 0..63 /\ r2 \in 0..63
  BY SMT
<1>3. q1 \in Nat /\ q2 \in Nat /\ q3 \in Nat
  BY SMT
<1> HIDE DEF q1, q2, q3, r0, r1, r2
<1>4. q3 * 262144 + r2 * 4096 + r1 * 64 + r0 = n
  BY <1>1, <1>2, <1>3, SMT
<1>5. q3 < 64
  BY <1>2, <1>3, <1>4, SMT
<1> QED
  BY <1>2, <1>3, <1>4, <1>5, SMT DEF q1, q2, q3, r0, r1, r2, Sextet

\* What a chunk is encoded to is one character longer, and is decoded to the chunk.
LEMMA ChunkRoundTrip ==
  ASSUME NEW b \in Seq(Byte), Len(b) \in 1..3
  PROVE  /\ encode_chunk(b) \in Seq(Sextet)
         /\ Len(encode_chunk(b)) = Len(b) + 1
         /\ decode_chunk(encode_chunk(b)) = b
<1> DEFINE byte(i) == IF i <= Len(b) THEN b[i] ELSE 0
           b1 == byte(1)
           b2 == byte(2)
           b3 == byte(3)
           n == b1 * 65536 + b2 * 256 + b3
           e1 == n \div 262144
           e2 == (n \div 4096) % 64
           e3 == (n \div 64) % 64
           e4 == n % 64
           four == <<e1, e2, e3, e4>>
           e == encode_chunk(b)
<1>1. b1 \in 0..255 /\ b2 \in 0..255 /\ b3 \in 0..255
  <2>1. \A i \in 1..Len(b) : b[i] \in Byte
    BY ElementOfSeq
  <2> QED
    BY <2>1 DEF Byte
<1>2. /\ b1 = b[1] /\ (Len(b) >= 2 => b2 = b[2]) /\ (Len(b) = 3 => b3 = b[3])
      /\ (Len(b) <= 1 => b2 = 0) /\ (Len(b) <= 2 => b3 = 0)
  OBVIOUS
<1>3. e = SubSeq(four, 1, Len(b) + 1)
  BY DEF encode_chunk
<1> HIDE DEF b1, b2, b3, e
<1>4. n \in Nat /\ n < 16777216
  BY <1>1, SMT
<1>5. /\ n \div 65536 = b1 /\ (n \div 256) % 256 = b2 /\ n % 256 = b3
      /\ Len(b) <= 2 => n % 64 = 0
      /\ Len(b) <= 1 => (n \div 64) % 64 = 0
  <2>1. b1 \in Nat /\ b1 < 256 /\ b2 \in Nat /\ b2 < 256 /\ b3 \in Nat /\ b3 < 256
    BY <1>1
  <2>2. n % 256 = b3 /\ n \div 256 = 256 * b1 + b2
    BY <2>1, SMT
  <2>3. (256 * b1 + b2) % 256 = b2
    BY <2>1, SMT
  <2>4. n \div 65536 = b1
    BY <2>1, SMT
  <2>5. b3 = 0 => n % 64 = 0
    BY <2>1, SMT
  <2>6. (b2 = 0 /\ b3 = 0) => (n \div 64) % 64 = 0
    <3>1. (b2 = 0 /\ b3 = 0) => n = 64 * (1024 * b1)
      BY <2>1, SMT
    <3>2. (64 * (1024 * b1)) \div 64 = 1024 * b1 /\ (1024 * b1) % 64 = 0
      BY <2>1, SMT
    <3> HIDE DEF n
    <3> QED
      BY <3>1, <3>2
  <2>7. Len(b) <= 1 => Len(b) <= 2
    OBVIOUS
  <2> HIDE DEF n
  <2> QED
    BY <1>2, <2>2, <2>3, <2>4, <2>5, <2>6, <2>7
<1> HIDE DEF n
<1>6. /\ e1 \in Sextet /\ e2 \in Sextet /\ e3 \in Sextet /\ e4 \in Sextet
      /\ e1 * 262144 + e2 * 4096 + e3 * 64 + e4 = n
  BY <1>4, Bits
<1>7. (Len(b) <= 2 => e4 = 0) /\ (Len(b) <= 1 => e3 = 0)
  BY <1>5
<1> HIDE DEF e1, e2, e3, e4
<1>8. four \in Seq(Sextet) /\ Len(four) = 4
      /\ four[1] = e1 /\ four[2] = e2 /\ four[3] = e3 /\ four[4] = e4
  BY <1>6
<1> HIDE DEF four
<1>9. /\ e \in Seq(Sextet) /\ Len(e) = Len(b) + 1
      /\ \A i \in 1..(Len(b) + 1) : e[i] = four[i]
  <2> DEFINE k == Len(b) + 1
  <2>1. k \in 2..4
    <3> DEFINE len == Len(b)
    <3>1. len \in 1..3
      OBVIOUS
    <3> HIDE DEF len
    <3>2. len + 1 \in 2..4
      BY <3>1
    <3> QED
      BY <3>2 DEF len
  <2> HIDE DEF k
  <2>2. 1 \in 1..(Len(four) + 1) /\ k \in (1 - 1)..Len(four)
    BY <1>8, <2>1
  <2>3. /\ SubSeq(four, 1, k) \in Seq(Sextet)
        /\ Len(SubSeq(four, 1, k)) = k - 1 + 1
        /\ \A i \in 1..(k - 1 + 1) : SubSeq(four, 1, k)[i] = four[1 + i - 1]
    BY <1>8, <2>2, Cut
  <2>4. e = SubSeq(four, 1, k)
    BY <1>3 DEF k
  <2>5. k - 1 + 1 = k /\ \A i \in 1..k : 1 + i - 1 = i
    BY <2>1
  <2>6. e \in Seq(Sextet) /\ Len(e) = k /\ \A i \in 1..k : e[i] = four[i]
    BY <2>3, <2>4, <2>5
  <2> QED
    BY <2>6 DEF k
<1> DEFINE sextet(i) == IF i <= Len(e) THEN e[i] ELSE 0
<1>10. sextet(1) = e1 /\ sextet(2) = e2 /\ sextet(3) = e3 /\ sextet(4) = e4
  BY <1>7, <1>8, <1>9
<1> DEFINE m == sextet(1) * 262144 + sextet(2) * 4096 + sextet(3) * 64 + sextet(4)
           three == <<m \div 65536, (m \div 256) % 256, m % 256>>
<1>11. m = n
  BY <1>6, <1>10
<1>12. decode_chunk(e) = SubSeq(three, 1, IF Len(e) = 1 THEN 1 ELSE Len(e) - 1)
  BY DEF decode_chunk
<1> HIDE DEF m
<1>13. three = <<b1, b2, b3>>
  BY <1>5, <1>11
<1> HIDE DEF three
<1>14. /\ three \in Seq(Byte) /\ Len(three) = 3
       /\ three[1] = b1 /\ three[2] = b2 /\ three[3] = b3
  <2>1. b1 \in Byte /\ b2 \in Byte /\ b3 \in Byte
    BY <1>1 DEF Byte
  <2> QED
    BY <1>13, <2>1
<1>15. decode_chunk(e) = SubSeq(three, 1, Len(b))
  BY <1>9, <1>12
<1>16. /\ SubSeq(three, 1, Len(b)) \in Seq(Byte)
       /\ Len(SubSeq(three, 1, Len(b))) = Len(b)
       /\ \A i \in 1..Len(b) : SubSeq(three, 1, Len(b))[i] = three[i]
  <2> DEFINE k == Len(b)
             l == Len(three)
  <2>1. 1 \in 1..(l + 1) /\ k \in (1 - 1)..l /\ k \in Nat
    BY <1>14
  <2> HIDE DEF k
  <2>2. /\ SubSeq(three, 1, k) \in Seq(Byte)
        /\ Len(SubSeq(three, 1, k)) = k - 1 + 1
        /\ \A i \in 1..(k - 1 + 1) : SubSeq(three, 1, k)[i] = three[1 + i - 1]
    BY <1>14, <2>1, Cut
  <2>3. k - 1 + 1 = k /\ \A i \in 1..k : 1 + i - 1 = i
    BY <2>1
  <2>4. /\ SubSeq(three, 1, k) \in Seq(Byte) /\ Len(SubSeq(three, 1, k)) = k
        /\ \A i \in 1..k : SubSeq(three, 1, k)[i] = three[i]
    BY <2>2, <2>3
  <2> QED
    BY <2>4 DEF k
<1>17. \A i \in 1..Len(b) : three[i] = b[i]
  BY <1>2, <1>14
<1> DEFINE d == SubSeq(three, 1, Len(b))
<1> HIDE DEF d
<1>18. d = b
  BY <1>16, <1>17, SeqEqual DEF d
<1> QED
  BY <1>9, <1>15, <1>18 DEF e, d

\* How many chunks of four a length comes to.
LEMMA Quarters ==
  ASSUME NEW k \in Nat, k > 0, NEW r \in 1..4, NEW len, len = 4 * (k - 1) + r
  PROVE  (len + 4 - 1) \div 4 = k
BY SMT

\* Sequences of four entries each but for the last, which has one at least, are the chunks
\* of four of what they make.
LEMMA ChunksOfFlatten ==
  ASSUME NEW S, NEW seqs \in Seq(Seq(S)),
         \A i \in 1..Len(seqs) : Len(seqs[i]) \in 1..4 /\ (i < Len(seqs) => Len(seqs[i]) = 4)
  PROVE  chunks(FlattenSeq(seqs), 4) = seqs
<1> DEFINE k == Len(seqs)
           F == FlattenSeq(seqs)
<1>1. PICK flat \in [0..k -> Seq(S)] :
        /\ flat[0] = <<>>
        /\ \A i \in 1..k : flat[i] = flat[i - 1] \o seqs[i]
        /\ F = flat[k]
  BY FlattenSteps
<1>2. k \in Nat /\ (\A i \in 1..k : seqs[i] \in Seq(S)) /\ seqs = [i \in 1..k |-> seqs[i]]
  <2>1. k \in Nat /\ DOMAIN seqs = 1..k
    BY LenProperties
  <2>2. \A i \in 1..k : seqs[i] \in Seq(S)
    BY ElementOfSeq
  <2>3. seqs = [i \in DOMAIN seqs |-> seqs[i]]
    BY LenProperties
  <2> QED
    BY <2>1, <2>2, <2>3
<1>3. \A i \in 1..k : Len(seqs[i]) \in 1..4 /\ (i < k => Len(seqs[i]) = 4)
  OBVIOUS
<1>4. F \in Seq(S)
  BY FlattenType
<1> HIDE DEF k, F
<1> DEFINE T == {m \in 0..k :
                   /\ m < k => Len(flat[m]) = 4 * m
                   /\ m = k /\ m > 0 => Len(flat[m]) = 4 * (m - 1) + Len(seqs[m])
                   /\ m = 0 => Len(flat[m]) = 0
                   /\ \A i \in 1..m : \A j \in 1..Len(seqs[i]) : flat[m][4 * (i - 1) + j] = seqs[i][j]}
<1>5. 0 \in T
  BY <1>1, <1>2
<1>6. ASSUME NEW m \in 1..k, m - 1 \in T PROVE m \in T
  <2>1. m \in 0..k /\ m - 1 \in 0..k /\ m - 1 < k /\ m \in Nat
    BY <1>2
  <2> DEFINE g == flat[m - 1]
             s == seqs[m]
             h == flat[m]
  <2>2. g \in Seq(S) /\ s \in Seq(S) /\ h = g \o s
    BY <1>1, <1>2, <2>1
  <2>3. Len(g) = 4 * (m - 1) /\ \A i \in 1..(m - 1) : \A j \in 1..Len(seqs[i]) : g[4 * (i - 1) + j] = seqs[i][j]
    BY <1>6, <2>1
  <2>4. Len(s) \in 1..4 /\ (m < k => Len(s) = 4)
    BY <1>3
  <2>5. \A i \in 1..(m - 1) : Len(seqs[i]) \in 1..4
    BY <1>2, <1>3
  <2> HIDE DEF T, g, s, h
  <2>6. /\ Len(h) = Len(g) + Len(s)
        /\ \A i \in 1..(Len(g) + Len(s)) : h[i] = IF i <= Len(g) THEN g[i] ELSE s[i - Len(g)]
    BY <2>2, ConcatProperties
  <2>7. Len(h) = 4 * (m - 1) + Len(s)
    BY <2>3, <2>6
  <2>8. m < k => Len(h) = 4 * m
    <3> DEFINE x == Len(h)
               y == Len(s)
    <3>1. x = 4 * (m - 1) + y /\ (m < k => y = 4)
      BY <2>4, <2>7
    <3> HIDE DEF x, y
    <3>2. m < k => x = 4 * m
      BY <2>1, <3>1
    <3> QED
      BY <3>2 DEF x
  <2>9. ASSUME NEW i \in 1..(m - 1), NEW j \in 1..Len(seqs[i])
        PROVE  h[4 * (i - 1) + j] = seqs[i][j]
    <3> DEFINE at == 4 * (i - 1) + j
    <3> DEFINE r == Len(seqs[i])
    <3>0. r \in 1..4 /\ j \in 1..r
      BY <2>5
    <3> HIDE DEF r
    <3>1. j \in 1..4
      BY <3>0
    <3>2. at \in 1..(4 * (m - 1))
      BY <2>1, <3>1
    <3>3. g[at] = seqs[i][j]
      BY <2>3
    <3> HIDE DEF at
    <3>4. h[at] = g[at]
      BY <2>1, <2>3, <2>4, <2>6, <3>2
    <3> QED
      BY <3>3, <3>4 DEF at
  <2>10. ASSUME NEW j \in 1..Len(s)
         PROVE  h[4 * (m - 1) + j] = s[j]
    <3>1. 4 * (m - 1) + j \in 1..(Len(g) + Len(s)) /\ ~(4 * (m - 1) + j <= Len(g))
          /\ 4 * (m - 1) + j - Len(g) = j
      BY <2>1, <2>3, <2>4
    <3> QED
      BY <2>6, <3>1, SMTT(30)
  <2>11. \A i \in 1..m : \A j \in 1..Len(seqs[i]) : h[4 * (i - 1) + j] = seqs[i][j]
    <3> SUFFICES ASSUME NEW i \in 1..m, NEW j \in 1..Len(seqs[i]) PROVE h[4 * (i - 1) + j] = seqs[i][j]
      OBVIOUS
    <3>1. CASE i = m
      BY <2>10, <3>1 DEF s
    <3>2. CASE i # m
      <4>1. i \in 1..(m - 1)
        BY <2>1, <3>2
      <4> QED
        BY <2>9, <4>1
    <3> QED
      BY <3>1, <3>2
  <2>12. m # 0
    BY <2>1
  <2> QED
    BY <2>1, <2>7, <2>8, <2>11, <2>12 DEF T, h, s
<1>7. k \in T
  <2> HIDE DEF T
  <2>1. \A m \in 0..k : m \in T
    BY <1>2, <1>5, <1>6, UpTo
  <2> QED
    BY <1>2, <2>1
<1> DEFINE L == Len(F)
<1>8. /\ k > 0 => L = 4 * (k - 1) + Len(seqs[k])
      /\ k = 0 => L = 0
      /\ \A i \in 1..k : \A j \in 1..Len(seqs[i]) : F[4 * (i - 1) + j] = seqs[i][j]
  BY <1>1, <1>7
<1> HIDE DEF T
<1>9. k > 0 => Len(seqs[k]) \in 1..4
  <2>1. k > 0 => k \in 1..k
    BY <1>2
  <2> QED
    BY <1>3, <2>1
<1> HIDE DEF L
<1>10. (L + 4 - 1) \div 4 = k
  <2>1. k = 0 => (L + 4 - 1) \div 4 = k
    BY <1>8
  <2> DEFINE r == Len(seqs[k])
  <2>2. k > 0 => r \in 1..4 /\ L = 4 * (k - 1) + r
    BY <1>8, <1>9
  <2> HIDE DEF r
  <2>3. k > 0 => (L + 4 - 1) \div 4 = k
    BY <1>2, <2>2, Quarters
  <2> QED
    BY <1>2, <2>1, <2>3
<1> DEFINE end(i) == IF 4 * i < L THEN 4 * i ELSE L
<1>11. ASSUME NEW i \in 1..k PROVE SubSeq(F, 4 * (i - 1) + 1, end(i)) = seqs[i]
  <2> DEFINE r == Len(seqs[i])
             rk == Len(seqs[k])
             a == 4 * (i - 1) + 1
             b == end(i)
             c == SubSeq(F, a, b)
  <2>1. r \in 1..4 /\ (i < k => r = 4) /\ rk \in 1..4 /\ L = 4 * (k - 1) + rk /\ (i = k => r = rk)
    BY <1>2, <1>3, <1>8, <1>9
  <2>2. seqs[i] \in Seq(S) /\ \A j \in 1..r : F[4 * (i - 1) + j] = seqs[i][j]
    BY <1>2, <1>8
  <2> HIDE DEF r, rk
  <2>3. i \in Nat /\ k \in Nat /\ i >= 1 /\ i <= k
    BY <1>2
  <2>5. b = 4 * (i - 1) + r /\ b <= L /\ L \in Nat
    <3>1. CASE i < k
      BY <2>1, <2>3, <3>1
    <3>2. CASE i = k
      BY <2>1, <2>3, <3>2
    <3> QED
      BY <2>3, <3>1, <3>2
  <2> HIDE DEF b
  <2>6. a \in 1..(L + 1) /\ b \in (a - 1)..L /\ b - a + 1 = r
    BY <2>1, <2>3, <2>5
  <2>7. \A j \in 1..r : a + j - 1 = 4 * (i - 1) + j
    BY <2>1, <2>3
  <2> HIDE DEF a, c
  <2>8. /\ c \in Seq(S) /\ Len(c) = b - a + 1
        /\ \A j \in 1..(b - a + 1) : c[j] = F[a + j - 1]
    BY <1>4, <2>6, Cut DEF L, c
  <2>9. Len(c) = r /\ \A j \in 1..r : c[j] = seqs[i][j]
    BY <2>2, <2>6, <2>7, <2>8
  <2>10. c = seqs[i]
    BY <2>2, <2>8, <2>9, SeqEqual DEF r
  <2> QED
    BY <2>10 DEF a, b, c
<1>12. chunks(F, 4) = [i \in 1..k |-> SubSeq(F, 4 * (i - 1) + 1, end(i))]
  BY <1>10 DEF chunks, L
<1> HIDE DEF end
<1>13. chunks(F, 4) = [i \in 1..k |-> seqs[i]]
  BY <1>11, <1>12
<1> QED
  BY <1>2, <1>13 DEF F

\* The chunks of three of a sequence make it up, and each has one entry at least.
LEMMA FlattenOfChunks ==
  ASSUME NEW S, NEW s \in Seq(S)
  PROVE  /\ chunks(s, 3) \in Seq(Seq(S))
         /\ \A i \in 1..Len(chunks(s, 3)) :
              Len(chunks(s, 3)[i]) \in 1..3 /\ (i < Len(chunks(s, 3)) => Len(chunks(s, 3)[i]) = 3)
         /\ FlattenSeq(chunks(s, 3)) = s
<1> DEFINE L == Len(s)
           k == (L + 3 - 1) \div 3
           end(i) == IF 3 * i < L THEN 3 * i ELSE L
           c == chunks(s, 3)
<1>1. L \in Nat /\ k \in Nat /\ (k = 0 => L = 0) /\ (k > 0 => 3 * (k - 1) < L) /\ L <= 3 * k
  <2>1. L \in Nat
    BY LenProperties
  <2> HIDE DEF L
  <2> QED
    BY <2>1
<1>2. c = [i \in 1..k |-> SubSeq(s, 3 * (i - 1) + 1, end(i))]
  BY DEF chunks
<1> HIDE DEF k
<1>3. ASSUME NEW i \in 1..k
      PROVE  /\ c[i] \in Seq(S) /\ Len(c[i]) \in 1..3 /\ (i < k => Len(c[i]) = 3)
             /\ Len(c[i]) = end(i) - 3 * (i - 1)
             /\ \A j \in 1..Len(c[i]) : c[i][j] = s[3 * (i - 1) + j]
  <2> DEFINE a == 3 * (i - 1) + 1
             b == end(i)
             p == SubSeq(s, a, b)
  <2>1. c[i] = p
    BY <1>2
  <2>2. i \in Nat /\ i >= 1 /\ i <= k /\ 3 * (k - 1) < L /\ L <= 3 * k
    BY <1>1
  <2> HIDE DEF L, c
  <2>3. 3 * (i - 1) < L /\ (i < k => 3 * i < L)
    BY <1>1, <2>2
  <2>4. a \in 1..(L + 1) /\ b \in (a - 1)..L /\ b - a + 1 \in 1..3
        /\ (i < k => b - a + 1 = 3) /\ b - a + 1 = b - 3 * (i - 1)
    BY <1>1, <2>2, <2>3
  <2>5. \A j \in 1..3 : a + j - 1 = 3 * (i - 1) + j
    BY <2>2
  <2> HIDE DEF a, b, p
  <2>6. p \in Seq(S) /\ Len(p) = b - a + 1 /\ \A j \in 1..(b - a + 1) : p[j] = s[a + j - 1]
    BY <2>4, Cut DEF L, p
  <2>7. \A j \in 1..Len(p) : p[j] = s[3 * (i - 1) + j]
    <3>1. \A j \in 1..Len(p) : j \in 1..3 /\ j \in 1..(b - a + 1)
      BY <2>4, <2>6
    <3> QED
      BY <2>5, <2>6, <3>1
  <2>8. Len(p) \in 1..3 /\ (i < k => Len(p) = 3) /\ Len(p) = b - 3 * (i - 1)
    BY <2>4, <2>6
  <2> QED
    BY <2>1, <2>6, <2>7, <2>8 DEF b
<1>4. c \in Seq(Seq(S)) /\ Len(c) = k
  <2>1. c = [i \in 1..k |-> c[i]]
    BY <1>2
  <2>2. \A i \in 1..k : c[i] \in Seq(S)
    BY <1>3
  <2> HIDE DEF c
  <2>3. c \in [1..k -> Seq(S)]
    BY <2>1, <2>2
  <2> QED
    BY <1>1, <2>3
<1> HIDE DEF c
<1>5. PICK flat \in [0..k -> Seq(S)] :
        /\ flat[0] = <<>>
        /\ \A i \in 1..k : flat[i] = flat[i - 1] \o c[i]
        /\ FlattenSeq(c) = flat[k]
  <2>1. PICK flat \in [0..Len(c) -> Seq(S)] :
          /\ flat[0] = <<>>
          /\ \A i \in 1..Len(c) : flat[i] = flat[i - 1] \o c[i]
          /\ FlattenSeq(c) = flat[Len(c)]
    BY <1>4, FlattenSteps
  <2> QED
    BY <1>4, <2>1
<1> HIDE DEF L
<1> DEFINE T == {m \in 0..k : Len(flat[m]) = end(m) /\ \A j \in 1..end(m) : flat[m][j] = s[j]}
<1>6. 0 \in T
  BY <1>1, <1>5
<1>7. ASSUME NEW m \in 1..k, m - 1 \in T PROVE m \in T
  <2>1. m \in 0..k /\ m - 1 \in 0..k /\ m \in Nat /\ m >= 1 /\ m <= k
    BY <1>1
  <2> DEFINE g == flat[m - 1]
             p == c[m]
             h == flat[m]
             n == Len(p)
             e == end(m)
  <2>2. end(m - 1) = 3 * (m - 1)
    <3>1. 3 * (m - 1) < L
      BY <1>1, <2>1
    <3> QED
      BY <3>1
  <2>3. g \in Seq(S) /\ p \in Seq(S) /\ h = g \o p
    BY <1>3, <1>5, <2>1
  <2>4. Len(g) = 3 * (m - 1) /\ \A j \in 1..(3 * (m - 1)) : g[j] = s[j]
    BY <1>7, <2>2
  <2>5. n \in 1..3 /\ n = e - 3 * (m - 1) /\ \A j \in 1..n : p[j] = s[3 * (m - 1) + j]
    BY <1>3
  <2>6. e \in Nat
    BY <1>1, <2>1
  <2> HIDE DEF T, g, h, p, e
  <2>7. /\ Len(h) = Len(g) + n
        /\ \A i \in 1..(Len(g) + n) : h[i] = IF i <= Len(g) THEN g[i] ELSE p[i - Len(g)]
    BY <2>3, ConcatProperties
  <2> HIDE DEF n
  <2>8. Len(h) = e
    BY <2>1, <2>4, <2>5, <2>6, <2>7
  <2>9. ASSUME NEW j \in 1..e PROVE h[j] = s[j]
    <3>1. j \in 1..(Len(g) + n)
      BY <2>1, <2>4, <2>5, <2>6
    <3>2. CASE j <= Len(g)
      <4>1. j \in 1..(3 * (m - 1))
        BY <2>1, <2>4, <2>6, <3>2
      <4> QED
        BY <2>4, <2>7, <3>1, <3>2, <4>1
    <3>3. CASE ~(j <= Len(g))
      <4> DEFINE i == j - Len(g)
      <4>1. i \in 1..n /\ 3 * (m - 1) + i = j
        BY <2>1, <2>4, <2>5, <2>6, <3>3
      <4>2. h[j] = p[i]
        BY <2>7, <3>1, <3>3
      <4> HIDE DEF i
      <4> QED
        BY <2>5, <4>1, <4>2
    <3> QED
      BY <3>2, <3>3
  <2> QED
    BY <2>1, <2>8, <2>9 DEF T, h, e
<1>8. k \in T
  <2> HIDE DEF T
  <2>1. \A m \in 0..k : m \in T
    BY <1>1, <1>6, <1>7, UpTo
  <2> QED
    BY <1>1, <2>1
<1> DEFINE F == FlattenSeq(c)
<1>9. end(k) = L
  BY <1>1
<1>10. Len(F) = L /\ \A j \in 1..L : F[j] = s[j]
  BY <1>5, <1>8, <1>9
<1>11. F \in Seq(S)
  BY <1>4, FlattenType
<1> HIDE DEF F, T, end
<1>12. F = s
  BY <1>10, <1>11, SeqEqual DEF L
<1> QED
  BY <1>3, <1>4, <1>12 DEF c, F

\* A token that the server makes of an offset consists of characters of the alphabet, and
\* it is read back as that offset, however large: it is neither empty, malformed nor left out.
THEOREM CursorRoundTrip ==
  ASSUME NEW offset \in Nat, offset <= MaxUsize
  PROVE  /\ from_offset(offset) \in Seq(Sextet)
         /\ from_offset(offset) # <<>> /\ from_offset(offset) # NoCursor
         /\ offset_of(from_offset(offset)) = offset
<1> DEFINE s == digits[offset]
           c == chunks(s, 3)
           n == Len(c)
           coded == [i \in DOMAIN c |-> encode_chunk(c[i])]
           token == FlattenSeq(coded)
<1>1. s \in Seq(Byte) /\ parse(s) = offset
  BY ParseDigits
<1>2. from_offset(offset) = token
  BY DEF from_offset, base64_encode
<1> HIDE DEF s
<1>3. /\ c \in Seq(Seq(Byte))
      /\ \A i \in 1..n : Len(c[i]) \in 1..3 /\ (i < n => Len(c[i]) = 3)
      /\ FlattenSeq(c) = s
  BY <1>1, FlattenOfChunks
<1> HIDE DEF c
<1>4. n \in Nat /\ DOMAIN c = 1..n /\ c = [i \in 1..n |-> c[i]] /\ \A i \in 1..n : c[i] \in Seq(Byte)
  <2>1. n \in Nat /\ DOMAIN c = 1..n
    BY <1>3, LenProperties
  <2>2. \A i \in 1..n : c[i] \in Seq(Byte)
    BY <1>3, ElementOfSeq
  <2>3. c = [i \in DOMAIN c |-> c[i]]
    BY <1>3, LenProperties
  <2> QED
    BY <2>1, <2>2, <2>3
<1>5. \A i \in 1..n : /\ encode_chunk(c[i]) \in Seq(Sextet)
                      /\ Len(encode_chunk(c[i])) = Len(c[i]) + 1
                      /\ decode_chunk(encode_chunk(c[i])) = c[i]
  BY <1>3, <1>4, ChunkRoundTrip
<1> HIDE DEF n
<1>6. coded = [i \in 1..n |-> encode_chunk(c[i])]
  BY <1>4
<1> HIDE DEF coded
<1>7. coded \in Seq(Seq(Sextet)) /\ Len(coded) = n /\ \A i \in 1..n : coded[i] = encode_chunk(c[i])
  <2>1. coded \in [1..n -> Seq(Sextet)]
    BY <1>5, <1>6
  <2> QED
    BY <1>4, <1>6, <2>1
<1>8. \A i \in 1..n : Len(coded[i]) \in 1..4 /\ (i < n => Len(coded[i]) = 4)
  <2> SUFFICES ASSUME NEW i \in 1..n PROVE Len(coded[i]) \in 1..4 /\ (i < n => Len(coded[i]) = 4)
    OBVIOUS
  <2>1. Len(coded[i]) = Len(c[i]) + 1
    BY <1>5, <1>7
  <2>2. Len(c[i]) \in 1..3 /\ (i < n => Len(c[i]) = 3)
    BY <1>3
  <2> DEFINE x == Len(coded[i])
             y == Len(c[i])
  <2>3. x = y + 1 /\ y \in 1..3 /\ (i < n => y = 3)
    BY <2>1, <2>2
  <2> HIDE DEF x, y
  <2>4. x \in 1..4 /\ (i < n => x = 4)
    BY <2>3
  <2> QED
    BY <2>4 DEF x
<1>9. token \in Seq(Sextet) /\ chunks(token, 4) = coded
  <2>1. \A i \in 1..Len(coded) : Len(coded[i]) \in 1..4 /\ (i < Len(coded) => Len(coded[i]) = 4)
    BY <1>7, <1>8
  <2> QED
    BY <1>7, <2>1, FlattenType, ChunksOfFlatten
<1> HIDE DEF token
<1>10. base64_decode(token) = s
  <2>1. base64_decode(token) = FlattenSeq([i \in DOMAIN coded |-> decode_chunk(coded[i])])
    BY <1>9 DEF base64_decode
  <2>2. [i \in DOMAIN coded |-> decode_chunk(coded[i])] = c
    <3>1. DOMAIN coded = 1..n
      BY <1>6
    <3>2. \A i \in 1..n : decode_chunk(coded[i]) = c[i]
      BY <1>5, <1>7
    <3> QED
      BY <1>4, <3>1, <3>2
  <2> QED
    BY <1>3, <2>1, <2>2
<1>11. \A i \in DOMAIN token : token[i] # NotB64
  <2>1. \A i \in DOMAIN token : token[i] \in Sextet
    BY <1>9, LenProperties, ElementOfSeq
  <2>2. NotB64 \notin Sextet
    BY DEF Sextet, NotB64
  <2> QED
    BY <2>1, <2>2
<1>12. offset_of(token) = offset
  BY <1>1, <1>10, <1>11 DEF offset_of
<1>13. token # <<>>
  <2> SUFFICES ASSUME token = <<>> PROVE FALSE
    OBVIOUS
  <2>1. coded = <<>>
    <3>1. chunks(<<>>, 4) = [i \in 1..0 |-> SubSeq(<<>>, 4 * (i - 1) + 1, IF 4 * i < 0 THEN 4 * i ELSE 0)]
      BY DEF chunks
    <3>2. DOMAIN coded = {}
      BY <1>9, <3>1
    <3> QED
      BY <1>7, <3>2, LenProperties, EmptySeq
  <2>2. n = 0
    BY <1>7, <2>1
  <2>3. c = <<>>
    BY <1>3, <2>2, EmptySeq DEF n
  <2>4. s = <<>>
    BY <1>3, <2>3 DEF FlattenSeq
  <2>5. parse(<<>>) = Malformed
    BY DEF parse
  <2> QED
    BY <1>1, <2>4, <2>5 DEF Malformed
<1>14. token # NoCursor
  <2>1. \A i \in DOMAIN token : token[i] \in Sextet
    BY <1>9, LenProperties, ElementOfSeq
  <2>2. 1 \in DOMAIN NoCursor /\ NoCursor[1] \notin Sextet
    BY DEF NoCursor, Sextet
  <2> QED
    BY <2>1, <2>2
<1> QED
  BY <1>2, <1>9, <1>12, <1>13, <1>14

\* Whatever token a client sends, what it is read as is a number.
LEMMA OffsetType ==
  ASSUME NEW cursor \in Seq(0..NotB64)
  PROVE  offset_of(cursor) \in Int
<1> DEFINE c == chunks(cursor, 4)
           L == Len(cursor)
           k == (L + 4 - 1) \div 4
           text == base64_decode(cursor)
<1>1. CASE \E i \in DOMAIN cursor : cursor[i] = NotB64
  BY <1>1 DEF offset_of, Malformed
<1>2. CASE ~\E i \in DOMAIN cursor : cursor[i] = NotB64
  <2>1. L \in Nat /\ \A i \in 1..L : cursor[i] \in Sextet
    <3>1. L \in Nat /\ DOMAIN cursor = 1..L
      BY LenProperties
    <3>2. \A i \in 1..L : cursor[i] \in 0..NotB64 /\ cursor[i] # NotB64
      BY <1>2, <3>1, ElementOfSeq
    <3> HIDE DEF L
    <3> QED
      BY <3>1, <3>2 DEF Sextet, NotB64
  <2>2. cursor \in Seq(Sextet)
    <3>1. cursor = [i \in 1..L |-> cursor[i]]
      BY LenProperties
    <3>2. cursor \in [1..L -> Sextet]
      BY <2>1, <3>1
    <3> QED
      BY <2>1, <3>2
  <2>3. c = [i \in 1..k |-> SubSeq(cursor, 4 * (i - 1) + 1, IF 4 * i < L THEN 4 * i ELSE L)]
    BY DEF chunks
  <2>4. k \in Nat /\ 4 * (k - 1) < L
    <3> HIDE DEF L
    <3> QED
      BY <2>1
  <2> HIDE DEF k, c
  <2>5. ASSUME NEW i \in 1..k PROVE c[i] \in Seq(Sextet) /\ Len(c[i]) \in 1..4
    <3> DEFINE a == 4 * (i - 1) + 1
               b == IF 4 * i < L THEN 4 * i ELSE L
    <3>1. c[i] = SubSeq(cursor, a, b)
      BY <2>3
    <3>2. i \in Nat /\ i >= 1 /\ i <= k
      BY <2>4
    <3> HIDE DEF L
    <3>3. a \in 1..(L + 1) /\ b \in (a - 1)..L /\ b - a + 1 \in 1..4
      BY <2>1, <2>4, <3>2
    <3> HIDE DEF a, b
    <3>4. SubSeq(cursor, a, b) \in Seq(Sextet) /\ Len(SubSeq(cursor, a, b)) = b - a + 1
      BY <2>2, <3>3, Cut DEF L
    <3> QED
      BY <3>1, <3>3, <3>4
  <2>6. ASSUME NEW p \in Seq(Sextet), Len(p) \in 1..4
        PROVE  decode_chunk(p) \in Seq(Byte)
    <3> DEFINE sextet(i) == IF i <= Len(p) THEN p[i] ELSE 0
               n == sextet(1) * 262144 + sextet(2) * 4096 + sextet(3) * 64 + sextet(4)
               three == <<n \div 65536, (n \div 256) % 256, n % 256>>
               end == IF Len(p) = 1 THEN 1 ELSE Len(p) - 1
    <3>1. decode_chunk(p) = SubSeq(three, 1, end)
      BY DEF decode_chunk
    <3>2. sextet(1) \in 0..63 /\ sextet(2) \in 0..63 /\ sextet(3) \in 0..63 /\ sextet(4) \in 0..63
      <4>1. \A i \in 1..Len(p) : p[i] \in Sextet
        BY ElementOfSeq
      <4> QED
        BY <2>6, <4>1 DEF Sextet
    <3> HIDE DEF sextet
    <3>3. n \in Nat /\ n < 16777216
      <4> DEFINE s1 == sextet(1)
                 s2 == sextet(2)
                 s3 == sextet(3)
                 s4 == sextet(4)
      <4>1. s1 \in 0..63 /\ s2 \in 0..63 /\ s3 \in 0..63 /\ s4 \in 0..63
        BY <3>2
      <4> HIDE DEF s1, s2, s3, s4
      <4>2. s1 * 262144 + s2 * 4096 + s3 * 64 + s4 \in Nat /\ s1 * 262144 + s2 * 4096 + s3 * 64 + s4 < 16777216
        BY <4>1, SMT
      <4> QED
        BY <4>2 DEF s1, s2, s3, s4
    <3>4. end \in 1..3
      BY <2>6
    <3> HIDE DEF n, end
    <3>5. n \div 65536 \in Byte /\ (n \div 256) % 256 \in Byte /\ n % 256 \in Byte
      <4>1. n \div 65536 \in Nat /\ n \div 65536 < 256
        BY <3>3, SMT
      <4> QED
        BY <3>3, <4>1, SMT DEF Byte
    <3>6. three \in Seq(Byte) /\ Len(three) = 3
      BY <3>5
    <3> HIDE DEF three
    <3>7. 1 \in 1..(Len(three) + 1) /\ end \in (1 - 1)..Len(three)
      BY <3>4, <3>6
    <3> QED
      BY <3>1, <3>6, <3>7, Cut
  <2>7. text \in Seq(Byte)
    <3> DEFINE decoded == [i \in DOMAIN c |-> decode_chunk(c[i])]
    <3>1. DOMAIN c = 1..k
      BY <2>3
    <3>2. decoded \in [1..k -> Seq(Byte)]
      BY <2>5, <2>6, <3>1
    <3>3. decoded \in Seq(Seq(Byte))
      BY <2>4, <3>2
    <3>4. text = FlattenSeq(decoded)
      BY DEF base64_decode, c
    <3> HIDE DEF decoded, text
    <3> QED
      BY <3>3, <3>4, FlattenType
  <2> HIDE DEF text
  <2> DEFINE numeral == IF text # <<>> /\ text[1] = 43 THEN Tail(text) ELSE text
  <2>8. numeral \in Seq(Byte)
    BY <2>7, HeadTailProperties
  <2> HIDE DEF numeral
  <2>9. decimal(numeral) \in Int
    <3>1. PICK v \in [0..Len(numeral) -> Int] : decimal(numeral) = v[Len(numeral)]
      BY <2>8, DecimalSteps
    <3>2. Len(numeral) \in 0..Len(numeral)
      BY <2>8, LenProperties
    <3> QED
      BY <3>1, <3>2
  <2>10. parse(text) \in Int
    BY <2>9 DEF parse, numeral, Malformed
  <2> QED
    BY <1>2, <2>10 DEF offset_of, text
<1> QED
  BY <1>1, <1>2

\* A sequence sifted with `kept`: what is kept of it is of its type, and all there is.
LEMMA Sifted ==
  ASSUME NEW S, NEW s \in Seq(S), NEW keep \in [DOMAIN s -> BOOLEAN]
  PROVE  LET out == FlattenSeq([i \in DOMAIN s |-> kept(keep[i], s[i])])
         IN /\ out \in Seq(S)
            /\ Len(out) <= Len(s)
            /\ \A e : e \in ToSet(out) <=> \E i \in DOMAIN s : keep[i] /\ e = s[i]
<1> DEFINE seqs == [i \in DOMAIN s |-> kept(keep[i], s[i])]
<1>1. Len(s) \in Nat /\ DOMAIN s = 1..Len(s) /\ \A i \in DOMAIN s : s[i] \in S
  BY LenProperties, ElementOfSeq
<1>2. ASSUME NEW i \in DOMAIN s
      PROVE  /\ seqs[i] \in Seq(S) /\ Len(seqs[i]) <= 1
             /\ \A e : e \in ToSet(seqs[i]) <=> keep[i] /\ e = s[i]
  <2>1. CASE keep[i]
    <3>1. seqs[i] = <<s[i]>>
      BY <2>1 DEF kept
    <3>2. ToSet(<<s[i]>>) = {s[i]}
      BY DEF ToSet
    <3>3. <<s[i]>> \in Seq(S) /\ Len(<<s[i]>>) <= 1
      BY <1>1
    <3> QED
      BY <2>1, <3>1, <3>2, <3>3
  <2>2. CASE ~keep[i]
    <3>1. seqs[i] = <<>>
      BY <2>2 DEF kept
    <3>2. ToSet(<<>>) = {}
      BY DEF ToSet
    <3>3. <<>> \in Seq(S) /\ Len(<<>>) <= 1
      OBVIOUS
    <3> QED
      BY <2>2, <3>1, <3>2, <3>3
  <2>3. keep[i] \in BOOLEAN
    OBVIOUS
  <2> QED
    BY <2>1, <2>2, <2>3
<1>3. DOMAIN seqs = 1..Len(s)
  BY <1>1
<1> HIDE DEF seqs
<1>4. seqs \in Seq(Seq(S)) /\ Len(seqs) = Len(s)
  <2>1. seqs = [i \in 1..Len(s) |-> seqs[i]]
    BY <1>1 DEF seqs
  <2>2. \A i \in 1..Len(s) : seqs[i] \in Seq(S)
    BY <1>1, <1>2
  <2>3. seqs \in [1..Len(s) -> Seq(S)]
    BY <2>1, <2>2
  <2> QED
    BY <1>1, <2>3
<1>5. FlattenSeq(seqs) \in Seq(S)
  BY <1>4, FlattenType
<1>6. Len(FlattenSeq(seqs)) <= Len(s)
  BY <1>1, <1>2, <1>3, <1>4, FlattenShort
<1>7. ASSUME NEW e
      PROVE  e \in ToSet(FlattenSeq(seqs)) <=> \E i \in DOMAIN s : keep[i] /\ e = s[i]
  <2>1. e \in ToSet(FlattenSeq(seqs)) <=> \E i \in DOMAIN seqs : e \in ToSet(seqs[i])
    BY <1>4, FlattenHolds
  <2> QED
    BY <1>1, <1>2, <1>3, <2>1
<1> QED
  BY <1>5, <1>6, <1>7 DEF seqs

-----------------------------------------------------------------------------
(* The lists that are paged through. *)

\* The files of an index are entries of it, and so are its directories.
LEMMA FilesType ==
  ASSUME NEW entries \in Seq(Entry)
  PROVE  /\ files(entries) \in Seq(Entry) /\ Len(files(entries)) <= Len(entries)
         /\ directories(entries) \in Seq(Entry) /\ Len(directories(entries)) <= Len(entries)
<1>1. \A i \in DOMAIN entries : entries[i].dir \in BOOLEAN
  <2>1. \A i \in DOMAIN entries : entries[i] \in Entry
    BY ElementOfSeq, LenProperties
  <2> QED
    BY <2>1 DEF Entry
<1>2. files(entries) \in Seq(Entry) /\ Len(files(entries)) <= Len(entries)
  <2> DEFINE keep == [i \in DOMAIN entries |-> ~entries[i].dir]
  <2>1. keep \in [DOMAIN entries -> BOOLEAN]
    BY <1>1
  <2>2. \A i \in DOMAIN entries : keep[i] = ~entries[i].dir
    OBVIOUS
  <2> HIDE DEF keep
  <2>3. files(entries) = FlattenSeq([i \in DOMAIN entries |-> kept(keep[i], entries[i])])
    BY <2>2 DEF files
  <2> QED
    BY <2>1, <2>3, Sifted
<1>3. directories(entries) \in Seq(Entry) /\ Len(directories(entries)) <= Len(entries)
  <2> DEFINE keep == [i \in DOMAIN entries |-> entries[i].dir]
  <2>1. keep \in [DOMAIN entries -> BOOLEAN]
    BY <1>1
  <2>2. \A i \in DOMAIN entries : keep[i] = entries[i].dir
    OBVIOUS
  <2> HIDE DEF keep
  <2>3. directories(entries) = FlattenSeq([i \in DOMAIN entries |-> kept(keep[i], entries[i])])
    BY <2>2 DEF directories
  <2> QED
    BY <2>1, <2>3, Sifted
<1> QED
  BY <1>2, <1>3

\* A list that is paged through is made of entries of the index.
LEMMA ListedType ==
  ASSUME NEW entries \in Seq(Entry)
  PROVE  listed(entries) \in Seq(Entry) /\ Len(listed(entries)) <= Len(entries)
<1>1. listed(entries) \in {files(entries), directories(entries), entries}
  BY DEF listed, Directories
<1> QED
  BY <1>1, FilesType, LenProperties

-----------------------------------------------------------------------------
(* One page. *)

\* The page size in force.
Size(req) == IF req.size = 0 THEN 1 ELSE req.size

\* The saturating arithmetic of page numbers says of any list that fits in a usize what
\* arithmetic without bounds says.
LEMMA Saturated ==
  ASSUME NEW page \in Nat, NEW size \in 1..MaxUsize, NEW total \in 0..MaxUsize
  PROVE  /\ (page + 1) * size = page * size + size
         /\ page * size \in Nat
         /\ page_offset(page, size) = page * size \/ (page * size >= total /\ page_offset(page, size) >= total)
         /\ page_offset(page, size) \in Nat
         /\ has_more(page, size, total) <=> (page + 1) * size < total
<1> USE BoundsAssumption
<1>1. (page + 1) * size = page * size + size /\ page * size \in Nat
  BY SMT
<1>2. /\ page_offset(page, size) = page * size \/ (page * size >= total /\ page_offset(page, size) >= total)
      /\ page_offset(page, size) \in Nat
  BY <1>1 DEF page_offset, saturating_mul
<1>3. CASE page + 1 > MaxUsize
  <2>1. MaxUsize * size >= MaxUsize /\ MaxUsize * size \in Nat
    BY SMT
  <2>2. (page + 1) * size >= page + 1
    BY SMT
  <2>3. ~((page + 1) * size < total)
    BY <1>1, <1>3, <2>2
  <2>4. ~has_more(page, size, total)
    BY <1>3, <2>1 DEF has_more, saturating_add, saturating_mul
  <2> QED
    BY <1>1, <1>2, <2>3, <2>4
<1>4. CASE page + 1 <= MaxUsize
  <2>1. saturating_add(page, 1) = page + 1
    BY <1>4 DEF saturating_add
  <2>2. has_more(page, size, total) <=> (page + 1) * size < total
    BY <1>1, <2>1 DEF has_more, saturating_mul
  <2> QED
    BY <1>1, <1>2, <2>2
<1> QED
  BY <1>3, <1>4

\* How many of the entries a page names there are.
PageLength(page, size, total) ==
  IF total <= page * size THEN 0
  ELSE IF total < page * size + size THEN total - page * size ELSE size

\* What a page holds, in arithmetic without bounds.
LEMMA ResponseHolds ==
  ASSUME NEW req, req.size \in 0..MaxUsize, NEW page \in Nat, NEW prepared,
         NEW list \in Seq(Entry), Len(list) <= MaxUsize
  PROVE  LET r == response(req, page, list, prepared) IN
           /\ r.items \in Seq([id : Nat, type : {"directory", "file"}])
           /\ Len(r.items) = PageLength(page, Size(req), Len(list))
           /\ \A i \in 1..Len(r.items) :
                /\ page * Size(req) + i \in 1..Len(list)
                /\ r.items[i] = hit(list[page * Size(req) + i])
           /\ r.more <=> page * Size(req) + Size(req) < Len(list)
<1> DEFINE size == Size(req)
           total == Len(list)
           offset == page_offset(page, size)
           first == page * size
           end == IF offset + size < total THEN offset + size ELSE total
           found == slice(list, offset, size)
           r == response(req, page, list, prepared)
<1>1. size \in 1..MaxUsize /\ total \in 0..MaxUsize
  BY BoundsAssumption, LenProperties DEF Size
<1>2. /\ r.items = [i \in DOMAIN found |-> hit(found[i])]
      /\ r.more = has_more(page, size, total)
  BY DEF response, Size
<1> HIDE DEF size, total, r
<1>3. /\ first \in Nat /\ offset \in Nat
      /\ (page + 1) * size = first + size
      /\ offset = first \/ (first >= total /\ offset >= total)
      /\ has_more(page, size, total) <=> (page + 1) * size < total
  BY <1>1, Saturated
<1> HIDE DEF first, offset
<1>4. found = SubSeq(list, offset + 1, end)
  BY DEF slice, total
<1>5. \A i \in 1..total : list[i] \in Entry
  BY ElementOfSeq DEF total
<1>6. /\ end \in Int /\ end <= total
      /\ \A i \in (offset + 1)..end : list[i] \in Entry
  BY <1>1, <1>3, <1>5
<1> HIDE DEF end, found
<1>7. /\ found \in Seq(Entry)
      /\ Len(found) = IF offset + 1 <= end THEN end - (offset + 1) + 1 ELSE 0
      /\ \A i \in 1..(end - (offset + 1) + 1) : found[i] = list[offset + 1 + i - 1]
  <2>1. offset + 1 \in Int
    BY <1>3
  <2> QED
    BY <1>4, <1>6, <2>1, SubSeqProperties
<1>8. Len(found) = PageLength(page, size, total)
  BY <1>1, <1>3, <1>7 DEF PageLength, end, first
<1>9. ASSUME NEW i \in 1..Len(found)
      PROVE  first + i \in 1..total /\ found[i] = list[first + i]
  <2>1. offset + 1 <= end
    BY <1>3, <1>6, <1>7
  <2>2. offset = first
    BY <1>1, <1>3, <1>6, <2>1
  <2>3. i \in 1..(end - (offset + 1) + 1)
    BY <1>7, <2>1
  <2>4. found[i] = list[offset + 1 + i - 1]
    BY <1>7, <2>3
  <2>5. offset + 1 + i - 1 = first + i
    BY <1>3, <2>2, <2>3
  <2>6. first + i \in 1..total
    BY <1>1, <1>3, <1>6, <2>2, <2>3
  <2> QED
    BY <2>4, <2>5, <2>6
<1>10. DOMAIN found = 1..Len(found) /\ Len(found) \in Nat /\ \A i \in 1..Len(found) : found[i] \in Entry
  BY <1>7, LenProperties, ElementOfSeq
<1>11. /\ r.items \in Seq([id : Nat, type : {"directory", "file"}])
       /\ Len(r.items) = Len(found)
  <2>1. \A i \in 1..Len(found) : hit(found[i]) \in [id : Nat, type : {"directory", "file"}]
    BY <1>10 DEF hit, Entry
  <2>2. r.items = [i \in 1..Len(found) |-> hit(found[i])]
    BY <1>2, <1>10
  <2> QED
    BY <1>10, <2>1, <2>2
<1>12. \A i \in 1..Len(r.items) : r.items[i] = hit(list[first + i])
  BY <1>2, <1>9, <1>10, <1>11
<1> QED
  BY <1>2, <1>3, <1>8, <1>9, <1>11, <1>12 DEF r, first, size, total

-----------------------------------------------------------------------------
(* The index and the page numbers. *)

\* What the paging rests on: the index stays a sequence of entries that a usize can count,
\* whatever the watcher does to it, with the files before it for a grep, and page numbers
\* stay numbers.
IndexInv ==
  /\ session \in Sessions
  /\ index \in Seq(Entry)
  /\ changes \in 0..MaxChanges
  /\ Len(index) + (MaxChanges - changes) <= MaxUsize
  /\ session.kind \in {"grep", "multi-grep"} => session.base + Len(index) + (MaxChanges - changes) <= MaxUsize
  /\ pages \in Nat
  /\ session.kind \in Paged => place \in Nat

\* A change of the index makes it one entry longer or shorter.
LEMMA ChangeIndex ==
  ASSUME IndexInv, Change
  PROVE  IndexInv'
<1>1. Len(index) \in Nat /\ DOMAIN index = 1..Len(index)
  BY LenProperties DEF IndexInv
<1>2. \A i \in 1..Len(index) : index[i] \in Entry
  BY ElementOfSeq DEF IndexInv
<1>3. ASSUME NEW at \in 1..(Len(index) + 1)
      PROVE  SubSeq(index, 1, at - 1) \in Seq(Entry) /\ Len(SubSeq(index, 1, at - 1)) = at - 1
  <2>1. at - 1 \in Int /\ \A i \in 1..(at - 1) : index[i] \in Entry
    BY <1>1, <1>2
  <2> QED
    BY <1>1, <2>1, SubSeqProperties
<1>4. ASSUME NEW at \in 1..(Len(index) + 1)
      PROVE  /\ SubSeq(index, at, Len(index)) \in Seq(Entry)
             /\ Len(SubSeq(index, at, Len(index))) = Len(index) - at + 1
  <2>1. at \in Int /\ Len(index) \in Int /\ \A i \in at..Len(index) : index[i] \in Entry
    BY <1>1, <1>2
  <2> QED
    BY <1>1, <2>1, SubSeqProperties
<1>5. index' \in Seq(Entry) /\ Len(index') <= Len(index) + 1
  <2>1. ASSUME NEW at \in 1..(Len(index) + 1),
               index' = InsertAt(index, at, [id |-> 10 + changes, dir |-> FALSE, matches |-> 1])
        PROVE  index' \in Seq(Entry) /\ Len(index') <= Len(index) + 1
    <3> DEFINE new == [id |-> 10 + changes, dir |-> FALSE, matches |-> 1]
               head == SubSeq(index, 1, at - 1)
               tail == SubSeq(index, at, Len(index))
    <3>1. new \in Entry
      BY DEF IndexInv, Entry
    <3> HIDE DEF new
    <3>2. <<new>> \in Seq(Entry) /\ Len(<<new>>) = 1
      BY <3>1
    <3>3. /\ head \in Seq(Entry) /\ Len(head) = at - 1
          /\ tail \in Seq(Entry) /\ Len(tail) = Len(index) - at + 1
      BY <1>3, <1>4
    <3>4. index' = (head \o <<new>>) \o tail
      BY <2>1 DEF InsertAt, new
    <3> HIDE DEF head, tail
    <3> DEFINE front == head \o <<new>>
    <3>5. front \in Seq(Entry) /\ Len(front) = Len(head) + Len(<<new>>)
      BY <3>2, <3>3, ConcatProperties
    <3>6. index' = front \o tail /\ Len(front) = at
      BY <3>2, <3>3, <3>4, <3>5
    <3> HIDE DEF front
    <3>7. index' \in Seq(Entry) /\ Len(index') = Len(front) + Len(tail)
      BY <3>3, <3>5, <3>6, ConcatProperties
    <3> QED
      BY <1>1, <3>3, <3>6, <3>7
  <2>2. ASSUME NEW at \in DOMAIN index, index' = RemoveAt(index, at)
        PROVE  index' \in Seq(Entry) /\ Len(index') <= Len(index) + 1
    <3> DEFINE head == SubSeq(index, 1, at - 1)
               tail == SubSeq(index, at + 1, Len(index))
    <3>1. at \in 1..(Len(index) + 1) /\ at + 1 \in 1..(Len(index) + 1)
      BY <1>1
    <3>2. /\ head \in Seq(Entry) /\ Len(head) = at - 1
          /\ tail \in Seq(Entry) /\ Len(tail) = Len(index) - (at + 1) + 1
      BY <1>3, <1>4, <3>1
    <3>3. index' = head \o tail
      BY <2>2 DEF RemoveAt
    <3> HIDE DEF head, tail
    <3>4. index' \in Seq(Entry) /\ Len(index') = (at - 1) + (Len(index) - (at + 1) + 1)
      BY <3>2, <3>3, ConcatProperties
    <3> QED
      BY <1>1, <3>1, <3>4
  <2> QED
    BY <1>1, <2>1, <2>2 DEF Change
<1>6. Len(index') \in Nat
  BY <1>5, LenProperties
<1>7. changes' = changes + 1 /\ changes < MaxChanges /\ UNCHANGED <<session, place, pages>>
  BY DEF Change
<1>8. session.kind \in {"grep", "multi-grep"} => session.base \in Nat
  BY SessionsAssumption DEF IndexInv
<1> DEFINE n == Len(index)
           n2 == Len(index')
<1>9. n \in Nat /\ n2 \in Nat /\ n2 <= n + 1
  BY <1>1, <1>5, <1>6
<1>10. /\ n + (MaxChanges - changes) <= MaxUsize /\ changes \in 0..MaxChanges
       /\ session.kind \in {"grep", "multi-grep"} => session.base + n + (MaxChanges - changes) <= MaxUsize
  BY DEF IndexInv
<1> HIDE DEF n, n2
<1>11. /\ n2 + (MaxChanges - changes') <= MaxUsize /\ changes' \in 0..MaxChanges
       /\ session.kind \in {"grep", "multi-grep"} => session.base + n2 + (MaxChanges - changes') <= MaxUsize
  BY <1>7, <1>8, <1>9, <1>10, BoundsAssumption
<1> QED
  BY <1>5, <1>7, <1>11 DEF IndexInv, n2

\* Every step keeps the bounds.
LEMMA StepIndex == IndexInv /\ [Next]_vars => IndexInv'
<1> SUFFICES ASSUME IndexInv, [Next]_vars PROVE IndexInv'
  OBVIOUS
<1>1. CASE CallPage
  BY <1>1 DEF CallPage, IndexInv
<1>2. CASE CallGrep
  <2>1. session.kind \notin Paged
    BY <1>2 DEF CallGrep, Paged, Directories
  <2> QED
    BY <1>2, <2>1 DEF CallGrep, IndexInv
<1>3. CASE CallParseQuery \/ FormatMatch
  BY <1>3 DEF CallParseQuery, FormatMatch, IndexInv
<1>4. CASE Change
  BY <1>4, ChangeIndex
<1>5. CASE UNCHANGED vars
  BY <1>5 DEF vars, IndexInv
<1> QED
  BY <1>1, <1>2, <1>3, <1>4, <1>5 DEF Next, Call

\* They hold when a use begins.
LEMMA InitIndex == Init => IndexInv
<1> SUFFICES ASSUME Init PROVE IndexInv
  OBVIOUS
<1>1. session \in Sessions /\ index = session.index /\ place = session.start
      /\ changes = 0 /\ pages = 0
  BY DEF Init
<1>2. index \in Seq(Entry) /\ (session.kind \in Paged => place \in 0..MaxUsize)
  BY <1>1, SessionsAssumption
<1>3. Len(index) + MaxChanges <= MaxUsize /\ Len(index) \in Nat
  BY <1>1, <1>2, BoundsAssumption, LenProperties
<1>4. session.kind \in {"grep", "multi-grep"} => session.base + Len(index) + MaxChanges <= MaxUsize
  BY <1>1, SessionsAssumption
<1> QED
  BY <1>1, <1>2, <1>3, <1>4, BoundsAssumption DEF IndexInv

\* The index holds entries, and is never longer than a page number can count, however often
\* it changes between two pages.
THEOREM SpecIndexInv == Spec => []IndexInv
BY InitIndex, StepIndex, PTL DEF Spec

-----------------------------------------------------------------------------
(* Pages hold what they name. *)

\* The preset that a raw query is parsed with.
PresetOf(req) ==
  IF req.kind = "parse-query" THEN req.preset
  ELSE IF req.kind = "search" THEN "fileSearch"
  ELSE IF req.kind = Directories THEN "dirSearch" ELSE "mixedSearch"

\* What a page's query comes to: glob bypasses the parser.
Prepared(req) ==
  IF req.kind = "glob"
    THEN [constraints |-> every("glob", fold_all(req.tokens), 0), warnings |-> <<>>]
    ELSE prepare(req, PresetOf(req))

\* Each of the four searches answers with a page of its list, or refuses.
LEMMA PageIsResponse ==
  ASSUME session.kind \in Paged, NEW page, page_of(session, page) # Refused
  PROVE  page_of(session, page) = response(session, page, listed(index), Prepared(session))
<1>1. CASE session.kind = "search"
  <2>1. page_of(session, page) = search(session, page) /\ listed(index) = files(index)
    BY <1>1 DEF page_of, listed, Directories
  <2> QED
    BY <1>1, <2>1 DEF search, Prepared, PresetOf
<1>2. CASE session.kind = Directories
  <2>1. page_of(session, page) = search_directories(session, page)
        /\ listed(index) = directories(index)
    BY <1>2 DEF page_of, listed, Directories
  <2> QED
    BY <1>2, <2>1 DEF search_directories, Prepared, PresetOf, Directories
<1>3. CASE session.kind = "search/mixed"
  <2>1. page_of(session, page) = search_mixed(session, page) /\ listed(index) = index
    BY <1>3 DEF page_of, listed, Directories
  <2> QED
    BY <1>3, <2>1 DEF search_mixed, Prepared, PresetOf, Directories
<1>4. CASE session.kind = "glob"
  <2>1. page_of(session, page) = glob(session, page) /\ listed(index) = files(index)
    BY <1>4 DEF page_of, listed, Directories
  <2> QED
    BY <1>4, <2>1 DEF glob, Prepared
<1> QED
  BY <1>1, <1>2, <1>3, <1>4 DEF Paged

\* How many places between two numbers there are in a list.
LEMMA NamedPlaces ==
  ASSUME NEW total \in Nat, NEW page \in Nat, NEW size \in Nat \ {0}, page * size \in Nat
  PROVE  Cardinality({i \in 1..total : i > page * size /\ i <= page * size + size})
           = PageLength(page, size, total)
<1> DEFINE first == page * size
           last_ == IF total < first + size THEN total ELSE first + size
<1>1. first \in Nat
  OBVIOUS
<1> HIDE DEF first
<1>2. {i \in 1..total : i > first /\ i <= first + size} = (first + 1)..last_
  BY <1>1
<1>3. Cardinality((first + 1)..last_) = IF first + 1 > last_ THEN 0 ELSE last_ - (first + 1) + 1
  <2>1. first + 1 \in Int /\ last_ \in Int
    BY <1>1
  <2> HIDE DEF last_
  <2> QED
    BY <2>1, FS_Interval
<1>4. (IF first + 1 > last_ THEN 0 ELSE last_ - (first + 1) + 1)
        = IF total <= first THEN 0 ELSE IF total < first + size THEN total - first ELSE size
  BY <1>1
<1> QED
  BY <1>2, <1>3, <1>4 DEF PageLength, first

\* Any page, of any size, of any list: the entries that its number and size name are the
\* ones it holds, and hasMore is true of the pages before the last and of no other.
THEOREM SpecPageIsWhatItSays == Spec => PageIsWhatItSays
<1> DEFINE says ==
      (session.kind \in Paged /\ pages' > pages /\ last' # Refused) =>
        LET list == listed(index)
            size == IF session.size = 0 THEN 1 ELSE session.size
            named == {i \in DOMAIN list : i > place * size /\ i <= (place + 1) * size}
        IN /\ Len(last'.items) = Cardinality(named)
           /\ \A i \in DOMAIN last'.items :
                LET entry == list[place * size + i] IN
                  last'.items[i] = [id |-> entry.id, type |-> IF entry.dir THEN "directory" ELSE "file"]
           /\ last'.more = \E i \in DOMAIN list : i > (place + 1) * size
<1>1. IndexInv /\ [Next]_vars => [says]_vars
  <2> SUFFICES ASSUME IndexInv, Next, session.kind \in Paged, pages' > pages, last' # Refused
               PROVE  says
    OBVIOUS
  <2> DEFINE list == listed(index)
             size == Size(session)
  <2>1. CallPage
    <3>1. pages \in Nat /\ ~(pages > pages)
      BY DEF IndexInv
    <3>2. ~CallGrep /\ ~CallParseQuery /\ ~FormatMatch
      BY DEF CallGrep, CallParseQuery, FormatMatch, Paged, Directories
    <3>3. ~Change
      BY <3>1 DEF Change
    <3> QED
      BY <3>2, <3>3 DEF Next, Call
  <2>2. last' = response(session, place, list, Prepared(session))
    BY <2>1, PageIsResponse DEF CallPage
  <2>3. list \in Seq(Entry) /\ Len(list) \in 0..MaxUsize /\ DOMAIN list = 1..Len(list)
    <3>1. list \in Seq(Entry) /\ Len(list) <= Len(index)
      BY ListedType DEF IndexInv
    <3>2. Len(list) \in Nat /\ DOMAIN list = 1..Len(list) /\ Len(index) \in Nat
      BY <3>1, LenProperties DEF IndexInv
    <3>3. Len(index) <= MaxUsize
      BY <3>2, BoundsAssumption DEF IndexInv
    <3> QED
      BY <3>1, <3>2, <3>3, BoundsAssumption
  <2> HIDE DEF list
  <2>4. place \in Nat /\ session.size \in 0..MaxUsize /\ size \in 1..MaxUsize
    BY SessionsAssumption, BoundsAssumption DEF IndexInv, Size
  <2>5. /\ last'.items \in Seq([id : Nat, type : {"directory", "file"}])
        /\ Len(last'.items) = PageLength(place, size, Len(list))
        /\ \A i \in 1..Len(last'.items) :
             /\ place * size + i \in 1..Len(list)
             /\ last'.items[i] = hit(list[place * size + i])
        /\ last'.more <=> place * size + size < Len(list)
    <3> DEFINE r == response(session, place, list, Prepared(session))
    <3>1. /\ r.items \in Seq([id : Nat, type : {"directory", "file"}])
          /\ Len(r.items) = PageLength(place, size, Len(list))
          /\ \A i \in 1..Len(r.items) :
               /\ place * size + i \in 1..Len(list)
               /\ r.items[i] = hit(list[place * size + i])
          /\ r.more <=> place * size + size < Len(list)
      <4>1. Len(list) <= MaxUsize
        BY <2>3, BoundsAssumption
      <4> QED
        BY <2>3, <2>4, <4>1, ResponseHolds
    <3>2. last' = r
      BY <2>2
    <3> HIDE DEF r
    <3> QED
      BY <3>1, <3>2
  <2>6. (place + 1) * size = place * size + size /\ place * size \in Nat
    BY <2>3, <2>4, Saturated
  <2>7. DOMAIN last'.items = 1..Len(last'.items)
    BY <2>5, LenProperties
  <2>8. Len(last'.items) = Cardinality({i \in DOMAIN list : i > place * size /\ i <= (place + 1) * size})
    <3>1. {i \in DOMAIN list : i > place * size /\ i <= (place + 1) * size}
            = {i \in 1..Len(list) : i > place * size /\ i <= place * size + size}
      BY <2>3, <2>6
    <3>2. Cardinality({i \in 1..Len(list) : i > place * size /\ i <= place * size + size})
            = PageLength(place, size, Len(list))
      <4> HIDE DEF size
      <4>1. Len(list) \in Nat /\ place \in Nat /\ size \in Nat \ {0} /\ place * size \in Nat
        BY <2>3, <2>4, <2>6, BoundsAssumption
      <4> QED
        BY <4>1, NamedPlaces
    <3> QED
      BY <2>5, <3>1, <3>2
  <2>9. \A i \in DOMAIN last'.items :
          last'.items[i] = [id |-> list[place * size + i].id,
                            type |-> IF list[place * size + i].dir THEN "directory" ELSE "file"]
    BY <2>5, <2>7 DEF hit
  <2>10. (place * size + size < Len(list)) <=> \E i \in DOMAIN list : i > (place + 1) * size
    BY <2>3, <2>4, <2>6
  <2>11. last'.more \in BOOLEAN
    BY <2>2 DEF response, has_more
  <2> QED
    BY <2>5, <2>8, <2>9, <2>10, <2>11 DEF list, Size
<1> HIDE DEF says
<1>2. Spec => [][says]_vars
  BY <1>1, SpecIndexInv, PTL DEF Spec
<1> QED
  BY <1>2, PTL DEF PageIsWhatItSays, says

-----------------------------------------------------------------------------
(* Nothing of a query is lost silently. *)

Constraint == [type : Kinds, value : Token, nots : 0..2]

\* A preset takes a token for one of the kinds, or leaves it.
LEMMA ReadsKind ==
  ASSUME NEW preset \in Presets, NEW t \in Token
  PROVE  Reads[preset][t] \in Kinds \cup {"fuzzy"}
<1>1. Reads[preset] \in Readings
  BY ReadsAssumption
<1> QED
  BY <1>1 DEF Readings

\* What the parser makes of a string is what it makes of each token.
LEMMA ParsedHolds ==
  ASSUME NEW preset \in Presets, NEW tokens \in Seq(Token)
  PROVE  /\ parse_raw(preset, tokens) \in Seq(Constraint)
         /\ \A c : c \in ToSet(parse_raw(preset, tokens)) <=>
              \E i \in DOMAIN tokens :
                /\ Reads[preset][tokens[i]] # "fuzzy"
                /\ c = constraint(Reads[preset][tokens[i]], tokens[i], tokens[i].bangs)
<1> DEFINE seqs == [i \in DOMAIN tokens |-> parsed_token(preset, tokens[i])]
<1>1. Len(tokens) \in Nat /\ DOMAIN tokens = 1..Len(tokens) /\ \A i \in DOMAIN tokens : tokens[i] \in Token
  BY LenProperties, ElementOfSeq
<1>2. ASSUME NEW t \in Token
      PROVE  /\ parsed_token(preset, t) \in Seq(Constraint)
             /\ \A c : c \in ToSet(parsed_token(preset, t)) <=>
                  Reads[preset][t] # "fuzzy" /\ c = constraint(Reads[preset][t], t, t.bangs)
  <2>1. t.bangs \in 0..2 /\ \A kind \in Kinds : constraint(kind, t, t.bangs) \in Constraint
    BY DEF Token, Constraint, constraint
  <2>2. \A c : ToSet(<<c>>) = {c}
    BY DEF ToSet
  <2>3. ToSet(<<>>) = {}
    BY DEF ToSet
  <2>4. CASE Reads[preset][t] # "fuzzy"
    <3>1. parsed_token(preset, t) = <<constraint(Reads[preset][t], t, t.bangs)>>
      BY <2>4 DEF parsed_token
    <3>2. Reads[preset][t] \in Kinds
      BY <2>4, ReadsKind
    <3> QED
      BY <2>1, <2>2, <2>4, <3>1, <3>2
  <2>5. CASE Reads[preset][t] = "fuzzy"
    <3>1. parsed_token(preset, t) = <<>>
      BY <2>5 DEF parsed_token
    <3> QED
      BY <2>3, <2>5, <3>1
  <2> QED
    BY <2>4, <2>5
<1>3. \A i \in DOMAIN tokens : seqs[i] = parsed_token(preset, tokens[i])
  OBVIOUS
<1>4. seqs \in Seq(Seq(Constraint)) /\ DOMAIN seqs = DOMAIN tokens
  <2>1. seqs = [i \in 1..Len(tokens) |-> parsed_token(preset, tokens[i])]
    BY <1>1
  <2>2. \A i \in 1..Len(tokens) : parsed_token(preset, tokens[i]) \in Seq(Constraint)
    BY <1>1, <1>2
  <2> QED
    BY <1>1, <2>1, <2>2
<1>5. parse_raw(preset, tokens) = FlattenSeq(seqs)
  BY DEF parse_raw
<1> HIDE DEF seqs
<1>6. parse_raw(preset, tokens) \in Seq(Constraint)
  BY <1>4, <1>5, FlattenType
<1>7. \A c : c \in ToSet(parse_raw(preset, tokens)) <=>
        \E i \in DOMAIN tokens : c \in ToSet(parsed_token(preset, tokens[i]))
  <2>1. \A c : c \in ToSet(FlattenSeq(seqs)) <=> \E i \in DOMAIN seqs : c \in ToSet(seqs[i])
    BY <1>4, FlattenHolds
  <2> QED
    BY <1>3, <1>4, <1>5, <2>1, Zenon
<1>8. ASSUME NEW c, NEW i \in DOMAIN tokens
      PROVE  c \in ToSet(parsed_token(preset, tokens[i])) <=>
               /\ Reads[preset][tokens[i]] # "fuzzy"
               /\ c = constraint(Reads[preset][tokens[i]], tokens[i], tokens[i].bangs)
  <2>1. tokens[i] \in Token
    BY <1>1
  <2> QED
    BY <1>2, <2>1
<1> QED
  BY <1>6, <1>7, <1>8, Zenon

\* The fuzzy parts are the tokens that the preset leaves.
LEMMA FuzzyHolds ==
  ASSUME NEW preset, NEW tokens \in Seq(Token)
  PROVE  \A t : t \in ToSet(fuzzy_parts(preset, tokens)) <=>
           \E i \in DOMAIN tokens : Reads[preset][tokens[i]] = "fuzzy" /\ t = tokens[i]
<1> DEFINE keep == [i \in DOMAIN tokens |-> Reads[preset][tokens[i]] = "fuzzy"]
<1>1. keep \in [DOMAIN tokens -> BOOLEAN]
  OBVIOUS
<1>2. \A i \in DOMAIN tokens : keep[i] <=> Reads[preset][tokens[i]] = "fuzzy"
  OBVIOUS
<1> DEFINE sifted == FlattenSeq([i \in DOMAIN tokens |-> kept(keep[i], tokens[i])])
<1>3. fuzzy_parts(preset, tokens) = sifted
  BY DEF fuzzy_parts
<1> HIDE DEF keep
<1>4. \A t : t \in ToSet(sifted) <=> \E i \in DOMAIN tokens : keep[i] /\ t = tokens[i]
  BY <1>1, Sifted
<1> HIDE DEF sifted
<1> QED
  BY <1>2, <1>3, <1>4, Zenon

\* The warnings are the tokens that look like a glob and have a backslash.
LEMMA WarningsHold ==
  ASSUME NEW tokens \in Seq(Token)
  PROVE  \A t : t \in ToSet(warnings_for(tokens)) <=>
           \E i \in DOMAIN tokens : looks_glob(tokens[i]) /\ tokens[i].sep = "backslash" /\ t = tokens[i]
<1> DEFINE keep == [i \in DOMAIN tokens |-> looks_glob(tokens[i]) /\ tokens[i].sep = "backslash"]
<1>1. keep \in [DOMAIN tokens -> BOOLEAN]
  BY DEF looks_glob
<1>2. \A i \in DOMAIN tokens : keep[i] <=> looks_glob(tokens[i]) /\ tokens[i].sep = "backslash"
  OBVIOUS
<1> DEFINE sifted == FlattenSeq([i \in DOMAIN tokens |-> kept(keep[i], tokens[i])])
<1>3. warnings_for(tokens) = sifted
  BY DEF warnings_for
<1> HIDE DEF keep
<1>4. \A t : t \in ToSet(sifted) <=> \E i \in DOMAIN tokens : keep[i] /\ t = tokens[i]
  BY <1>1, Sifted
<1> HIDE DEF sifted
<1> QED
  BY <1>2, <1>3, <1>4, Zenon

\* What a list of strings is turned into.
LEMMA EveryHolds ==
  ASSUME NEW type, NEW tokens \in Seq(Token), NEW nots
  PROVE  \A c : c \in ToSet(every(type, tokens, nots)) <=>
           \E i \in DOMAIN tokens : c = constraint(type, tokens[i], nots)
BY DEF every, ToSet

\* A folded path has no backslash.
LEMMA FoldHolds ==
  ASSUME NEW tokens \in Seq(Token)
  PROVE  /\ fold_all(tokens) \in Seq(Token) /\ DOMAIN fold_all(tokens) = DOMAIN tokens
         /\ \A i \in DOMAIN tokens : fold_all(tokens)[i] = fold(tokens[i]) /\ fold(tokens[i]).sep # "backslash"
<1>1. Len(tokens) \in Nat /\ DOMAIN tokens = 1..Len(tokens) /\ \A i \in DOMAIN tokens : tokens[i] \in Token
  BY LenProperties, ElementOfSeq
<1>2. \A t \in Token : fold(t) \in Token /\ fold(t).sep # "backslash"
  BY DEF fold, Token
<1>3. fold_all(tokens) = [i \in 1..Len(tokens) |-> fold(tokens[i])]
  BY <1>1 DEF fold_all
<1>4. \A i \in 1..Len(tokens) : fold(tokens[i]) \in Token
  BY <1>1, <1>2
<1>5. fold_all(tokens) \in Seq(Token)
  BY <1>1, <1>3, <1>4
<1> QED
  BY <1>1, <1>2, <1>3, <1>5

\* Which fields are paths, and how each field is handed on.
PathFields == {"globs", "pathSegments", "filePaths", "excludePathSegments"}
typeOf == [f \in Fields |->
  CASE f = "globs" -> "glob" [] f = "extensions" -> "extension" [] f = "filePaths" -> "filePath"
    [] f = "fileTypes" -> "fileType" [] f \in {"pathSegments", "excludePathSegments"} -> "pathSegment"
    [] OTHER -> "text"]
notsOf == [f \in Fields |-> IF f \in {"excludePathSegments", "excludeText"} THEN 1 ELSE 0]

\* The constraints of a structured query are those of its fields, and the status of git.
LEMMA StructuredHolds ==
  ASSUME NEW q, \A f \in Fields : q[f] \in Seq(Token), NEW c
  PROVE  c \in ToSet(structured_query(q)) <=>
           \/ \E f \in Fields : \E i \in DOMAIN q[f] :
                c = constraint(typeOf[f], IF f \in PathFields THEN fold(q[f][i]) ELSE q[f][i], notsOf[f])
           \/ c \in ToSet(git_status(q))
<1> DEFINE s == folded(q)
           S == [type : Kinds, value : Token \cup {q.gitStatus}, nots : 0..1]
           of(f) == every(typeOf[f], s[f], notsOf[f])
           status == git_status(q)
<1>1. \A f \in Fields : typeOf[f] \in Kinds /\ notsOf[f] \in 0..1
  BY DEF Fields, typeOf, notsOf, Kinds
<1>2. \A f \in Fields : s[f] = IF f \in PathFields THEN fold_all(q[f]) ELSE q[f]
  BY DEF folded, PathFields
<1>3. ASSUME NEW f \in Fields
      PROVE  /\ s[f] \in Seq(Token) /\ DOMAIN s[f] = DOMAIN q[f]
             /\ \A i \in DOMAIN q[f] : s[f][i] = IF f \in PathFields THEN fold(q[f][i]) ELSE q[f][i]
  <2>1. CASE f \in PathFields
    BY <1>2, <2>1, FoldHolds
  <2>2. CASE f \notin PathFields
    BY <1>2, <2>2
  <2> QED
    BY <2>1, <2>2
<1>4. \A f \in Fields : \A t \in Token : constraint(typeOf[f], t, notsOf[f]) \in S
  BY <1>1 DEF constraint
<1>5. structured_query(q)
        = of("globs") \o of("extensions") \o of("pathSegments") \o of("filePaths") \o of("fileTypes")
            \o of("text") \o of("excludePathSegments") \o of("excludeText") \o status
  <2>1. /\ typeOf["globs"] = "glob" /\ typeOf["extensions"] = "extension"
        /\ typeOf["pathSegments"] = "pathSegment" /\ typeOf["filePaths"] = "filePath"
        /\ typeOf["fileTypes"] = "fileType" /\ typeOf["text"] = "text"
        /\ typeOf["excludePathSegments"] = "pathSegment" /\ typeOf["excludeText"] = "text"
    BY DEF typeOf, Fields
  <2>2. /\ notsOf["globs"] = 0 /\ notsOf["extensions"] = 0 /\ notsOf["pathSegments"] = 0
        /\ notsOf["filePaths"] = 0 /\ notsOf["fileTypes"] = 0 /\ notsOf["text"] = 0
        /\ notsOf["excludePathSegments"] = 1 /\ notsOf["excludeText"] = 1
    BY DEF notsOf, Fields
  <2> HIDE DEF s
  <2> QED
    BY <2>1, <2>2, Zenon DEF structured_query, s
<1>6. status \in Seq(S)
  <2>1. constraint("gitStatus", q.gitStatus, 0) \in S
    BY DEF constraint, Kinds
  <2> HIDE DEF S
  <2> QED
    BY <2>1 DEF git_status
<1> HIDE DEF s, S, status
<1>7. ASSUME NEW f \in Fields
      PROVE  /\ of(f) \in Seq(S)
             /\ c \in ToSet(of(f)) <=>
                  \E i \in DOMAIN q[f] :
                    c = constraint(typeOf[f], IF f \in PathFields THEN fold(q[f][i]) ELSE q[f][i], notsOf[f])
  <2>1. of(f) \in Seq(S)
    <3> DEFINE n == Len(s[f])
    <3>1. n \in Nat /\ DOMAIN s[f] = 1..n /\ \A i \in 1..n : s[f][i] \in Token
      BY <1>3, LenProperties, ElementOfSeq
    <3> HIDE DEF n
    <3>2. of(f) = [i \in 1..n |-> constraint(typeOf[f], s[f][i], notsOf[f])]
      BY <3>1 DEF every
    <3>3. \A i \in 1..n : constraint(typeOf[f], s[f][i], notsOf[f]) \in S
      BY <1>4, <3>1
    <3> QED
      BY <3>1, <3>2, <3>3
  <2>2. c \in ToSet(of(f)) <=> \E i \in DOMAIN s[f] : c = constraint(typeOf[f], s[f][i], notsOf[f])
    BY <1>3, EveryHolds
  <2> QED
    BY <1>3, <2>1, <2>2
<1> HIDE DEF of
<1>8. c \in ToSet(structured_query(q)) <=> (\E f \in Fields : c \in ToSet(of(f))) \/ c \in ToSet(status)
  <2>1. ASSUME NEW s1 \in Seq(S), NEW s2 \in Seq(S)
        PROVE  s1 \o s2 \in Seq(S) /\ (c \in ToSet(s1 \o s2) <=> c \in ToSet(s1) \/ c \in ToSet(s2))
    BY ConcatProperties, ConcatHolds
  <2> DEFINE n2 == of("globs") \o of("extensions")
             n3 == n2 \o of("pathSegments")
             n4 == n3 \o of("filePaths")
             n5 == n4 \o of("fileTypes")
             n6 == n5 \o of("text")
             n7 == n6 \o of("excludePathSegments")
             n8 == n7 \o of("excludeText")
             n9 == n8 \o status
  <2>2. structured_query(q) = n9
    BY <1>5
  <2> HIDE DEF n2, n3, n4, n5, n6, n7, n8, n9
  <2>3. n2 \in Seq(S) /\ (c \in ToSet(n2) <=> c \in ToSet(of("globs")) \/ c \in ToSet(of("extensions")))
    BY <1>7, <2>1 DEF n2, Fields
  <2>4. n3 \in Seq(S) /\ (c \in ToSet(n3) <=> c \in ToSet(n2) \/ c \in ToSet(of("pathSegments")))
    BY <1>7, <2>1, <2>3 DEF n3, Fields
  <2>5. n4 \in Seq(S) /\ (c \in ToSet(n4) <=> c \in ToSet(n3) \/ c \in ToSet(of("filePaths")))
    BY <1>7, <2>1, <2>4 DEF n4, Fields
  <2>6. n5 \in Seq(S) /\ (c \in ToSet(n5) <=> c \in ToSet(n4) \/ c \in ToSet(of("fileTypes")))
    BY <1>7, <2>1, <2>5 DEF n5, Fields
  <2>7. n6 \in Seq(S) /\ (c \in ToSet(n6) <=> c \in ToSet(n5) \/ c \in ToSet(of("text")))
    BY <1>7, <2>1, <2>6 DEF n6, Fields
  <2>8. n7 \in Seq(S) /\ (c \in ToSet(n7) <=> c \in ToSet(n6) \/ c \in ToSet(of("excludePathSegments")))
    BY <1>7, <2>1, <2>7 DEF n7, Fields
  <2>9. n8 \in Seq(S) /\ (c \in ToSet(n8) <=> c \in ToSet(n7) \/ c \in ToSet(of("excludeText")))
    BY <1>7, <2>1, <2>8 DEF n8, Fields
  <2>10. c \in ToSet(n9) <=> c \in ToSet(n8) \/ c \in ToSet(status)
    BY <1>6, <2>1, <2>9 DEF n9
  <2> QED
    BY <2>2, <2>3, <2>4, <2>5, <2>6, <2>7, <2>8, <2>9, <2>10 DEF Fields
<1> QED
  BY <1>7, <1>8 DEF status

\* What the client holds when it is done answers what it asked.
AnswerInv ==
  (done /\ last # Refused) =>
    /\ session.kind \in Paged =>
         /\ last.constraints = Prepared(session).constraints
         /\ last.warnings = Prepared(session).warnings
         /\ session.kind = "glob" => session.form # "none"
    /\ session.kind = "parse-query" => last = parse_query_response(session.preset, session.tokens)

\* Every step keeps it: a call is the only step that ends a use, and it answers the use.
LEMMA StepAnswer == AnswerInv /\ [Next]_vars => AnswerInv'
<1> SUFFICES ASSUME AnswerInv, [Next]_vars, done', last' # Refused PROVE AnswerInv'
  BY DEF AnswerInv
<1>1. CASE CallPage
  <2>1. session' = session /\ session.kind \in Paged /\ last' = page_of(session, place)
    BY <1>1 DEF CallPage
  <2>2. last' = response(session, place, listed(index), Prepared(session))
    BY <2>1, PageIsResponse
  <2>3. last'.constraints = Prepared(session).constraints /\ last'.warnings = Prepared(session).warnings
    BY <2>2 DEF response
  <2>4. session.kind = "glob" => session.form # "none"
    BY <2>1 DEF page_of, glob, Directories
  <2>5. session.kind # "parse-query"
    BY <2>1 DEF Paged, Directories
  <2> QED
    BY <2>1, <2>3, <2>4, <2>5 DEF AnswerInv
<1>2. CASE CallGrep
  BY <1>2 DEF CallGrep, AnswerInv, Paged, Directories
<1>3. CASE CallParseQuery
  BY <1>3 DEF CallParseQuery, AnswerInv, Paged, Directories
<1>4. CASE FormatMatch
  BY <1>4 DEF FormatMatch, AnswerInv, Paged, Directories
<1>5. CASE Change
  BY <1>5 DEF Change, AnswerInv
<1>6. CASE UNCHANGED vars
  BY <1>6 DEF vars, AnswerInv
<1> QED
  BY <1>1, <1>2, <1>3, <1>4, <1>5, <1>6 DEF Next, Call

\* Whether a token is applied as a glob, of whatever form, by the constraints of a query.
Applied(constraints, t) == \E c \in ToSet(constraints) : c.type \in {"extension", "glob"} /\ c.value = t

\* What is warned about is a token that looks like a glob, and no preset applies it as one.
LEMMA WarnedNotApplied ==
  ASSUME NEW preset \in Presets, NEW tokens \in Seq(Token), NEW t \in ToSet(warnings_for(tokens))
  PROVE  t \in ToSet(tokens) /\ looks_glob(t) /\ ~Applied(parse_raw(preset, tokens), t)
<1>1. PICK at \in DOMAIN tokens : looks_glob(tokens[at]) /\ tokens[at].sep = "backslash" /\ t = tokens[at]
  BY WarningsHold
<1>2. t \in ToSet(tokens) /\ t \in Token
  <2>1. tokens[at] \in Token
    BY LenProperties, ElementOfSeq
  <2> QED
    BY <1>1, <2>1 DEF ToSet
<1>3. Reads[preset][t] \notin {"extension", "glob"}
  BY <1>1, <1>2, ReadsAssumption
<1>4. ASSUME NEW c \in ToSet(parse_raw(preset, tokens)), c.value = t
      PROVE  c.type = Reads[preset][t]
  <2>1. PICK i \in DOMAIN tokens : c = constraint(Reads[preset][tokens[i]], tokens[i], tokens[i].bangs)
    BY ParsedHolds
  <2> QED
    BY <1>4, <2>1 DEF constraint
<1> QED
  BY <1>1, <1>2, <1>3, <1>4 DEF Applied

\* In a file search a token that looks like a glob is warned about or applied.
LEMMA GlobsWarnedOrApplied ==
  ASSUME NEW tokens \in Seq(Token), NEW t \in ToSet(tokens), looks_glob(t)
  PROVE  (t \in ToSet(warnings_for(tokens))) # Applied(parse_raw("fileSearch", tokens), t)
<1> DEFINE found == parse_raw("fileSearch", tokens)
           kind == Reads["fileSearch"][t]
<1>1. PICK at \in DOMAIN tokens : tokens[at] = t
  BY DEF ToSet
<1>2. "fileSearch" \in Presets /\ t \in Token
  <2>1. tokens[at] \in Token
    BY LenProperties, ElementOfSeq
  <2> QED
    BY <1>1, <2>1 DEF Presets
<1>3. CASE t.sep = "backslash"
  <2>1. t \in ToSet(warnings_for(tokens))
    BY <1>1, <1>3, WarningsHold
  <2> QED
    BY <1>2, <2>1, WarnedNotApplied
<1>4. CASE t.sep # "backslash"
  <2>1. t \notin ToSet(warnings_for(tokens))
    BY <1>4, WarningsHold
  <2>2. kind \in {"extension", "glob"}
    BY <1>2, <1>4, ReadsAssumption
  <2>3. constraint(kind, t, t.bangs) \in ToSet(found)
    BY <1>1, <1>2, <2>2, ParsedHolds
  <2>4. constraint(kind, t, t.bangs).type = kind /\ constraint(kind, t, t.bangs).value = t
    BY DEF constraint
  <2> HIDE DEF kind, found
  <2>5. Applied(found, t)
    BY <2>2, <2>3, <2>4 DEF Applied
  <2> QED
    BY <2>1, <2>5 DEF found
<1> QED
  BY <1>3, <1>4

\* A token becomes a constraint or is left.
LEMMA FuzzyOrConstraint ==
  ASSUME NEW preset \in Presets, NEW tokens \in Seq(Token), NEW t \in ToSet(tokens)
  PROVE  (t \in ToSet(fuzzy_parts(preset, tokens))) # (\E c \in ToSet(parse_raw(preset, tokens)) : c.value = t)
<1>1. PICK at \in DOMAIN tokens : tokens[at] = t
  BY DEF ToSet
<1>2. CASE Reads[preset][t] = "fuzzy"
  <2>1. t \in ToSet(fuzzy_parts(preset, tokens))
    BY <1>1, <1>2, FuzzyHolds
  <2>2. ASSUME NEW c \in ToSet(parse_raw(preset, tokens)), c.value = t PROVE FALSE
    <3>1. PICK i \in DOMAIN tokens :
            /\ Reads[preset][tokens[i]] # "fuzzy"
            /\ c = constraint(Reads[preset][tokens[i]], tokens[i], tokens[i].bangs)
      BY ParsedHolds
    <3> QED
      BY <1>2, <2>2, <3>1 DEF constraint
  <2> QED
    BY <2>1, <2>2
<1>3. CASE Reads[preset][t] # "fuzzy"
  <2>1. t \notin ToSet(fuzzy_parts(preset, tokens))
    BY <1>3, FuzzyHolds
  <2>2. constraint(Reads[preset][t], t, t.bangs) \in ToSet(parse_raw(preset, tokens))
    BY <1>1, <1>3, ParsedHolds
  <2>3. constraint(Reads[preset][t], t, t.bangs).value = t
    BY DEF constraint
  <2> QED
    BY <2>1, <2>2, <2>3
<1> QED
  BY <1>2, <1>3

\* parse-query shows the constraints of the parser, each in the sense in which it is applied.
LEMMA ShownAsApplied ==
  ASSUME NEW preset \in Presets, NEW tokens \in Seq(Token)
  PROVE  LET shown == parse_query_response(preset, tokens).constraints
             found == parse_raw(preset, tokens)
         IN /\ \A t : Applied(shown, t) <=> Applied(found, t)
            /\ \A t : (\E c \in ToSet(shown) : c.value = t /\ c.negated = (t.bangs = 1))
                         <=> (\E c \in ToSet(found) : c.value = t)
<1> DEFINE found == parse_raw(preset, tokens)
           shown == parse_query_response(preset, tokens).constraints
<1>1. shown = [i \in DOMAIN found |-> constraint_dto(found[i])]
  BY DEF parse_query_response
<1>2. ToSet(shown) = {constraint_dto(c) : c \in ToSet(found)}
  BY <1>1 DEF ToSet
<1>3. ASSUME NEW c \in ToSet(found)
      PROVE  constraint_dto(c).type = c.type /\ constraint_dto(c).value = c.value
             /\ constraint_dto(c).negated = (c.value.bangs = 1)
  <2>1. PICK i \in DOMAIN tokens : c = constraint(Reads[preset][tokens[i]], tokens[i], tokens[i].bangs)
    BY ParsedHolds
  <2>2. tokens[i].bangs \in 0..2
    <3>1. tokens[i] \in Token
      BY LenProperties, ElementOfSeq
    <3> QED
      BY <3>1 DEF Token
  <2>3. (tokens[i].bangs % 2 = 1) = (tokens[i].bangs = 1)
    BY <2>2
  <2>4. c.nots = tokens[i].bangs /\ c.value = tokens[i]
    BY <2>1 DEF constraint
  <2> QED
    BY <2>3, <2>4 DEF constraint_dto
<1> HIDE DEF found, shown
<1>4. \A t : Applied(shown, t) <=> Applied(found, t)
  BY <1>2, <1>3 DEF Applied
<1>5. \A t : (\E c \in ToSet(shown) : c.value = t /\ c.negated = (t.bangs = 1)) <=> (\E c \in ToSet(found) : c.value = t)
  BY <1>2, <1>3
<1> QED
  BY <1>4, <1>5 DEF found, shown

\* Nothing given as data is dropped, and what the engine compares with paths has no backslash.
LEMMA StructuredKept ==
  ASSUME NEW q, \A f \in Fields : q[f] \in Seq(Token)
  PROVE  LET found == ToSet(structured_query(q)) IN
           /\ \A c \in found : c.type \in {"glob", "pathSegment", "filePath"} => c.value.sep # "backslash"
           /\ \A f \in Fields, t \in Token :
                t \in ToSet(q[f]) => \E c \in found :
                  /\ c.nots = (IF f \in {"excludePathSegments", "excludeText"} THEN 1 ELSE 0)
                  /\ c.value \in (IF c.type \in {"glob", "pathSegment", "filePath"} THEN {fold(t)} ELSE {t})
<1>1. \A f \in Fields : typeOf[f] \in {"glob", "pathSegment", "filePath"} <=> f \in PathFields
  BY DEF Fields, typeOf, PathFields
<1>2. \A f \in Fields : notsOf[f] = IF f \in {"excludePathSegments", "excludeText"} THEN 1 ELSE 0
  BY DEF notsOf
<1>3. \A f \in Fields : \A i \in DOMAIN q[f] : q[f][i] \in Token /\ fold(q[f][i]).sep # "backslash"
  <2>1. \A f \in Fields : \A i \in DOMAIN q[f] : q[f][i] \in Token
    BY LenProperties, ElementOfSeq
  <2> QED
    BY <2>1, FoldHolds
<1>4. ASSUME NEW c \in ToSet(structured_query(q)), c.type \in {"glob", "pathSegment", "filePath"}
      PROVE  c.value.sep # "backslash"
  <2>1. c \notin ToSet(git_status(q))
    <3>1. \A e : ToSet(<<e>>) = {e}
      BY DEF ToSet
    <3>2. ToSet(<<>>) = {}
      BY DEF ToSet
    <3>3. ToSet(git_status(q)) \subseteq {constraint("gitStatus", q.gitStatus, 0)}
      BY <3>1, <3>2 DEF git_status
    <3>4. constraint("gitStatus", q.gitStatus, 0).type = "gitStatus"
      BY DEF constraint
    <3> QED
      BY <1>4, <3>3, <3>4
  <2>2. PICK f \in Fields : \E i \in DOMAIN q[f] :
          c = constraint(typeOf[f], IF f \in PathFields THEN fold(q[f][i]) ELSE q[f][i], notsOf[f])
    BY <2>1, StructuredHolds
  <2>3. PICK i \in DOMAIN q[f] : c.type = typeOf[f] /\ c.value = IF f \in PathFields THEN fold(q[f][i]) ELSE q[f][i]
    BY <2>2 DEF constraint
  <2> QED
    BY <1>1, <1>3, <1>4, <2>3
<1>5. ASSUME NEW f \in Fields, NEW t \in Token, t \in ToSet(q[f])
      PROVE  \E c \in ToSet(structured_query(q)) :
               /\ c.nots = (IF f \in {"excludePathSegments", "excludeText"} THEN 1 ELSE 0)
               /\ c.value \in (IF c.type \in {"glob", "pathSegment", "filePath"} THEN {fold(t)} ELSE {t})
  <2>1. PICK i \in DOMAIN q[f] : q[f][i] = t
    BY <1>5 DEF ToSet
  <2> DEFINE c == constraint(typeOf[f], IF f \in PathFields THEN fold(t) ELSE t, notsOf[f])
  <2>2. c.type = typeOf[f] /\ c.nots = notsOf[f] /\ c.value = IF f \in PathFields THEN fold(t) ELSE t
    BY DEF constraint
  <2>3. c \in ToSet(structured_query(q))
    BY <2>1, StructuredHolds
  <2> HIDE DEF c
  <2> QED
    BY <1>1, <1>2, <2>2, <2>3
<1> QED
  BY <1>4, <1>5

\* A use that has ended has warned only of what no preset applies as a glob, and in a file
\* search of every glob that is not applied; it has shown what became of every token of
\* parse-query under its preset; and it has applied all that was given as constraints.
THEOREM SpecNoSilentLoss == Spec => []NoSilentLoss
<1>1. Init => AnswerInv
  BY DEF Init, AnswerInv
<1>2. IndexInv /\ AnswerInv => NoSilentLoss
  <2> DEFINE tokens == session.tokens
             preset == PresetOf(session)
  <2> SUFFICES ASSUME IndexInv, AnswerInv, done, session.kind \in Paged \cup {"parse-query"}, last # Refused
               PROVE  /\ (session.form = "raw" /\ session.kind # "glob") =>
                           /\ ToSet(last.warnings) \subseteq ToSet(tokens)
                           /\ \A t \in ToSet(last.warnings) : looks_glob(t) /\ ~Applied(last.constraints, t)
                      /\ (session.form = "raw"
                          /\ (session.kind = "search" \/ (session.kind = "parse-query" /\ session.preset = "fileSearch"))) =>
                           \A t \in ToSet(tokens) : looks_glob(t) =>
                             (t \in ToSet(last.warnings)) # Applied(last.constraints, t)
                      /\ session.kind = "parse-query" =>
                           \A t \in ToSet(tokens) :
                             (t \in ToSet(last.fuzzyParts))
                               # (\E c \in ToSet(last.constraints) : c.value = t /\ c.negated = (t.bangs = 1))
                      /\ session.kind = "glob" => \A c \in ToSet(last.constraints) : c.value.sep # "backslash"
                      /\ session.form = "structured" =>
                           /\ \A c \in ToSet(last.constraints) :
                                c.type \in {"glob", "pathSegment", "filePath"} => c.value.sep # "backslash"
                           /\ \A f \in Fields, t \in Token :
                                t \in ToSet(session.fields[f]) => \E c \in ToSet(last.constraints) :
                                  /\ c.nots = (IF f \in {"excludePathSegments", "excludeText"} THEN 1 ELSE 0)
                                  /\ c.value \in (IF c.type \in {"glob", "pathSegment", "filePath"}
                                                    THEN {fold(t)} ELSE {t})
    BY DEF NoSilentLoss, Applied
  <2>1. /\ session.kind = "parse-query" => session.form = "raw" /\ session.preset \in Presets
        /\ session.form = "raw" => session.tokens \in Seq(Token)
        /\ session.form = "structured" => \A f \in Fields : session.fields[f] \in Seq(Token)
        /\ session.kind = "glob" => session.form \in {"raw", "none"}
    BY SessionsAssumption DEF IndexInv, Paged, Directories
  <2>2. session.kind \in Paged \/ session.kind = "parse-query"
    OBVIOUS
  <2>3. session.kind = "parse-query" => last = parse_query_response(preset, tokens)
    BY DEF AnswerInv, PresetOf
  <2>4. (session.kind # "parse-query" /\ session.kind # "glob" /\ session.form = "raw") =>
          last.constraints = parse_raw(preset, tokens) /\ last.warnings = warnings_for(tokens)
    BY <2>2 DEF AnswerInv, Prepared, prepare
  <2>5. session.form = "structured" => last.constraints = structured_query(session.fields)
    <3>1. session.form = "structured" => session.kind \in Paged /\ session.kind # "glob"
      BY <2>1, <2>2
    <3> QED
      BY <3>1 DEF AnswerInv, Prepared, prepare
  <2>6. session.kind = "glob" =>
          session.form = "raw" /\ last.constraints = every("glob", fold_all(session.tokens), 0)
    BY <2>1, <2>2 DEF AnswerInv, Prepared
  <2>7. ASSUME session.form = "raw", session.kind # "glob"
        PROVE  /\ tokens \in Seq(Token) /\ preset \in Presets
               /\ last.warnings = warnings_for(tokens)
               /\ \A t : Applied(last.constraints, t) <=> Applied(parse_raw(preset, tokens), t)
    <3>1. tokens \in Seq(Token) /\ preset \in Presets
      BY <2>1, <2>7 DEF PresetOf, Presets
    <3>2. CASE session.kind = "parse-query"
      <4>1. last = parse_query_response(preset, tokens)
        BY <2>3, <3>2
      <4>2. last.warnings = warnings_for(tokens)
        BY <4>1 DEF parse_query_response
      <4>3. \A t : Applied(parse_query_response(preset, tokens).constraints, t) <=> Applied(parse_raw(preset, tokens), t)
        BY <3>1, ShownAsApplied
      <4> QED
        BY <3>1, <4>1, <4>2, <4>3
    <3>3. CASE session.kind # "parse-query"
      BY <2>4, <2>7, <3>1, <3>3
    <3> QED
      BY <3>2, <3>3
  <2>8. ASSUME session.form = "raw", session.kind # "glob", NEW t \in ToSet(last.warnings)
        PROVE  t \in ToSet(tokens) /\ looks_glob(t) /\ ~Applied(last.constraints, t)
    BY <2>7, <2>8, WarnedNotApplied
  <2>11. ASSUME session.form = "raw",
                session.kind = "search" \/ (session.kind = "parse-query" /\ session.preset = "fileSearch"),
                NEW t \in ToSet(tokens), looks_glob(t)
         PROVE  (t \in ToSet(last.warnings)) # Applied(last.constraints, t)
    <3>1. session.kind # "glob" /\ preset = "fileSearch"
      BY <2>11 DEF PresetOf
    <3>2. /\ tokens \in Seq(Token) /\ last.warnings = warnings_for(tokens)
          /\ Applied(last.constraints, t) <=> Applied(parse_raw("fileSearch", tokens), t)
      BY <2>7, <2>11, <3>1
    <3>3. (t \in ToSet(warnings_for(tokens))) # Applied(parse_raw("fileSearch", tokens), t)
      BY <2>11, <3>2, GlobsWarnedOrApplied
    <3> QED
      BY <3>2, <3>3 DEF Applied
  <2>12. ASSUME session.kind = "parse-query", NEW t \in ToSet(tokens)
         PROVE  (t \in ToSet(last.fuzzyParts))
                  # (\E c \in ToSet(last.constraints) : c.value = t /\ c.negated = (t.bangs = 1))
    <3>1. tokens \in Seq(Token) /\ preset \in Presets /\ last = parse_query_response(preset, tokens)
      BY <2>1, <2>3, <2>12 DEF PresetOf
    <3>2. last.fuzzyParts = fuzzy_parts(preset, tokens)
      BY <3>1 DEF parse_query_response
    <3>3. (\E c \in ToSet(last.constraints) : c.value = t /\ c.negated = (t.bangs = 1))
            <=> (\E c \in ToSet(parse_raw(preset, tokens)) : c.value = t)
      BY <3>1, ShownAsApplied
    <3>4. (t \in ToSet(fuzzy_parts(preset, tokens))) # (\E c \in ToSet(parse_raw(preset, tokens)) : c.value = t)
      BY <2>12, <3>1, FuzzyOrConstraint
    <3> QED
      BY <3>2, <3>3, <3>4
  <2>9. ASSUME session.kind = "glob", NEW c \in ToSet(last.constraints)
        PROVE  c.value.sep # "backslash"
    <3>1. session.tokens \in Seq(Token) /\ last.constraints = every("glob", fold_all(session.tokens), 0)
      BY <2>1, <2>6, <2>9
    <3> DEFINE patterns == fold_all(session.tokens)
    <3>2. patterns \in Seq(Token) /\ \A i \in DOMAIN patterns : patterns[i].sep # "backslash"
      BY <3>1, FoldHolds
    <3> HIDE DEF patterns
    <3>3. PICK i \in DOMAIN patterns : c = constraint("glob", patterns[i], 0)
      BY <3>1, <3>2, EveryHolds DEF patterns
    <3> QED
      BY <3>2, <3>3 DEF constraint
  <2>10. ASSUME session.form = "structured"
         PROVE  /\ \A c \in ToSet(last.constraints) :
                     c.type \in {"glob", "pathSegment", "filePath"} => c.value.sep # "backslash"
                /\ \A f \in Fields, t \in Token :
                     t \in ToSet(session.fields[f]) => \E c \in ToSet(last.constraints) :
                       /\ c.nots = (IF f \in {"excludePathSegments", "excludeText"} THEN 1 ELSE 0)
                       /\ c.value \in (IF c.type \in {"glob", "pathSegment", "filePath"} THEN {fold(t)} ELSE {t})
    <3> DEFINE q == session.fields
    <3>1. (\A f \in Fields : q[f] \in Seq(Token)) /\ last.constraints = structured_query(q)
      BY <2>1, <2>5, <2>10
    <3> HIDE DEF q
    <3> DEFINE found == ToSet(structured_query(q))
    <3>2. /\ \A c \in found : c.type \in {"glob", "pathSegment", "filePath"} => c.value.sep # "backslash"
          /\ \A f \in Fields, t \in Token :
               t \in ToSet(q[f]) => \E c \in found :
                 /\ c.nots = (IF f \in {"excludePathSegments", "excludeText"} THEN 1 ELSE 0)
                 /\ c.value \in (IF c.type \in {"glob", "pathSegment", "filePath"} THEN {fold(t)} ELSE {t})
      BY <3>1, StructuredKept
    <3>3. found = ToSet(last.constraints)
      BY <3>1
    <3> HIDE DEF found
    <3> QED
      BY <3>2, <3>3 DEF q
  <2> QED
    BY <2>8, <2>9, <2>10, <2>11, <2>12
<1> QED
  BY <1>1, <1>2, StepAnswer, SpecIndexInv, PTL DEF Spec

-----------------------------------------------------------------------------
(* The pages of a use. *)

Greps == {"grep", "multi-grep"}

\* Whether the server serves a request at all.
Accepts(req) ==
  /\ req.kind \in Paged => (IF req.kind = "glob" THEN req.form # "none" ELSE req.form # "both")
  /\ req.kind = "multi-grep" => req.form # "none"

Least(m, n) == IF m < n THEN m ELSE n

\* The ids of a list between two places.
Ids(list, from, to) == [i \in 1..(IF from < to THEN to - from ELSE 0) |-> list[from + i].id]

\* A use starts with nothing, is refused at its first page or never, and goes on with a
\* token that can be read.
StartInv ==
  session.kind \in Paged \cup Greps =>
    /\ pages = 0 => got = <<>> /\ place = session.start /\ last # Refused
    /\ last = Refused => pages = 1 /\ got = <<>> /\ done
    /\ (pages > 0 /\ ~done) => Accepts(session)
    /\ (pages > 0 /\ ~done /\ session.kind \in Greps) => place # NoCursor /\ offset_of(place) \in Nat

\* What the client has been given by number is what lies between the page that it started
\* with and the page that is next, in the list as it is now.
NumberInv ==
  (session.kind \in Paged /\ pages > 0 /\ ~disturbed /\ last # Refused) =>
    LET list == listed(index)
        behind == session.start * Size(session)
        reached == place * Size(session)
    IN /\ behind <= reached
       /\ got = Ids(list, behind, Least(reached, Len(list)))
       /\ ~done => reached <= Len(list)
       /\ (done /\ session.all) => Len(list) <= reached

\* Neither number of a page decides whether the request is served.
LEMMA PageAccepted ==
  ASSUME session.kind \in Paged, NEW page
  PROVE  page_of(session, page) # Refused <=> Accepts(session)
<1>1. \A list, prepared : response(session, page, list, prepared) # Refused
  BY DEF response, Refused
<1>2. CASE session.kind = "glob"
  BY <1>1, <1>2 DEF page_of, glob, Accepts, Directories
<1>3. CASE session.kind = "search"
  BY <1>1, <1>3 DEF page_of, search, Accepts, Directories, Paged
<1>4. CASE session.kind = Directories
  BY <1>1, <1>4 DEF page_of, search_directories, Accepts, Directories, Paged
<1>5. CASE session.kind = "search/mixed"
  BY <1>1, <1>5 DEF page_of, search_mixed, Accepts, Directories, Paged
<1> QED
  BY <1>2, <1>3, <1>4, <1>5 DEF Paged

\* A grep refuses what it does not serve and a token that it cannot read.
LEMMA GrepAccepted ==
  ASSUME session.kind \in Greps, NEW cursor,
         NEW page \in IF session.kind = "grep" THEN grep(session, cursor) ELSE multi_grep(session, cursor)
  PROVE  /\ page = Refused => ~Accepts(session) \/ (cursor # NoCursor /\ offset_of(cursor) = Malformed)
         /\ page # Refused => Accepts(session) /\ page \in grep(session, cursor)
<1>1. session.kind \notin Paged
  BY DEF Greps, Paged, Directories
<1>2. page \in grep(session, cursor) /\ page = Refused => cursor # NoCursor /\ offset_of(cursor) = Malformed
  <2>1. \A items, more : [code |-> 200, items |-> items, more |-> more] # Refused
    BY DEF Refused
  <2> QED
    BY <2>1 DEF grep
<1> QED
  BY <1>1, <1>2 DEF Greps, Accepts, multi_grep

\* Where a cursor points in an index without an end.
Origin(cursor) ==
  LET offset == IF cursor = NoCursor THEN 0 ELSE offset_of(cursor) IN
    IF offset <= session.base THEN 0 ELSE offset - session.base

\* The types of a grep, and where it scans from.
LEMMA GrepTypes ==
  ASSUME IndexInv, session.kind \in Greps
  PROVE  /\ index \in Seq(Entry) /\ Len(index) \in Nat /\ pages \in Nat
         /\ session.base \in Nat /\ session.base + Len(index) <= MaxUsize
         /\ session.size \in Nat /\ Size(session) >= 1
         /\ Origin(session.start) \in Nat
         /\ first_entry(session, session.start) = Least(Origin(session.start), Len(index))
         /\ \A to \in 0..Len(index) : first_entry(session, from_offset(session.base + to)) = to
<1>1. index \in Seq(Entry) /\ Len(index) \in Nat /\ pages \in Nat
  BY LenProperties DEF IndexInv
<1>2. session.base \in Nat /\ session.size \in Nat /\ session.start \in Seq(0..NotB64) \cup {NoCursor}
  BY SessionsAssumption, BoundsAssumption DEF IndexInv, Greps
<1>8. session.base + Len(index) <= MaxUsize
  <2>1. session.base + Len(index) + (MaxChanges - changes) <= MaxUsize /\ changes \in 0..MaxChanges
    BY DEF IndexInv, Greps
  <2> DEFINE n == Len(index)
  <2>2. n \in Nat /\ session.base + n + (MaxChanges - changes) <= MaxUsize
    BY <1>1, <2>1
  <2> HIDE DEF n
  <2>3. session.base + n <= MaxUsize
    BY <1>2, <2>1, <2>2, BoundsAssumption
  <2> QED
    BY <2>3 DEF n
<1>3. Size(session) >= 1
  BY <1>2 DEF Size
<1>4. session.start = NoCursor \/ offset_of(session.start) \in Int
  BY <1>2, OffsetType
<1>5. Origin(session.start) \in Nat
  BY <1>2, <1>4 DEF Origin
<1>6. first_entry(session, session.start) = Least(Origin(session.start), Len(index))
  BY <1>1, <1>2, <1>4 DEF Origin, first_entry, Least
<1>7. ASSUME NEW to \in 0..Len(index)
      PROVE  first_entry(session, from_offset(session.base + to)) = to
  <2> DEFINE offset == session.base + to
             token == from_offset(offset)
  <2>1. offset \in Nat /\ offset <= MaxUsize /\ to \in Nat /\ to <= Len(index)
    BY <1>1, <1>2, <1>8, BoundsAssumption
  <2>2. token # NoCursor /\ offset_of(token) = offset
    BY <2>1, CursorRoundTrip
  <2> HIDE DEF token
  <2>3. first_entry(session, token) =
          IF offset <= session.base THEN 0
          ELSE IF offset - session.base < Len(index) THEN offset - session.base ELSE Len(index)
    BY <2>2 DEF first_entry
  <2>4. first_entry(session, token) = to
    BY <1>1, <1>2, <2>1, <2>3
  <2> QED
    BY <2>4 DEF token
<1> QED
  BY <1>1, <1>2, <1>3, <1>5, <1>6, <1>7, <1>8

\* What the token of a page can be: none, or one that the server makes of an offset.
LEMMA GrepToken ==
  ASSUME session.base \in Nat, index \in Seq(Entry), NEW to \in 0..Len(index),
         session.base + Len(index) <= MaxUsize
  PROVE  \/ next_cursor(session, to) = NoCursor /\ (to = Len(index) \/ session.base + to = 0)
         \/ /\ next_cursor(session, to) = from_offset(session.base + to)
            /\ next_cursor(session, to) # NoCursor
            /\ offset_of(next_cursor(session, to)) = session.base + to
            /\ to < Len(index)
<1>1. Len(index) \in Nat
  BY LenProperties
<1>2. CASE to < Len(index) /\ session.base + to > 0
  <2>1. /\ next_cursor(session, to) = from_offset(session.base + to)
        /\ session.base + to \in Nat /\ session.base + to <= MaxUsize
    BY <1>1, <1>2, BoundsAssumption DEF next_cursor
  <2> QED
    BY <1>2, <2>1, CursorRoundTrip
<1>3. CASE ~(to < Len(index) /\ session.base + to > 0)
  BY <1>1, <1>3 DEF next_cursor
<1> QED
  BY <1>2, <1>3

\* Every step keeps what is said of the start of a use.
LEMMA StepStart == IndexInv /\ StartInv /\ [Next]_vars => StartInv'
<1> SUFFICES ASSUME IndexInv, StartInv, [Next]_vars, session'.kind \in Paged \cup Greps PROVE StartInv'
  BY DEF StartInv
<1>1. CASE CallPage
  <2> DEFINE page == page_of(session, place)
             ids == [i \in DOMAIN page.items |-> page.items[i].id]
  <2>1. /\ session' = session /\ session.kind \in Paged /\ ~done /\ pages' = pages + 1 /\ pages \in Nat
        /\ last' = page /\ got' = got \o ids
        /\ done' = (page = Refused \/ ~session.all \/ ~page.more)
    BY <1>1 DEF CallPage, IndexInv
  <2>2. page # Refused <=> Accepts(session)
    BY <2>1, PageAccepted
  <2>3. session.kind \notin Greps
    BY <2>1 DEF Paged, Greps, Directories
  <2>4. ASSUME page = Refused PROVE pages = 0 /\ got = <<>> /\ ids = <<>>
    <3>1. ~(pages > 0)
      BY <2>1, <2>2, <2>4 DEF StartInv
    <3>2. page.items = <<>>
      BY <2>4 DEF Refused
    <3> QED
      BY <2>1, <3>1, <3>2 DEF StartInv
  <2> HIDE DEF ids
  <2>5. last' = Refused => pages' = 1 /\ got' = <<>> /\ done'
    <3> SUFFICES ASSUME page = Refused PROVE pages' = 1 /\ got' = <<>> /\ done'
      BY <2>1
    <3>1. got' = <<>> \o <<>>
      BY <2>1, <2>4
    <3>2. <<>> \o <<>> = <<>>
      <4>1. <<>> \in Seq({})
        OBVIOUS
      <4> QED
        BY <4>1, ConcatEmptySeq
    <3>3. done'
      BY <2>1, Zenon
    <3>4. pages' = 1
      BY <2>1, <2>4
    <3> QED
      BY <3>1, <3>2, <3>3, <3>4
  <2>6. ~done' => Accepts(session)
    BY <2>1, <2>2
  <2>7. pages' # 0
    BY <2>1
  <2> QED
    BY <2>1, <2>3, <2>5, <2>6, <2>7 DEF StartInv, Accepts
<1>2. CASE CallGrep
  <2>1. PICK page \in IF session.kind = "grep" THEN grep(session, place) ELSE multi_grep(session, place) :
          /\ last' = page /\ got' = got \o page.items
          /\ place' = IF page = Refused THEN place ELSE page.more
          /\ done' = (page = Refused \/ ~session.all \/ page.more = NoCursor \/ pages + 1 = MaxPages)
    BY <1>2 DEF CallGrep
  <2>2. session' = session /\ session.kind \in Greps /\ ~done /\ pages' = pages + 1 /\ pages \in Nat
    BY <1>2 DEF CallGrep, IndexInv, Greps
  <2>3. /\ page = Refused => ~Accepts(session) \/ (place # NoCursor /\ offset_of(place) = Malformed)
        /\ page # Refused => Accepts(session) /\ page \in grep(session, place)
    BY <2>1, <2>2, GrepAccepted
  <2>4. ASSUME page = Refused PROVE pages = 0 /\ got = <<>> /\ page.items = <<>>
    <3>1. Malformed \notin Nat
      BY DEF Malformed
    <3>2. ~(pages > 0)
      BY <2>2, <2>3, <2>4, <3>1 DEF StartInv
    <3>3. page.items = <<>>
      BY <2>4 DEF Refused
    <3> QED
      BY <2>2, <3>2, <3>3 DEF StartInv
  <2>5. last' = Refused => pages' = 1 /\ got' = <<>> /\ done'
    <3> SUFFICES ASSUME page = Refused PROVE pages' = 1 /\ got' = <<>> /\ done'
      BY <2>1
    <3>1. got' = <<>> \o <<>>
      BY <2>1, <2>4
    <3>2. <<>> \o <<>> = <<>>
      <4>1. <<>> \in Seq({})
        OBVIOUS
      <4> QED
        BY <4>1, ConcatEmptySeq
    <3>3. done'
      BY <2>1, <2>2, Zenon
    <3>4. pages' = 1
      BY <2>1, <2>2, <2>4
    <3> QED
      BY <3>1, <3>2, <3>3, <3>4
  <2>6. ~done' => Accepts(session) /\ place' # NoCursor /\ offset_of(place') \in Nat
    <3> SUFFICES ASSUME ~done' PROVE Accepts(session) /\ place' # NoCursor /\ offset_of(place') \in Nat
      OBVIOUS
    <3>1. page # Refused /\ page \in grep(session, place) /\ Accepts(session)
          /\ place' = page.more /\ page.more # NoCursor
      BY <2>1, <2>3
    <3>2. PICK to \in 0..Len(index) : page.more = next_cursor(session, to)
      <4> DEFINE from == first_entry(session, place)
      <4>1. PICK to \in scan_ends(from, IF session.size = 0 THEN 1 ELSE session.size, session.budget) :
              page = [code |-> 200, items |-> lines_between(from, to), more |-> next_cursor(session, to)]
        BY <3>1 DEF grep, Refused
      <4>2. to \in from..Len(index) /\ page.more = next_cursor(session, to)
        BY <4>1 DEF scan_ends
      <4>3. from \in Nat
        <5>1. Len(index) \in Nat
          BY LenProperties DEF IndexInv
        <5>2. session.base \in Nat
          BY <2>2, SessionsAssumption DEF IndexInv, Greps
        <5>3. place = NoCursor \/ offset_of(place) \in Int
          <6>1. session.start \in Seq(0..NotB64) \cup {NoCursor}
            BY <2>2, SessionsAssumption DEF IndexInv, Greps
          <6> QED
            BY <2>2, <6>1, OffsetType DEF StartInv, Greps
        <5> QED
          BY <5>1, <5>2, <5>3 DEF first_entry
      <4> HIDE DEF from
      <4>4. to \in 0..Len(index)
        <5>1. Len(index) \in Nat
          BY LenProperties DEF IndexInv
        <5> QED
          BY <4>2, <4>3, <5>1
      <4> QED
        BY <4>2, <4>4
    <3>3. session.base \in Nat /\ index \in Seq(Entry) /\ session.base + Len(index) <= MaxUsize
      BY <2>2, GrepTypes
    <3>4. offset_of(page.more) = session.base + to
      BY <3>1, <3>2, <3>3, GrepToken
    <3> QED
      BY <3>1, <3>2, <3>3, <3>4
  <2>7. pages' # 0
    BY <2>2
  <2> QED
    BY <2>2, <2>5, <2>6, <2>7 DEF StartInv, Accepts
<1>3. CASE CallParseQuery \/ FormatMatch
  BY <1>3 DEF CallParseQuery, FormatMatch, StartInv, Paged, Directories, Greps
<1>4. CASE Change
  BY <1>4 DEF Change, StartInv, Accepts
<1>5. CASE UNCHANGED vars
  BY <1>5 DEF vars, StartInv, Accepts
<1> QED
  BY <1>1, <1>2, <1>3, <1>4, <1>5 DEF Next, Call

\* What is known of a sequence that starts with a part of another.
LEMMA PrefixAgrees ==
  ASSUME NEW S, NEW s \in Seq(S), NEW t \in Seq(S), NEW n \in 0..Len(s), IsPrefix(SubSeq(s, 1, n), t)
  PROVE  n <= Len(t) /\ \A i \in 1..n : t[i] = s[i]
<1> DEFINE p == SubSeq(s, 1, n)
<1>1. Len(s) \in Nat /\ Len(t) \in Nat
  BY LenProperties
<1>2. 1 \in 1..(Len(s) + 1) /\ n \in (1 - 1)..Len(s) /\ n \in Nat
  BY <1>1
<1>3. p \in Seq(S) /\ Len(p) = n - 1 + 1 /\ \A i \in 1..(n - 1 + 1) : p[i] = s[1 + i - 1]
  BY <1>2, Cut
<1>4. n - 1 + 1 = n /\ \A i \in 1..n : 1 + i - 1 = i
  BY <1>2
<1>5. Len(p) = n /\ \A i \in 1..n : p[i] = s[i]
  BY <1>3, <1>4
<1> HIDE DEF p
<1>6. n <= Len(t) /\ SubSeq(p, 1, n) = SubSeq(t, 1, n)
  BY <1>5 DEF IsPrefix, p
<1>7. \A i \in 1..n : SubSeq(p, 1, n)[i] = p[i]
  <2>1. 1 \in 1..(Len(p) + 1) /\ n \in (1 - 1)..Len(p)
    BY <1>2, <1>5
  <2>2. \A i \in 1..(n - 1 + 1) : SubSeq(p, 1, n)[i] = p[1 + i - 1]
    BY <1>3, <2>1, Cut
  <2> QED
    BY <1>4, <2>2
<1>8. \A i \in 1..n : SubSeq(t, 1, n)[i] = t[i]
  <2>1. 1 \in 1..(Len(t) + 1) /\ n \in (1 - 1)..Len(t)
    BY <1>1, <1>2, <1>6
  <2>2. \A i \in 1..(n - 1 + 1) : SubSeq(t, 1, n)[i] = t[1 + i - 1]
    BY <2>1, Cut
  <2> QED
    BY <1>4, <2>2
<1> QED
  BY <1>5, <1>6, <1>7, <1>8

\* A sequence is the beginning of what is made by adding to it.
LEMMA ConcatPrefix ==
  ASSUME NEW S, NEW s \in Seq(S), NEW t \in Seq(S)
  PROVE  IsPrefix(s, s \o t)
<1> DEFINE u == s \o t
           n == Len(s)
<1>1. /\ u \in Seq(S) /\ Len(u) = n + Len(t) /\ n \in Nat /\ Len(t) \in Nat
      /\ \A i \in 1..n : u[i] = s[i]
  <2>1. n \in Nat /\ Len(t) \in Nat
    BY LenProperties
  <2>2. \A i \in 1..n : i \in 1..(Len(s) + Len(t)) /\ i <= Len(s)
    BY <2>1
  <2> QED
    BY <2>1, <2>2, ConcatProperties
<1> HIDE DEF u, n
<1>2. n <= Len(u)
  BY <1>1
<1>3. 1 \in 1..(Len(u) + 1) /\ n \in (1 - 1)..Len(u) /\ n - 1 + 1 = n /\ \A i \in 1..n : 1 + i - 1 = i
  BY <1>1, <1>2
<1> DEFINE p == SubSeq(u, 1, n)
<1>4. p \in Seq(S) /\ Len(p) = n /\ \A i \in 1..n : p[i] = u[i]
  <2>1. p \in Seq(S) /\ Len(p) = n - 1 + 1 /\ \A i \in 1..(n - 1 + 1) : p[i] = u[1 + i - 1]
    BY <1>1, <1>3, Cut
  <2> HIDE DEF p
  <2> QED
    BY <1>3, <2>1
<1> HIDE DEF p
<1>5. p = s
  BY <1>1, <1>4, SeqEqual DEF n
<1>6. SubSeq(s, 1, n) = s
  BY SubSeqFull DEF n
<1> QED
  BY <1>2, <1>5, <1>6 DEF IsPrefix, n, p, u

\* Ids are ids; what lies between three places is what lies between each two of them.
LEMMA IdsType ==
  ASSUME NEW list \in Seq(Entry), NEW from \in Nat, NEW to \in 0..Len(list)
  PROVE  /\ Ids(list, from, to) \in Seq(Nat)
         /\ Len(Ids(list, from, to)) = IF from < to THEN to - from ELSE 0
         /\ from >= to => Ids(list, from, to) = <<>>
         /\ \A i \in 1..Len(Ids(list, from, to)) : Ids(list, from, to)[i] = list[from + i].id
<1> DEFINE n == IF from < to THEN to - from ELSE 0
           L == Len(list)
<1>1. L \in Nat /\ \A i \in 1..L : list[i].id \in Nat
  <2>1. \A i \in 1..L : list[i] \in Entry
    BY ElementOfSeq
  <2> QED
    BY <2>1, LenProperties DEF Entry
<1>2. to \in 0..L
  OBVIOUS
<1> HIDE DEF L
<1>3. n \in Nat /\ \A i \in 1..n : from + i \in 1..L
  BY <1>1, <1>2
<1>4. Ids(list, from, to) = [i \in 1..n |-> list[from + i].id]
  BY DEF Ids
<1>5. from >= to => n = 0
  BY <1>1, <1>2
<1> HIDE DEF n
<1>6. [i \in 1..n |-> list[from + i].id] \in [1..n -> Nat]
  BY <1>1, <1>3
<1>7. Ids(list, from, to) \in Seq(Nat) /\ Len(Ids(list, from, to)) = n
  <2> DEFINE s == [i \in 1..n |-> list[from + i].id]
  <2>1. s \in [1..n -> Nat] /\ n \in Nat /\ DOMAIN s = 1..n
    BY <1>3, <1>6
  <2> HIDE DEF s
  <2>2. s \in Seq(Nat) /\ Len(s) = n
    BY <2>1
  <2> QED
    BY <1>4, <2>2 DEF s
<1>8. n = 0 => Ids(list, from, to) = <<>>
  BY <1>7, EmptySeq
<1> QED
  BY <1>4, <1>5, <1>7, <1>8 DEF n

\* Two stretches that meet are one stretch.
LEMMA IdsConcat ==
  ASSUME NEW list \in Seq(Entry), NEW a \in Nat, NEW b \in Nat, NEW c \in 0..Len(list), a <= b, b <= c
  PROVE  Ids(list, a, b) \o Ids(list, b, c) = Ids(list, a, c)
<1> DEFINE s == Ids(list, a, b)
           t == Ids(list, b, c)
           u == Ids(list, a, c)
           w == s \o t
<1>1. Len(list) \in Nat /\ b \in 0..Len(list) /\ c \in Nat
  BY LenProperties
<1>2. /\ s \in Seq(Nat) /\ Len(s) = (IF a < b THEN b - a ELSE 0) /\ (\A i \in 1..Len(s) : s[i] = list[a + i].id)
      /\ t \in Seq(Nat) /\ Len(t) = (IF b < c THEN c - b ELSE 0) /\ (\A i \in 1..Len(t) : t[i] = list[b + i].id)
      /\ u \in Seq(Nat) /\ Len(u) = (IF a < c THEN c - a ELSE 0) /\ (\A i \in 1..Len(u) : u[i] = list[a + i].id)
  BY <1>1, IdsType
<1> HIDE DEF s, t, u
<1>3. /\ w \in Seq(Nat) /\ Len(w) = Len(s) + Len(t)
      /\ \A i \in 1..(Len(s) + Len(t)) : w[i] = IF i <= Len(s) THEN s[i] ELSE t[i - Len(s)]
  BY <1>2, ConcatProperties
<1> HIDE DEF w
<1>4. Len(s) = b - a /\ Len(t) = c - b /\ Len(u) = c - a
  BY <1>1, <1>2
<1>5. ASSUME NEW i \in 1..Len(w) PROVE w[i] = u[i]
  <2>1. i \in 1..(Len(s) + Len(t)) /\ i \in 1..Len(u)
    BY <1>1, <1>3, <1>4
  <2>2. CASE i <= Len(s)
    <3>1. i \in 1..Len(s)
      BY <1>1, <1>4, <2>1, <2>2
    <3> QED
      BY <1>2, <1>3, <2>1, <2>2, <3>1
  <2>3. CASE ~(i <= Len(s))
    <3>1. i - Len(s) \in 1..Len(t) /\ b + (i - Len(s)) = a + i
      BY <1>1, <1>4, <2>1, <2>3
    <3> QED
      BY <1>2, <1>3, <2>1, <2>3, <3>1
  <2> QED
    BY <2>2, <2>3
<1>6. Len(w) = Len(u)
  BY <1>1, <1>3, <1>4
<1>7. w = u
  BY <1>2, <1>3, <1>5, <1>6, SeqEqual
<1> QED
  BY <1>7 DEF w, s, t, u

\* The types of a use that is paged by number.
LEMMA NumberTypes ==
  ASSUME IndexInv, session.kind \in Paged
  PROVE  /\ listed(index) \in Seq(Entry) /\ Len(listed(index)) \in 0..MaxUsize
         /\ Size(session) \in 1..MaxUsize /\ session.size \in 0..MaxUsize
         /\ session.start \in Nat /\ place \in Nat /\ pages \in Nat
         /\ session.start * Size(session) \in Nat /\ place * Size(session) \in Nat
         /\ (place + 1) * Size(session) = place * Size(session) + Size(session)
<1>1. listed(index) \in Seq(Entry) /\ Len(listed(index)) <= Len(index) /\ Len(index) \in Nat
  BY ListedType, LenProperties DEF IndexInv
<1>2. Len(listed(index)) \in Nat
  BY <1>1, LenProperties
<1>3. Len(listed(index)) \in 0..MaxUsize
  BY <1>1, <1>2, BoundsAssumption DEF IndexInv
<1>4. session.start \in 0..MaxUsize /\ session.size \in 0..MaxUsize
  BY SessionsAssumption DEF IndexInv
<1>5. Size(session) \in 1..MaxUsize
  BY <1>4, BoundsAssumption DEF Size
<1>6. place \in Nat /\ pages \in Nat /\ session.start \in Nat
  BY <1>4, BoundsAssumption DEF IndexInv
<1> QED
  BY <1>1, <1>3, <1>4, <1>5, <1>6, Saturated

\* A page of numbers continues where the one before it ended.
LEMMA PageNumber ==
  ASSUME IndexInv, StartInv, NumberInv, CallPage
  PROVE  NumberInv'
<1> SUFFICES ASSUME ~disturbed', last' # Refused PROVE NumberInv'
  BY DEF NumberInv
<1> DEFINE page == page_of(session, place)
           list == listed(index)
           size == Size(session)
           behind == session.start * size
           reached == place * size
           end == Least(reached + size, Len(list))
           ids == [i \in DOMAIN page.items |-> page.items[i].id]
<1>1. /\ session' = session /\ index' = index /\ session.kind \in Paged /\ ~done /\ ~disturbed
      /\ last' = page /\ got' = got \o ids /\ place' = place + 1 /\ pages' = pages + 1
      /\ done' = (page = Refused \/ ~session.all \/ ~page.more)
  BY DEF CallPage
<1>2. /\ list \in Seq(Entry) /\ Len(list) \in 0..MaxUsize /\ Len(list) <= MaxUsize
      /\ size \in 1..MaxUsize /\ session.size \in 0..MaxUsize
      /\ session.start \in Nat /\ place \in Nat /\ pages \in Nat
      /\ behind \in Nat /\ reached \in Nat /\ (place + 1) * size = reached + size
  BY <1>1, NumberTypes, BoundsAssumption
<1>3. listed(index)' = list /\ Size(session)' = size
  BY <1>1 DEF listed, Size
<1> HIDE DEF list, size
<1>4. /\ page.items \in Seq([id : Nat, type : {"directory", "file"}])
      /\ Len(page.items) = PageLength(place, size, Len(list))
      /\ \A i \in 1..Len(page.items) :
           reached + i \in 1..Len(list) /\ page.items[i] = hit(list[reached + i])
      /\ page.more <=> reached + size < Len(list)
  <2> DEFINE r == response(session, place, list, Prepared(session))
  <2>1. page = r
    BY <1>1, PageIsResponse DEF list
  <2> HIDE DEF page
  <2>2. /\ r.items \in Seq([id : Nat, type : {"directory", "file"}])
        /\ Len(r.items) = PageLength(place, Size(session), Len(list))
        /\ \A i \in 1..Len(r.items) :
             /\ place * Size(session) + i \in 1..Len(list)
             /\ r.items[i] = hit(list[place * Size(session) + i])
        /\ r.more <=> place * Size(session) + Size(session) < Len(list)
    BY <1>2, ResponseHolds
  <2> HIDE DEF r
  <2> QED
    BY <2>1, <2>2 DEF size
<1> HIDE DEF page, reached
<1>5. end \in 0..Len(list) /\ end <= reached + size
  BY <1>2 DEF Least
<1>6. ids = Ids(list, reached, end)
  <2>1. DOMAIN page.items = 1..Len(page.items)
    BY <1>4, LenProperties
  <2>2. ids = [i \in 1..Len(page.items) |-> list[reached + i].id]
    <3>1. \A i \in 1..Len(page.items) : page.items[i].id = list[reached + i].id
      <4>1. \A entry : hit(entry).id = entry.id
        BY DEF hit
      <4> QED
        BY <1>4, <4>1
    <3> QED
      BY <2>1, <3>1
  <2>3. Len(page.items) = IF reached < end THEN end - reached ELSE 0
    <3>1. PageLength(place, size, Len(list))
            = IF Len(list) <= reached THEN 0
              ELSE IF Len(list) < reached + size THEN Len(list) - reached ELSE size
      BY DEF PageLength, reached
    <3> QED
      BY <1>2, <1>4, <3>1 DEF Least
  <2> QED
    BY <2>2, <2>3 DEF Ids
<1> HIDE DEF ids
<1>7. got' = Ids(list, behind, end) /\ behind <= reached
  <2>1. CASE pages = 0
    <3>1. got = <<>> /\ reached = behind
      BY <1>1, <2>1 DEF StartInv, reached, size
    <3>2. got' = <<>> \o Ids(list, reached, end)
      BY <1>1, <1>6, <3>1
    <3>3. Ids(list, reached, end) \in Seq(Nat)
      BY <1>2, <1>5, IdsType
    <3>4. got' = Ids(list, behind, end)
      BY <3>1, <3>2, <3>3, ConcatEmptySeq
    <3> QED
      BY <1>2, <3>1, <3>4
  <2>2. CASE pages # 0
    <3>1. last # Refused /\ pages > 0
      BY <1>1, <1>2, <2>2 DEF StartInv
    <3>2. behind <= reached /\ got = Ids(list, behind, Least(reached, Len(list))) /\ reached <= Len(list)
      BY <1>1, <3>1 DEF NumberInv, list, size, reached
    <3>3. Least(reached, Len(list)) = reached /\ reached <= end
      BY <1>2, <3>2 DEF Least
    <3>4. Ids(list, behind, reached) \o Ids(list, reached, end) = Ids(list, behind, end)
      BY <1>2, <1>5, <3>2, <3>3, IdsConcat
    <3> QED
      BY <1>1, <1>6, <3>2, <3>3, <3>4
  <2> QED
    BY <2>1, <2>2
<1>8. place' * size = reached + size
  BY <1>1, <1>2
<1>9. ~done' => reached + size <= Len(list)
  <2>1. ~done' => page.more
    BY <1>1, Zenon
  <2> QED
    BY <1>2, <1>4, <2>1
<1>10. (done' /\ session.all) => Len(list) <= reached + size
  <2>1. (done' /\ session.all) => ~page.more
    BY <1>1
  <2> QED
    BY <1>2, <1>4, <2>1
<1>11. behind <= reached + size
  BY <1>2, <1>7
<1> DEFINE pos == reached + size
<1> HIDE DEF behind
<1>12. /\ behind <= pos
       /\ got' = Ids(list, behind, Least(pos, Len(list)))
       /\ ~done' => pos <= Len(list)
       /\ (done' /\ session.all) => Len(list) <= pos
  BY <1>7, <1>9, <1>10, <1>11
<1>13. pos = place' * size
  BY <1>8
<1> HIDE DEF pos
<1> QED
  BY <1>1, <1>3, <1>12, <1>13 DEF NumberInv, behind

\* A change that leaves alone what was returned leaves the account of it true.
LEMMA ChangeNumber ==
  ASSUME IndexInv, NumberInv, Change, IndexInv'
  PROVE  NumberInv'
<1> SUFFICES ASSUME session.kind \in Paged, ~disturbed', last' # Refused PROVE NumberInv'
  BY DEF NumberInv, Change
<1> DEFINE list == listed(index)
           new == listed(index')
           size == Size(session)
           behind == session.start * size
           reached == place * size
<1>1. /\ session' = session /\ ~done /\ ~disturbed /\ pages > 0 /\ last' = last /\ got' = got
      /\ place' = place /\ done' = done /\ pages' = pages
      /\ IsPrefix(consumed(list), new)
  BY DEF Change
<1>2. /\ list \in Seq(Entry) /\ Len(list) \in Nat /\ behind \in Nat /\ reached \in Nat
  BY NumberTypes DEF IndexInv
<1>3. new \in Seq(Entry) /\ Len(new) \in Nat
  BY ListedType, LenProperties DEF IndexInv
<1>4. listed(index)' = new /\ Size(session)' = size
  BY <1>1 DEF listed, Size
<1>5. behind <= reached /\ got = Ids(list, behind, Least(reached, Len(list))) /\ reached <= Len(list)
  BY <1>1 DEF NumberInv
<1>6. consumed(list) = SubSeq(list, 1, IF reached < Len(list) THEN reached ELSE Len(list))
  BY DEF consumed, Size
<1> HIDE DEF list, new, size, reached
<1>7. IsPrefix(SubSeq(list, 1, reached), new)
  <2>1. (IF reached < Len(list) THEN reached ELSE Len(list)) = reached
    BY <1>2, <1>5
  <2> QED
    BY <1>1, <1>6, <2>1
<1>8. reached <= Len(new) /\ \A i \in 1..reached : new[i] = list[i]
  BY <1>2, <1>3, <1>5, <1>7, PrefixAgrees
<1> HIDE DEF behind
<1>9. Least(reached, Len(list)) = reached /\ Least(reached, Len(new)) = reached
  BY <1>2, <1>3, <1>5, <1>8 DEF Least
<1>10. Ids(new, behind, reached) = Ids(list, behind, reached)
  <2> DEFINE n == IF behind < reached THEN reached - behind ELSE 0
  <2>1. \A i \in 1..n : behind + i \in 1..reached
    BY <1>2
  <2>2. \A i \in 1..n : new[behind + i].id = list[behind + i].id
    BY <1>8, <2>1
  <2> QED
    BY <2>2 DEF Ids
<1>11. /\ behind <= reached
       /\ got' = Ids(new, behind, Least(reached, Len(new)))
       /\ reached <= Len(new)
       /\ ~done'
  BY <1>1, <1>5, <1>8, <1>9, <1>10
<1> QED
  BY <1>1, <1>4, <1>11 DEF NumberInv, behind, reached

\* Every step keeps the account of what was returned by number.
LEMMA StepNumber == IndexInv /\ StartInv /\ NumberInv /\ [Next]_vars => NumberInv'
<1> SUFFICES ASSUME IndexInv, StartInv, NumberInv, [Next]_vars PROVE NumberInv'
  OBVIOUS
<1>1. CASE CallPage
  BY <1>1, PageNumber
<1>2. CASE CallGrep
  BY <1>2 DEF CallGrep, NumberInv, Paged, Directories
<1>3. CASE CallParseQuery \/ FormatMatch
  BY <1>3 DEF CallParseQuery, FormatMatch, NumberInv, Paged, Directories
<1>4. CASE Change
  BY <1>4, ChangeNumber, ChangeIndex
<1>5. CASE UNCHANGED vars
  BY <1>5 DEF vars, NumberInv, listed, Size
<1> QED
  BY <1>1, <1>2, <1>3, <1>4, <1>5 DEF Next, Call

-----------------------------------------------------------------------------
(* The pages of a grep. *)

\* What is made of two sequences one after the other is what is made of each.
LEMMA FlattenConcat ==
  ASSUME NEW S, NEW s \in Seq(Seq(S)), NEW t \in Seq(Seq(S))
  PROVE  FlattenSeq(s \o t) = FlattenSeq(s) \o FlattenSeq(t)
<1>0. \A x, y, z \in Seq(S) : (x \o y) \o z = x \o (y \o z)
  BY ConcatAssociative, SMTT(30)
<1> DEFINE u == s \o t
           m == Len(s)
           n == Len(t)
<1>1. /\ u \in Seq(Seq(S)) /\ Len(u) = m + n /\ m \in Nat /\ n \in Nat
      /\ \A i \in 1..(m + n) : u[i] = IF i <= m THEN s[i] ELSE t[i - m]
  BY ConcatProperties, LenProperties
<1>2. PICK fs \in [0..m -> Seq(S)] :
        fs[0] = <<>> /\ (\A i \in 1..m : fs[i] = fs[i - 1] \o s[i]) /\ FlattenSeq(s) = fs[m]
  BY FlattenSteps
<1>3. PICK ft \in [0..n -> Seq(S)] :
        ft[0] = <<>> /\ (\A i \in 1..n : ft[i] = ft[i - 1] \o t[i]) /\ FlattenSeq(t) = ft[n]
  BY FlattenSteps
<1>4. PICK fu \in [0..(m + n) -> Seq(S)] :
        fu[0] = <<>> /\ (\A i \in 1..(m + n) : fu[i] = fu[i - 1] \o u[i]) /\ FlattenSeq(u) = fu[m + n]
  <2>1. PICK fu \in [0..Len(u) -> Seq(S)] :
          fu[0] = <<>> /\ (\A i \in 1..Len(u) : fu[i] = fu[i - 1] \o u[i]) /\ FlattenSeq(u) = fu[Len(u)]
    BY <1>1, FlattenSteps
  <2> QED
    BY <1>1, <2>1
<1>5. \A i \in 1..n : t[i] \in Seq(S)
  BY ElementOfSeq
<1> HIDE DEF u, m, n
<1> DEFINE T == {i \in 0..m : fu[i] = fs[i]}
<1>6. 0 \in T
  BY <1>1, <1>2, <1>4
<1>7. ASSUME NEW i \in 1..m, i - 1 \in T PROVE i \in T
  <2>1. i \in 0..m /\ i \in 1..(m + n) /\ i <= m /\ fu[i - 1] = fs[i - 1]
    BY <1>1, <1>7
  <2>2. u[i] = s[i]
    BY <1>1, <2>1
  <2> QED
    BY <1>2, <1>4, <2>1, <2>2
<1>8. fu[m] = fs[m]
  <2> HIDE DEF T
  <2>1. \A i \in 0..m : i \in T
    BY <1>1, <1>6, <1>7, UpTo
  <2> QED
    BY <1>1, <2>1 DEF T
<1>9. fs[m] \in Seq(S)
  BY <1>1, <1>2
<1> DEFINE V == {i \in 0..n : fu[m + i] = fs[m] \o ft[i]}
<1>10. 0 \in V
  <2>1. fs[m] \o <<>> = fs[m]
    BY <1>9, ConcatEmptySeq
  <2>2. m + 0 = m /\ 0 \in 0..n
    BY <1>1
  <2>3. fu[m + 0] = fs[m] \o ft[0]
    BY <1>3, <1>8, <2>1, <2>2
  <2> QED
    BY <2>2, <2>3
<1>11. ASSUME NEW i \in 1..n, i - 1 \in V PROVE i \in V
  <2> DEFINE j == m + i
  <2>1. /\ i \in 0..n /\ i - 1 \in 0..n /\ j \in 1..(m + n) /\ ~(j <= m) /\ j - m = i
        /\ j - 1 = m + (i - 1)
    BY <1>1
  <2>2. fu[j - 1] = fs[m] \o ft[i - 1]
    BY <1>11, <2>1
  <2> HIDE DEF j
  <2>3. u[j] = t[i]
    BY <1>1, <2>1
  <2>4. fu[j] = (fs[m] \o ft[i - 1]) \o t[i]
    BY <1>4, <2>1, <2>2, <2>3
  <2>5. ft[i - 1] \in Seq(S) /\ t[i] \in Seq(S)
    BY <1>3, <1>5, <2>1
  <2>6. (fs[m] \o ft[i - 1]) \o t[i] = fs[m] \o (ft[i - 1] \o t[i])
    <3> DEFINE x == fs[m]
               y == ft[i - 1]
               z == t[i]
    <3>1. x \in Seq(S) /\ y \in Seq(S) /\ z \in Seq(S)
      BY <1>9, <2>5
    <3> HIDE DEF x, y, z
    <3>2. (x \o y) \o z = x \o (y \o z)
      BY <1>0, <3>1, Zenon
    <3> QED
      BY <3>2 DEF x, y, z
  <2>7. ft[i] = ft[i - 1] \o t[i]
    BY <1>3
  <2>8. fu[j] = fs[m] \o ft[i]
    BY <2>4, <2>6, <2>7
  <2> QED
    BY <2>1, <2>8 DEF j
<1>12. fu[m + n] = fs[m] \o ft[n]
  <2> HIDE DEF V
  <2>1. \A i \in 0..n : i \in V
    BY <1>1, <1>10, <1>11, UpTo
  <2>2. n \in 0..n
    BY <1>1
  <2>3. n \in V
    BY <2>1, <2>2
  <2> QED
    BY <2>3, Zenon DEF V
<1> QED
  BY <1>2, <1>3, <1>4, <1>12 DEF u

Line == [id : Nat, line : Nat]

\* The lines of each entry between two places, entry by entry.
Reports(entries, from, to) == [i \in 1..(to - from) |-> lines(entries[from + i])]

\* The lines that match in a list between two places.
Between(entries, from, to) == FlattenSeq(Reports(entries, from, to))

\* What is known of them.
LEMMA ReportsType ==
  ASSUME NEW entries \in Seq(Entry), NEW from \in Nat, NEW to \in 0..Len(entries), from <= to
  PROVE  /\ Reports(entries, from, to) \in Seq(Seq(Line))
         /\ Len(Reports(entries, from, to)) = to - from
         /\ \A i \in 1..(to - from) : Reports(entries, from, to)[i] = lines(entries[from + i])
<1> DEFINE L == Len(entries)
           n == to - from
           r == Reports(entries, from, to)
<1>1. L \in Nat /\ \A i \in 1..L : entries[i] \in Entry
  BY LenProperties, ElementOfSeq
<1>2. \A e \in Entry : lines(e) \in Seq(Line)
  <2> SUFFICES ASSUME NEW e \in Entry PROVE lines(e) \in Seq(Line)
    OBVIOUS
  <2>1. e.id \in Nat /\ e.matches \in Nat
    BY DEF Entry
  <2>2. lines(e) = [k \in 1..e.matches |-> [id |-> e.id, line |-> k]]
    BY DEF lines
  <2>3. \A k \in 1..e.matches : [id |-> e.id, line |-> k] \in Line
    BY <2>1 DEF Line
  <2>4. lines(e) \in [1..e.matches -> Line]
    BY <2>2, <2>3
  <2> QED
    BY <2>1, <2>4
<1>3. to \in 0..L
  OBVIOUS
<1> HIDE DEF L
<1>4. n \in Nat /\ \A i \in 1..n : from + i \in 1..L
  BY <1>1, <1>3
<1>5. r = [i \in 1..n |-> lines(entries[from + i])]
  BY DEF Reports
<1> HIDE DEF n, r
<1>6. \A i \in 1..n : lines(entries[from + i]) \in Seq(Line)
  BY <1>1, <1>2, <1>4
<1>7. r \in [1..n -> Seq(Line)] /\ DOMAIN r = 1..n
  BY <1>5, <1>6
<1>8. r \in Seq(Seq(Line)) /\ Len(r) = n
  BY <1>4, <1>7
<1> QED
  BY <1>5, <1>8 DEF n, r

\* Two stretches that meet are one stretch.
LEMMA BetweenConcat ==
  ASSUME NEW entries \in Seq(Entry), NEW a \in Nat, NEW b \in Nat, NEW c \in 0..Len(entries), a <= b, b <= c
  PROVE  /\ Between(entries, a, b) \in Seq(Line) /\ Between(entries, b, c) \in Seq(Line)
         /\ Between(entries, a, b) \o Between(entries, b, c) = Between(entries, a, c)
<1> DEFINE s == Reports(entries, a, b)
           t == Reports(entries, b, c)
           u == Reports(entries, a, c)
           w == s \o t
<1>1. Len(entries) \in Nat /\ b \in 0..Len(entries) /\ c \in Nat /\ a <= c
  BY LenProperties
<1>2. /\ s \in Seq(Seq(Line)) /\ Len(s) = b - a /\ (\A i \in 1..(b - a) : s[i] = lines(entries[a + i]))
      /\ t \in Seq(Seq(Line)) /\ Len(t) = c - b /\ (\A i \in 1..(c - b) : t[i] = lines(entries[b + i]))
      /\ u \in Seq(Seq(Line)) /\ Len(u) = c - a /\ (\A i \in 1..(c - a) : u[i] = lines(entries[a + i]))
  BY <1>1, ReportsType
<1> HIDE DEF s, t, u
<1>3. /\ w \in Seq(Seq(Line)) /\ Len(w) = Len(s) + Len(t)
      /\ \A i \in 1..(Len(s) + Len(t)) : w[i] = IF i <= Len(s) THEN s[i] ELSE t[i - Len(s)]
  BY <1>2, ConcatProperties
<1> HIDE DEF w
<1>4. ASSUME NEW i \in 1..Len(w) PROVE w[i] = u[i]
  <2>1. i \in 1..(Len(s) + Len(t)) /\ i \in 1..(c - a)
    BY <1>1, <1>2, <1>3
  <2>2. CASE i <= Len(s)
    <3>1. i \in 1..(b - a)
      BY <1>1, <1>2, <2>1, <2>2
    <3> QED
      BY <1>2, <1>3, <2>1, <2>2, <3>1
  <2>3. CASE ~(i <= Len(s))
    <3>1. i - Len(s) \in 1..(c - b) /\ b + (i - Len(s)) = a + i
      <4> DEFINE n == Len(s)
      <4>1. n = b - a /\ i \in 1..(c - a) /\ ~(i <= n) /\ b \in Nat /\ a \in Nat /\ c \in Nat
        BY <1>1, <1>2, <2>1, <2>3
      <4> HIDE DEF n
      <4>2. i - n \in 1..(c - b) /\ b + (i - n) = a + i
        BY <4>1
      <4> QED
        BY <4>2 DEF n
    <3> QED
      BY <1>2, <1>3, <2>1, <2>3, <3>1
  <2> QED
    BY <2>2, <2>3
<1>5. Len(w) = Len(u)
  BY <1>1, <1>2, <1>3
<1>6. w = u
  BY <1>2, <1>3, <1>4, <1>5, SeqEqual
<1>7. FlattenSeq(s) \in Seq(Line) /\ FlattenSeq(t) \in Seq(Line)
  BY <1>2, FlattenType
<1>8. FlattenSeq(w) = FlattenSeq(s) \o FlattenSeq(t)
  BY <1>2, FlattenConcat DEF w
<1> QED
  BY <1>6, <1>7, <1>8 DEF Between, s, t, u

\* What is reported depends on the entries between the two places only.
LEMMA BetweenSame ==
  ASSUME NEW s, NEW t, NEW from \in Nat, NEW to \in Nat, \A i \in 1..to : s[i] = t[i]
  PROVE  Between(s, from, to) = Between(t, from, to)
<1>1. \A i \in 1..(to - from) : from + i \in 1..to
  OBVIOUS
<1>2. \A i \in 1..(to - from) : lines(s[from + i]) = lines(t[from + i])
  BY <1>1
<1> QED
  BY <1>2 DEF Between, Reports

\* What the client has been given by a grep is what lies between the place that its first
\* token names and the place where the last scan ended, in the index as it is now.
CursorInv ==
  (session.kind \in Greps /\ pages > 0 /\ ~disturbed /\ last # Refused) =>
    \E to \in 0..Len(index) :
      /\ Least(Origin(session.start), Len(index)) <= to
      /\ got = Between(index, Least(Origin(session.start), Len(index)), to)
      /\ ~done => Origin(session.start) <= to /\ place = from_offset(session.base + to)
      /\ (done /\ session.all /\ pages < MaxPages /\ ~session.budget) => to = Len(index)

\* A page of a grep continues where the one before it ended.
LEMMA PageCursor ==
  ASSUME IndexInv, StartInv, CursorInv, CallGrep
  PROVE  CursorInv'
<1> SUFFICES ASSUME ~disturbed', last' # Refused PROVE CursorInv'
  BY DEF CursorInv
<1> DEFINE L == Len(index)
           start == Origin(session.start)
           first == Least(start, L)
           from == first_entry(session, place)
           limit == IF session.size = 0 THEN 1 ELSE session.size
<1>1. PICK page \in IF session.kind = "grep" THEN grep(session, place) ELSE multi_grep(session, place) :
        /\ last' = page /\ got' = got \o page.items
        /\ place' = IF page = Refused THEN place ELSE page.more
        /\ done' = (page = Refused \/ ~session.all \/ page.more = NoCursor \/ pages + 1 = MaxPages)
  BY DEF CallGrep
<1>2. session' = session /\ index' = index /\ session.kind \in Greps /\ ~done /\ ~disturbed /\ pages' = pages + 1
  BY DEF CallGrep, Greps
<1>3. /\ index \in Seq(Entry) /\ L \in Nat /\ pages \in Nat /\ limit >= 1 /\ limit \in Nat
      /\ session.base \in Nat /\ session.base + L <= MaxUsize
      /\ start \in Nat
      /\ first_entry(session, session.start) = first
      /\ \A to \in 0..L : first_entry(session, from_offset(session.base + to)) = to
  BY <1>2, GrepTypes DEF Size
<1>4. page # Refused /\ page \in grep(session, place)
  BY <1>1, <1>2, GrepAccepted
<1>5. PICK to \in scan_ends(from, limit, session.budget) :
        page = [code |-> 200, items |-> lines_between(from, to), more |-> next_cursor(session, to)]
  BY <1>4 DEF grep, Refused
<1>6. /\ to \in from..L
      /\ session.budget \/ Len(lines_between(from, to)) >= limit \/ to = L
  BY <1>5 DEF scan_ends
<1>7. page.items = Between(index, from, to) /\ page.more = next_cursor(session, to)
  BY <1>5 DEF lines_between, Between, Reports
<1>8. Origin(session.start)' = start
  BY <1>2 DEF Origin
<1> HIDE DEF L, start, from, limit
<1>9. /\ from \in Nat /\ first <= from
      /\ got \o Between(index, from, to) = Between(index, first, to)
      /\ to < L => start <= to
  <2>1. CASE pages = 0
    <3>1. got = <<>> /\ place = session.start
      BY <1>2, <2>1 DEF StartInv
    <3>2. from = first
      BY <1>3, <3>1 DEF from
    <3>3. first \in Nat /\ (first < L => first = start)
      BY <1>3 DEF Least
    <3>4. Between(index, from, to) \in Seq(Line)
      <4>1. to \in 0..L /\ from <= to /\ from \in Nat /\ to \in Nat
        BY <1>3, <1>6, <3>2, <3>3
      <4> QED
        BY <1>3, <4>1, BetweenConcat DEF L
    <3>5. got \o Between(index, from, to) = Between(index, first, to)
      BY <3>1, <3>2, <3>4, ConcatEmptySeq
    <3>6. to < L => start <= to
      BY <1>3, <1>6, <3>2, <3>3
    <3> QED
      BY <1>3, <3>2, <3>3, <3>5, <3>6
  <2>2. CASE pages # 0
    <3>1. last # Refused /\ pages > 0
      BY <1>2, <1>3, <2>2 DEF StartInv
    <3>2. PICK mid \in 0..L :
            /\ first <= mid /\ got = Between(index, first, mid)
            /\ start <= mid /\ place = from_offset(session.base + mid)
      BY <1>2, <3>1 DEF CursorInv, L, start
    <3>3. from = mid
      BY <1>3, <3>2 DEF from
    <3>4. mid \in Nat /\ first \in Nat /\ to \in 0..L /\ mid <= to
      BY <1>3, <1>6, <3>2, <3>3 DEF Least
    <3>5. Between(index, first, mid) \o Between(index, mid, to) = Between(index, first, to)
      BY <1>3, <3>2, <3>4, BetweenConcat DEF L
    <3>6. start <= to
      BY <1>3, <3>2, <3>4
    <3> QED
      BY <3>2, <3>3, <3>4, <3>5, <3>6
  <2> QED
    BY <2>1, <2>2
<1>10. to \in 0..L /\ first <= to /\ to \in Nat
  BY <1>3, <1>6, <1>9 DEF Least
<1>11. got' = Between(index, first, to)
  BY <1>1, <1>7, <1>9
<1>12. \/ page.more = NoCursor /\ (to = L \/ session.base + to = 0)
       \/ /\ page.more = from_offset(session.base + to) /\ page.more # NoCursor /\ to < L
  BY <1>3, <1>7, <1>10, GrepToken DEF L
<1>13. ~done' => start <= to /\ place' = from_offset(session.base + to)
  <2>1. ~done' => page.more # NoCursor
    BY <1>1
  <2> QED
    BY <1>1, <1>4, <1>9, <1>12, <2>1
<1>14. (done' /\ session.all /\ pages' < MaxPages /\ ~session.budget) => to = L
  <2> SUFFICES ASSUME done', session.all, pages' < MaxPages, ~session.budget, to # L PROVE FALSE
    OBVIOUS
  <2>1. page.more = NoCursor
    <3>1. pages + 1 # MaxPages
      BY <1>2, <1>3, BoundsAssumption
    <3> QED
      BY <1>1, <1>4, <3>1
  <2>2. session.base + to = 0
    BY <1>12, <2>1
  <2>3. to = 0 /\ from = 0
    <3>1. to = 0
      BY <1>3, <1>10, <2>2
    <3>2. from \in Nat /\ L \in Nat /\ to \in from..L
      BY <1>3, <1>6, <1>9
    <3> QED
      BY <3>1, <3>2
  <2>4. lines_between(0, 0) = <<>>
    <3>1. lines_between(0, 0) = FlattenSeq([i \in 1..0 |-> lines(index[0 + i])])
      BY DEF lines_between
    <3>2. [i \in 1..0 |-> lines(index[0 + i])] = <<>>
      OBVIOUS
    <3> QED
      BY <3>1, <3>2 DEF FlattenSeq
  <2>5. Len(lines_between(from, to)) = 0
    BY <2>3, <2>4
  <2> QED
    BY <1>3, <1>6, <2>5
<1> HIDE DEF first
<1>15. /\ to \in 0..L /\ first <= to /\ got' = Between(index, first, to)
       /\ ~done' => start <= to /\ place' = from_offset(session.base + to)
       /\ (done' /\ session.all /\ pages' < MaxPages /\ ~session.budget) => to = L
  BY <1>10, <1>11, <1>13, <1>14
<1> QED
  BY <1>2, <1>8, <1>15 DEF CursorInv, L, first, start, Least

\* A change that leaves alone what was returned leaves the account of it true.
LEMMA ChangeCursor ==
  ASSUME IndexInv, CursorInv, Change, IndexInv'
  PROVE  CursorInv'
<1> SUFFICES ASSUME session.kind \in Greps, ~disturbed', last' # Refused PROVE CursorInv'
  BY DEF CursorInv, Change
<1> DEFINE L == Len(index)
           start == Origin(session.start)
<1>1. /\ session' = session /\ ~done /\ ~disturbed /\ pages > 0 /\ last' = last /\ got' = got
      /\ place' = place /\ done' = done /\ pages' = pages
      /\ IsPrefix(consumed(listed(index)), listed(index'))
  BY DEF Change
<1>2. listed(index) = index /\ listed(index') = index'
  BY DEF listed, Greps, Directories
<1>3. index \in Seq(Entry) /\ L \in Nat /\ session.base \in Nat /\ start \in Nat /\ session.base + L <= MaxUsize
  BY GrepTypes
<1>4. index' \in Seq(Entry) /\ Len(index') \in Nat
  BY LenProperties DEF IndexInv
<1>5. PICK to \in 0..L :
        /\ Least(start, L) <= to /\ got = Between(index, Least(start, L), to)
        /\ start <= to /\ place = from_offset(session.base + to)
  BY <1>1 DEF CursorInv
<1>6. consumed(index) = SubSeq(index, 1, to)
  <2>1. session.base + to \in Nat /\ to \in Nat /\ to <= L /\ session.base + to <= MaxUsize
    BY <1>3, BoundsAssumption
  <2>2. place # NoCursor /\ offset_of(place) - session.base = to
    <3>1. place # NoCursor /\ offset_of(place) = session.base + to
      BY <1>5, <2>1, CursorRoundTrip
    <3> QED
      BY <1>3, <2>1, <3>1
  <2>3. session.kind \notin Paged
    BY DEF Paged, Greps, Directories
  <2>4. consumed(index) = SubSeq(index, 1, IF to < L THEN to ELSE L)
    BY <2>2, <2>3 DEF consumed
  <2>5. (IF to < L THEN to ELSE L) = to
    BY <1>3, <2>1
  <2> QED
    BY <2>4, <2>5
<1>7. to <= Len(index') /\ \A i \in 1..to : index'[i] = index[i]
  BY <1>1, <1>2, <1>3, <1>4, <1>6, PrefixAgrees
<1>8. Origin(session.start)' = start
  BY <1>1 DEF Origin
<1> HIDE DEF L, start
<1>9. Least(start, L) = start /\ Least(start, Len(index')) = start /\ to \in 0..Len(index') /\ to \in Nat
  BY <1>3, <1>4, <1>5, <1>7 DEF Least
<1>10. Between(index', start, to) = Between(index, start, to)
  BY <1>3, <1>7, <1>9, BetweenSame
<1>11. /\ to \in 0..Len(index') /\ Least(start, Len(index')) <= to
       /\ got' = Between(index', Least(start, Len(index')), to)
       /\ start <= to /\ place' = from_offset(session.base + to) /\ ~done'
  BY <1>1, <1>5, <1>9, <1>10
<1> QED
  BY <1>1, <1>8, <1>11 DEF CursorInv, Least

\* Every step keeps the account of what was returned by a grep.
LEMMA StepCursor == IndexInv /\ StartInv /\ CursorInv /\ [Next]_vars => CursorInv'
<1> SUFFICES ASSUME IndexInv, StartInv, CursorInv, [Next]_vars PROVE CursorInv'
  OBVIOUS
<1>1. CASE CallPage
  BY <1>1 DEF CallPage, CursorInv, Paged, Directories, Greps
<1>2. CASE CallGrep
  BY <1>2, PageCursor
<1>3. CASE CallParseQuery \/ FormatMatch
  BY <1>3 DEF CallParseQuery, FormatMatch, CursorInv, Greps
<1>4. CASE Change
  BY <1>4, ChangeCursor, ChangeIndex
<1>5. CASE UNCHANGED vars
  BY <1>5 DEF vars, CursorInv, Origin
<1> QED
  BY <1>1, <1>2, <1>3, <1>4, <1>5 DEF Next, Call

-----------------------------------------------------------------------------
(* The pages follow each other. *)

\* Only a use that asks for pages counts them.
KindInv == pages > 0 => session.kind \in Paged \cup Greps

\* What is known of the pages of a use, together.
TileInv == IndexInv /\ KindInv /\ StartInv /\ NumberInv /\ CursorInv

\* It holds before the first page.
LEMMA InitTile == Init => TileInv
<1> SUFFICES ASSUME Init PROVE TileInv
  OBVIOUS
<1>1. IndexInv
  BY InitIndex
<1>2. pages = 0 /\ got = <<>> /\ place = session.start /\ last = NoAnswer
  BY DEF Init
<1>3. last # Refused
  BY <1>2 DEF NoAnswer, Refused
<1> QED
  BY <1>1, <1>2, <1>3 DEF TileInv, KindInv, StartInv, NumberInv, CursorInv

\* Every step keeps it.
LEMMA StepTile == TileInv /\ [Next]_vars => TileInv'
<1> SUFFICES ASSUME TileInv, [Next]_vars PROVE TileInv'
  OBVIOUS
<1>1. IndexInv' /\ StartInv' /\ NumberInv' /\ CursorInv'
  BY StepIndex, StepStart, StepNumber, StepCursor DEF TileInv
<1>2. KindInv'
  <2>1. CASE CallPage \/ CallGrep
    BY <2>1 DEF KindInv, CallPage, CallGrep, Greps
  <2>2. CASE CallParseQuery \/ FormatMatch \/ Change \/ UNCHANGED vars
    BY <2>2 DEF TileInv, KindInv, CallParseQuery, FormatMatch, Change, vars
  <2> QED
    BY <2>1, <2>2 DEF Next, Call
<1> QED
  BY <1>1, <1>2 DEF TileInv

\* The beginning of a stretch, and the empty sequence, begin the stretch.
LEMMA IdsPrefix ==
  ASSUME NEW list \in Seq(Entry), NEW a \in Nat, NEW b \in 0..Len(list)
  PROVE  IsPrefix(Ids(list, a, b), Ids(list, a, Len(list)))
<1> DEFINE n == Len(list)
           u == Ids(list, a, n)
<1>1. n \in Nat /\ n \in 0..n /\ b \in Nat /\ b <= n
  BY LenProperties
<1>2. u \in Seq(Nat)
  BY <1>1, IdsType
<1>3. CASE a <= b
  <2>1. Ids(list, a, b) \in Seq(Nat) /\ Ids(list, b, n) \in Seq(Nat)
    BY <1>1, IdsType
  <2>2. Ids(list, a, b) \o Ids(list, b, n) = u
    BY <1>1, <1>3, IdsConcat
  <2> QED
    BY <2>1, <2>2, ConcatPrefix
<1>4. CASE ~(a <= b)
  <2>1. a >= b
    BY <1>1, <1>4
  <2>2. Ids(list, a, b) = <<>>
    BY <1>1, <2>1, IdsType
  <2> HIDE DEF u
  <2>3. <<>> \in Seq(Nat) /\ <<>> \o u = u
    BY <1>2, ConcatEmptySeq
  <2>4. IsPrefix(<<>>, u)
    BY <1>2, <2>3, ConcatPrefix
  <2> QED
    BY <2>2, <2>4 DEF u
<1> QED
  BY <1>3, <1>4

\* The empty sequence begins every other.
LEMMA EmptyPrefix ==
  ASSUME NEW S, NEW s \in Seq(S)
  PROVE  IsPrefix(<<>>, s)
<1>1. <<>> \in Seq(S) /\ <<>> \o s = s
  BY ConcatEmptySeq
<1> QED
  BY <1>1, ConcatPrefix

\* What was returned by number is the beginning of everything, and in the end everything.
LEMMA NumberTiles ==
  ASSUME TileInv, session.kind \in Paged, pages > 0, ~disturbed
  PROVE  /\ IsPrefix(got, Everything)
         /\ (done /\ session.all /\ last # Refused) => got = Everything
<1> DEFINE list == listed(index)
           n == Len(list)
           behind == session.start * Size(session)
           reached == place * Size(session)
<1>1. list \in Seq(Entry) /\ n \in Nat /\ behind \in Nat /\ reached \in Nat
  BY NumberTypes DEF TileInv
<1>2. Everything = Ids(list, behind, n)
  BY DEF Everything, Ids, Size
<1>3. Ids(list, behind, n) \in Seq(Nat)
  <2>1. n \in 0..n
    BY <1>1
  <2> QED
    BY <1>1, <2>1, IdsType
<1>4. CASE last = Refused
  <2>1. got = <<>>
    BY <1>4 DEF TileInv, StartInv
  <2> QED
    BY <1>2, <1>3, <1>4, <2>1, EmptyPrefix
<1>5. CASE last # Refused
  <2>1. /\ got = Ids(list, behind, Least(reached, n))
        /\ (done /\ session.all) => n <= reached
    BY <1>5 DEF TileInv, NumberInv
  <2> HIDE DEF list, behind, reached
  <2>2. Least(reached, n) \in 0..n
    BY <1>1 DEF Least
  <2>3. n <= reached => Least(reached, n) = n
    BY <1>1 DEF Least
  <2>4. IsPrefix(got, Ids(list, behind, n))
    BY <1>1, <2>1, <2>2, IdsPrefix
  <2> QED
    BY <1>2, <2>1, <2>3, <2>4
<1> QED
  BY <1>4, <1>5

\* The same for a grep that is not stopped.
LEMMA CursorTiles ==
  ASSUME TileInv, session.kind \in Greps, pages > 0, ~disturbed
  PROVE  /\ IsPrefix(got, Everything)
         /\ (done /\ session.all /\ last # Refused /\ pages < MaxPages /\ ~session.budget) => got = Everything
<1> DEFINE n == Len(index)
           first == Least(Origin(session.start), n)
<1>1. /\ index \in Seq(Entry) /\ n \in Nat /\ Origin(session.start) \in Nat
      /\ first_entry(session, session.start) = first
  BY GrepTypes DEF TileInv
<1>2. Everything = Between(index, first, n)
  <2>1. session.kind \notin Paged
    BY DEF Greps, Paged, Directories
  <2> QED
    BY <1>1, <2>1 DEF Everything, lines_between, Between, Reports
<1>3. first \in Nat /\ first <= n /\ n \in 0..n
  BY <1>1 DEF Least
<1>4. Between(index, first, n) \in Seq(Line)
  BY <1>1, <1>3, BetweenConcat
<1>5. CASE last = Refused
  <2>1. got = <<>>
    BY <1>5 DEF TileInv, StartInv
  <2> QED
    BY <1>2, <1>4, <1>5, <2>1, EmptyPrefix
<1>6. CASE last # Refused
  <2>1. PICK to \in 0..n :
          /\ first <= to /\ got = Between(index, first, to)
          /\ (done /\ session.all /\ pages < MaxPages /\ ~session.budget) => to = n
    BY <1>6 DEF TileInv, CursorInv
  <2> HIDE DEF first
  <2>2. to \in Nat /\ to <= n
    BY <1>1
  <2>3. /\ Between(index, first, to) \in Seq(Line) /\ Between(index, to, n) \in Seq(Line)
        /\ Between(index, first, to) \o Between(index, to, n) = Between(index, first, n)
    BY <1>1, <1>3, <2>1, <2>2, BetweenConcat
  <2>4. IsPrefix(Between(index, first, to), Between(index, first, n))
    BY <2>3, ConcatPrefix
  <2> QED
    BY <1>2, <2>1, <2>4
<1> QED
  BY <1>5, <1>6

\* While nothing changes in what was returned already, the pages of a search, a glob or a
\* grep follow each other without a gap or a repetition, whatever their sizes, however
\* a time budget cuts a grep and whatever the watcher does behind them; and no token of the
\* server is refused.  That nothing is missing at the end is said of clients that ask for
\* everything by number, or by cursor without a time budget and below the page limit.
THEOREM SpecPagesTile == Spec => []PagesTile
<1>1. TileInv => PagesTile
  <2> SUFFICES ASSUME TileInv, pages > 0, ~disturbed
               PROVE  /\ IsPrefix(got, Everything)
                      /\ last = Refused => pages = 1
                      /\ (/\ done /\ session.all /\ last # Refused
                          /\ session.kind \in Paged \/ (pages < MaxPages /\ ~session.budget))
                           => got = Everything
    BY DEF PagesTile
  <2>1. session.kind \in Paged \cup Greps
    BY DEF TileInv, KindInv
  <2>2. last = Refused => pages = 1
    BY <2>1 DEF TileInv, StartInv
  <2>3. CASE session.kind \in Paged
    BY <2>2, <2>3, NumberTiles
  <2>4. CASE session.kind \in Greps
    <3>1. session.kind \notin Paged
      BY <2>4 DEF Greps, Paged, Directories
    <3> QED
      BY <2>2, <2>4, <3>1, CursorTiles
  <2> QED
    BY <2>1, <2>3, <2>4
<1> QED
  BY <1>1, InitTile, StepTile, PTL DEF Spec

-----------------------------------------------------------------------------
(* The widths of characters add up. *)

\* The steps of a computation on numbers or on what else it is about.
Steps(n, A) == [1..n -> [A -> A]]
Computations(n, A, a, step) ==
  {g \in [0..n -> A] : g[0] = a /\ \A i \in 1..n : g[i] = step[i][g[i - 1]]}

\* What is computed step by step from a number on, as long as its steps stay in a set.
LEMMA Iterate ==
  ASSUME NEW n \in Nat, NEW A, NEW a \in A, NEW step \in Steps(n, A)
  PROVE  Computations(n, A, a, step) # {}
<1> DEFINE Partial(m, g) == g \in [0..m -> A] /\ g[0] = a /\ \A i \in 1..m : g[i] = step[i][g[i - 1]]
           T == {m \in 0..n : \E g : Partial(m, g)}
<1>1. 0 \in T
  <2>1. Partial(0, [i \in 0..0 |-> a])
    OBVIOUS
  <2> HIDE DEF Partial
  <2>2. \E g : Partial(0, g)
    BY <2>1
  <2> QED
    BY <2>2
<1>2. ASSUME NEW m \in 1..n, m - 1 \in T PROVE m \in T
  <2>1. PICK g : Partial(m - 1, g)
    BY <1>2
  <2> DEFINE e == step[m][g[m - 1]]
             h == [i \in 0..m |-> IF i = m THEN e ELSE g[i]]
  <2>2. e \in A
    <3>1. m - 1 \in 0..(m - 1)
      OBVIOUS
    <3>2. g[m - 1] \in A
      BY <2>1, <3>1
    <3> QED
      BY <3>2 DEF Steps
  <2> HIDE DEF e
  <2>3. h \in [0..m -> A]
    BY <2>1, <2>2
  <2>4. h[m] = e /\ \A i \in 0..(m - 1) : h[i] = g[i]
    OBVIOUS
  <2> HIDE DEF h
  <2>5. h[0] = a
    BY <2>1, <2>4
  <2>6. ASSUME NEW i \in 1..m PROVE h[i] = step[i][h[i - 1]]
    <3>1. i - 1 \in 0..(m - 1) /\ h[i - 1] = g[i - 1]
      BY <2>4
    <3>2. CASE i = m
      BY <2>4, <3>1, <3>2 DEF e
    <3>3. CASE i # m
      <4>1. i \in 1..(m - 1) /\ i \in 0..(m - 1)
        BY <3>3
      <4> QED
        BY <2>1, <2>4, <3>1, <4>1
    <3> QED
      BY <3>2, <3>3
  <2>7. Partial(m, h)
    BY <2>3, <2>5, <2>6
  <2> HIDE DEF Partial
  <2>8. m \in 0..n /\ \E f : Partial(m, f)
    BY <2>7
  <2> QED
    BY <2>8
<1>3. n \in T
  <2> HIDE DEF T
  <2>1. \A m \in 0..n : m \in T
    BY <1>1, <1>2, UpTo
  <2> QED
    BY <2>1
<1> QED
  BY <1>3 DEF Computations

\* A summed starts at nothing and adds one number after the other.
LEMMA TotalSteps ==
  ASSUME NEW s \in Seq(Nat)
  PROVE  /\ summed(s, 0) = 0
         /\ \A i \in 1..Len(s) : summed(s, i) = summed(s, i - 1) + s[i]
         /\ \A i \in 0..Len(s) : summed(s, i) \in Nat
<1> DEFINE n == Len(s)
           Next1(f, k) == IF k = 0 THEN 0 ELSE f[k - 1] + s[k]
           IsSum(f) == f = [k \in 0..n |-> Next1(f, k)]
           f0 == CHOOSE f : IsSum(f)
<1>1. n \in Nat /\ \A k \in 1..n : s[k] \in Nat
  BY LenProperties, ElementOfSeq
<1>2. \A i : summed(s, i) = f0[i]
  BY DEF summed
<1> HIDE DEF n
<1> DEFINE step == [k \in 1..n |-> [v \in Nat |-> v + s[k]]]
<1>3. step \in [1..n -> [Nat -> Nat]]
  BY <1>1
<1>4. \A k \in 1..n, v \in Nat : step[k][v] = v + s[k]
  OBVIOUS
<1> HIDE DEF step
<1>5. PICK g \in [0..n -> Nat] : g[0] = 0 /\ \A k \in 1..n : g[k] = step[k][g[k - 1]]
  <2>1. 0 \in Nat /\ step \in Steps(n, Nat)
    BY <1>3 DEF Steps
  <2>2. Computations(n, Nat, 0, step) # {}
    BY <1>1, <2>1, Iterate
  <2> QED
    BY <2>2 DEF Computations
<1>6. \A k \in 0..n : g[k] = Next1(g, k)
  <2> SUFFICES ASSUME NEW k \in 0..n, k # 0 PROVE g[k] = g[k - 1] + s[k]
    BY <1>5
  <2>1. k \in 1..n /\ k - 1 \in 0..n
    BY <1>1
  <2> QED
    BY <1>4, <1>5, <2>1
<1>7. IsSum(f0)
  <2> HIDE DEF Next1
  <2>1. IsSum(g)
    BY <1>5, <1>6
  <2> HIDE DEF IsSum
  <2> QED
    BY <2>1
<1> HIDE DEF f0
<1>8. \A k \in 0..n : f0[k] = Next1(f0, k)
  <2> HIDE DEF Next1
  <2> QED
    BY <1>7
<1>9. f0[0] = 0 /\ \A k \in 1..n : f0[k] = f0[k - 1] + s[k]
  BY <1>1, <1>8
<1> DEFINE T == {k \in 0..n : f0[k] \in Nat}
<1>10. 0 \in T
  BY <1>1, <1>9
<1>11. ASSUME NEW k \in 1..n, k - 1 \in T PROVE k \in T
  <2>1. k \in 0..n /\ f0[k - 1] \in Nat /\ f0[k] = f0[k - 1] + s[k] /\ s[k] \in Nat
    BY <1>1, <1>9, <1>11
  <2>2. f0[k] \in Nat
    BY <2>1
  <2> QED
    BY <2>1, <2>2
<1>12. \A k \in 0..n : f0[k] \in Nat
  <2> HIDE DEF T
  <2>1. \A k \in 0..n : k \in T
    BY <1>1, <1>10, <1>11, UpTo
  <2> QED
    BY <2>1 DEF T
<1> QED
  BY <1>2, <1>9, <1>12 DEF n

\* It grows with every number that is not zero.
LEMMA TotalGrows ==
  ASSUME NEW s \in Seq(Nat), \A i \in 1..Len(s) : s[i] > 0,
         NEW i \in 0..Len(s), NEW j \in 0..Len(s), i < j
  PROVE  summed(s, i) < summed(s, j)
<1> DEFINE n == Len(s)
           T == {k \in 0..n : i < k => summed(s, i) < summed(s, k)}
<1>1. /\ n \in Nat /\ \A k \in 1..n : s[k] \in Nat /\ s[k] > 0
      /\ \A k \in 1..n : summed(s, k) = summed(s, k - 1) + s[k]
      /\ \A k \in 0..n : summed(s, k) \in Nat
  BY LenProperties, ElementOfSeq, TotalSteps
<1>2. i \in 0..n /\ j \in 0..n
  OBVIOUS
<1> HIDE DEF n
<1>3. 0 \in T
  BY <1>1, <1>2
<1>4. ASSUME NEW k \in 1..n, k - 1 \in T PROVE k \in T
  <2>1. k \in 0..n /\ k - 1 \in 0..n
    BY <1>1
  <2>2. ASSUME i < k PROVE summed(s, i) < summed(s, k)
    <3>1. summed(s, k) = summed(s, k - 1) + s[k] /\ summed(s, k - 1) \in Nat /\ summed(s, i) \in Nat
          /\ s[k] \in Nat /\ s[k] > 0
      BY <1>1, <1>2, <2>1
    <3>2. summed(s, i) <= summed(s, k - 1)
      <4>1. CASE i < k - 1
        BY <1>4, <3>1, <4>1
      <4>2. CASE ~(i < k - 1)
        <5>1. i = k - 1
          BY <1>2, <2>2, <4>2
        <5> QED
          BY <3>1, <5>1
      <4> QED
        BY <4>1, <4>2
    <3> QED
      BY <3>1, <3>2
  <2> QED
    BY <2>1, <2>2
<1>5. j \in T
  <2> HIDE DEF T
  <2>1. \A k \in 0..n : k \in T
    BY <1>1, <1>3, <1>4, UpTo
  <2> QED
    BY <1>2, <2>1
<1> QED
  BY <1>5

Widths == 1..4

\* Where characters end, in bytes and in units: in order, and no two at one place.
LEMMA CharacterEnds ==
  ASSUME NEW text \in Seq(Widths)
  PROVE  /\ bytes(text, 0) = 0 /\ units(text, 0) = 0
         /\ \A i \in 0..Len(text) : bytes(text, i) \in Nat /\ units(text, i) \in Nat
         /\ \A i, j \in 0..Len(text) :
              i < j => bytes(text, i) < bytes(text, j) /\ units(text, i) < units(text, j)
<1> DEFINE n == Len(text)
           wide == [k \in DOMAIN text |-> IF text[k] = 4 THEN 2 ELSE 1]
<1>1. n \in Nat /\ DOMAIN text = 1..n /\ \A k \in 1..n : text[k] \in Nat /\ text[k] > 0
  <2>1. \A k \in 1..n : text[k] \in Widths
    BY ElementOfSeq
  <2> QED
    BY <2>1, LenProperties DEF Widths
<1>2. text \in Seq(Nat)
  <2>1. text \in [1..n -> Nat]
    BY <1>1, LenProperties
  <2> HIDE DEF n
  <2> QED
    BY <1>1, <2>1
<1>3. \A i : bytes(text, i) = summed(text, i) /\ units(text, i) = summed(wide, i)
  BY DEF bytes, units
<1> HIDE DEF n
<1>4. wide \in [1..n -> Nat] /\ \A k \in 1..n : wide[k] > 0
  BY <1>1
<1>5. wide \in Seq(Nat) /\ Len(wide) = n
  <2>1. DOMAIN wide = 1..n
    BY <1>1
  <2> HIDE DEF wide
  <2> QED
    BY <1>1, <1>4, <2>1
<1> HIDE DEF wide
<1>6. /\ bytes(text, 0) = 0 /\ units(text, 0) = 0
      /\ \A i \in 0..n : bytes(text, i) \in Nat /\ units(text, i) \in Nat
  BY <1>2, <1>3, <1>5, TotalSteps DEF n
<1>7. \A i, j \in 0..n : i < j => summed(text, i) < summed(text, j)
  BY <1>1, <1>2, TotalGrows DEF n
<1>8. \A i, j \in 0..n : i < j => summed(wide, i) < summed(wide, j)
  BY <1>4, <1>5, TotalGrows
<1> QED
  BY <1>3, <1>6, <1>7, <1>8 DEF n

\* The characters that lie before an offset: as many as there can be.
LEMMA WholeHolds ==
  ASSUME NEW text \in Seq(Widths), NEW byte \in Nat
  PROVE  /\ whole(text, byte) \in 0..Len(text)
         /\ bytes(text, whole(text, byte)) <= byte
         /\ \A i \in 0..Len(text) : bytes(text, i) <= byte => i <= whole(text, byte)
<1> DEFINE n == Len(text)
           S == {i \in 0..n : bytes(text, i) <= byte}
           T == {k \in 0..n : (\E i \in S : i <= k) => \E m \in S : m <= k /\ \A i \in S : i <= k => i <= m}
<1>1. n \in Nat /\ bytes(text, 0) = 0 /\ \A i \in 0..n : bytes(text, i) \in Nat
  BY LenProperties, CharacterEnds
<1> HIDE DEF n
<1>2. 0 \in S /\ S \subseteq 0..n
  BY <1>1
<1>3. whole(text, byte) = CHOOSE x \in S : \A y \in S : x >= y
  BY DEF whole, Max, n
<1>4. \A i : i \in S <=> i \in 0..n /\ bytes(text, i) <= byte
  OBVIOUS
<1> HIDE DEF S
<1>5. 0 \in T
  <2>1. \A i \in S : i <= 0 => i <= 0
    OBVIOUS
  <2> QED
    BY <1>1, <1>2, <2>1
<1>6. ASSUME NEW k \in 1..n, k - 1 \in T PROVE k \in T
  <2>1. PICK m \in S : m <= k - 1 /\ \A i \in S : i <= k - 1 => i <= m
    BY <1>2, <1>6
  <2>2. m \in Nat /\ \A i \in S : i \in Nat
    BY <1>1, <1>2
  <2>3. CASE k \in S
    BY <2>2, <2>3
  <2>4. CASE k \notin S
    <3>1. m <= k /\ \A i \in S : i <= k => i <= m
      BY <2>1, <2>2, <2>4
    <3> QED
      BY <3>1, <1>1
  <2> QED
    BY <2>3, <2>4
<1>7. n \in T
  <2> HIDE DEF T
  <2>1. \A k \in 0..n : k \in T
    BY <1>1, <1>5, <1>6, UpTo
  <2> QED
    BY <1>1, <2>1
<1>8. PICK m \in S : \A i \in S : i <= m
  <2>1. PICK m \in S : m <= n /\ \A i \in S : i <= n => i <= m
    BY <1>1, <1>2, <1>7
  <2> QED
    BY <1>1, <1>2, <2>1
<1>9. \A y \in S : m >= y
  BY <1>1, <1>2, <1>8
<1>10. whole(text, byte) \in S /\ \A y \in S : whole(text, byte) >= y
  BY <1>3, <1>9
<1>11. \A y \in S : y <= whole(text, byte)
  BY <1>1, <1>2, <1>10
<1> QED
  BY <1>4, <1>10, <1>11 DEF n

\* An offset between two characters is found exactly, and later offsets are not earlier.
LEMMA WholeFinds ==
  ASSUME NEW text \in Seq(Widths), NEW byte \in Nat
  PROVE  /\ \A i \in 0..Len(text) : bytes(text, i) = byte => whole(text, byte) = i
         /\ \A later \in Nat : byte <= later => whole(text, byte) <= whole(text, later)
<1> DEFINE n == Len(text)
<1>1. n \in Nat /\ (\A i \in 0..n : bytes(text, i) \in Nat)
      /\ \A i, j \in 0..n : i < j => bytes(text, i) < bytes(text, j)
  BY LenProperties, CharacterEnds
<1>2. \A b \in Nat : /\ whole(text, b) \in 0..n
                     /\ bytes(text, whole(text, b)) <= b
                     /\ \A i \in 0..n : bytes(text, i) <= b => i <= whole(text, b)
  BY WholeHolds
<1> HIDE DEF n
<1>3. ASSUME NEW i \in 0..n, bytes(text, i) = byte PROVE whole(text, byte) = i
  <2> DEFINE w == whole(text, byte)
  <2>1. w \in 0..n /\ bytes(text, w) <= byte /\ i <= w /\ bytes(text, w) \in Nat
    BY <1>1, <1>2, <1>3
  <2> HIDE DEF w
  <2>2. ~(i < w)
    <3>1. i < w => bytes(text, i) < bytes(text, w)
      BY <1>1, <2>1
    <3> QED
      BY <1>3, <2>1, <3>1
  <2>3. w = i
    BY <1>1, <2>1, <2>2
  <2> QED
    BY <2>3 DEF w
<1>4. ASSUME NEW later \in Nat, byte <= later PROVE whole(text, byte) <= whole(text, later)
  <2> DEFINE w == whole(text, byte)
  <2>1. w \in 0..n /\ bytes(text, w) <= byte /\ bytes(text, w) \in Nat
    BY <1>1, <1>2
  <2> HIDE DEF w
  <2>2. bytes(text, w) <= later
    BY <1>4, <2>1
  <2> QED
    BY <1>2, <2>1, <2>2 DEF w
<1> QED
  BY <1>3, <1>4 DEF n

-----------------------------------------------------------------------------
(* The line as it is printed. *)

Span == [from : Nat, to : Nat, lit : BOOLEAN]
Stretch == [start : Nat, end : Nat]

\* What is known of the line after some of its ranges.
Lines == [pos : Nat, spans : Seq(Span)]

\* A line begins with nothing, and each range adds two spans or none.
LEMMA WalkSteps ==
  ASSUME NEW text \in Seq(Widths), NEW ranges \in Seq(Stretch)
  PROVE  \E line \in [0..Len(ranges) -> Lines] :
           /\ line[0] = [pos |-> 0, spans |-> <<>>]
           /\ \A n \in 1..Len(ranges) :
                /\ printable(text, line[n - 1].pos, ranges[n]) =>
                     /\ line[n].pos = ranges[n].end
                     /\ line[n].spans =
                          Append(Append(line[n - 1].spans, span(line[n - 1].pos, ranges[n].start, FALSE)),
                                 span(ranges[n].start, ranges[n].end, TRUE))
                /\ ~printable(text, line[n - 1].pos, ranges[n]) => line[n] = line[n - 1]
           /\ format_match(text, ranges) =
                Append(line[Len(ranges)].spans,
                       span(line[Len(ranges)].pos, units(text, Len(text)), FALSE))
<1> DEFINE m == Len(ranges)
           start == [pos |-> 0, spans |-> <<>>]
           Added(l, n) == [pos |-> ranges[n].end,
                           spans |-> Append(Append(l.spans, span(l.pos, ranges[n].start, FALSE)),
                                            span(ranges[n].start, ranges[n].end, TRUE))]
           Advance(l, n) == IF printable(text, l.pos, ranges[n]) THEN Added(l, n) ELSE l
           Step(f, n) == IF n = 0 THEN start ELSE Advance(f[n - 1], n)
           IsLine(f) == f = [n \in 0..m |-> Step(f, n)]
           f0 == CHOOSE f : IsLine(f)
<1>1. m \in Nat /\ \A n \in 1..m : ranges[n].start \in Nat /\ ranges[n].end \in Nat
  <2>1. \A n \in 1..m : ranges[n] \in Stretch
    BY ElementOfSeq
  <2> QED
    BY <2>1, LenProperties DEF Stretch
<1>2. format_match(text, ranges) = Append(f0[m].spans, span(f0[m].pos, units(text, Len(text)), FALSE))
  BY DEF format_match
<1> HIDE DEF m
<1>3. \A n \in 1..m, l \in Lines : Advance(l, n) \in Lines
  <2> SUFFICES ASSUME NEW n \in 1..m, NEW l \in Lines PROVE Added(l, n) \in Lines
    BY Zenon
  <2> DEFINE a == span(l.pos, ranges[n].start, FALSE)
             b == span(ranges[n].start, ranges[n].end, TRUE)
  <2>1. l.pos \in Nat /\ l.spans \in Seq(Span)
    BY DEF Lines
  <2>2. a \in Span /\ b \in Span
    BY <1>1, <2>1 DEF Span, span
  <2> HIDE DEF a, b
  <2>3. Append(l.spans, a) \in Seq(Span)
    BY <2>1, <2>2, AppendProperties
  <2>4. Append(Append(l.spans, a), b) \in Seq(Span)
    BY <2>2, <2>3, AppendProperties
  <2> QED
    BY <1>1, <2>4 DEF Lines, a, b
<1>4. start \in Lines
  BY DEF Lines
<1>5. Advance(f0[0], 0) = Advance(f0[0], 0)
  OBVIOUS
<1> HIDE DEF Advance, start
<1> DEFINE step == [n \in 1..m |-> [l \in Lines |-> Advance(l, n)]]
<1>6. step \in Steps(m, Lines)
  BY <1>3 DEF Steps
<1>7. \A n \in 1..m, l \in Lines : step[n][l] = Advance(l, n)
  OBVIOUS
<1> HIDE DEF step
<1>8. PICK g \in [0..m -> Lines] : g[0] = start /\ \A n \in 1..m : g[n] = step[n][g[n - 1]]
  <2>1. Computations(m, Lines, start, step) # {}
    BY <1>1, <1>4, <1>6, Iterate
  <2> QED
    BY <2>1 DEF Computations
<1>9. \A n \in 0..m : g[n] = Step(g, n)
  <2> SUFFICES ASSUME NEW n \in 0..m, n # 0 PROVE g[n] = Advance(g[n - 1], n)
    BY <1>8
  <2>1. n \in 1..m /\ n - 1 \in 0..m
    BY <1>1
  <2> QED
    BY <1>7, <1>8, <2>1
<1>10. IsLine(f0)
  <2> HIDE DEF Step
  <2>1. IsLine(g)
    BY <1>8, <1>9
  <2> HIDE DEF IsLine
  <2> QED
    BY <2>1
<1> HIDE DEF f0
<1>11. \A n \in 0..m : f0[n] = Step(f0, n)
  <2> HIDE DEF Step
  <2> QED
    BY <1>10
<1>12. f0[0] = start /\ \A n \in 1..m : f0[n] = Advance(f0[n - 1], n)
  BY <1>1, <1>11
<1> DEFINE T == {n \in 0..m : f0[n] \in Lines}
<1>13. 0 \in T
  BY <1>1, <1>4, <1>12
<1>14. ASSUME NEW n \in 1..m, n - 1 \in T PROVE n \in T
  <2>1. n \in 0..m /\ f0[n - 1] \in Lines
    BY <1>1, <1>14
  <2> QED
    BY <1>3, <1>12, <2>1
<1>15. \A n \in 0..m : f0[n] \in Lines
  <2> HIDE DEF T
  <2>1. \A n \in 0..m : n \in T
    BY <1>1, <1>13, <1>14, UpTo
  <2> QED
    BY <2>1 DEF T
<1>16. f0 \in [0..m -> Lines]
  <2>1. f0 = [n \in 0..m |-> f0[n]]
    <3> HIDE DEF Step
    <3> QED
      BY <1>10, <1>11
  <2> QED
    BY <1>15, <2>1
<1>17. \A n \in 1..m :
         /\ printable(text, f0[n - 1].pos, ranges[n]) => f0[n] = Added(f0[n - 1], n)
         /\ ~printable(text, f0[n - 1].pos, ranges[n]) => f0[n] = f0[n - 1]
  <2> HIDE DEF Added
  <2> QED
    BY <1>12 DEF Advance
<1>18. \A n \in 1..m : printable(text, f0[n - 1].pos, ranges[n]) =>
         /\ f0[n].pos = ranges[n].end
         /\ f0[n].spans =
              Append(Append(f0[n - 1].spans, span(f0[n - 1].pos, ranges[n].start, FALSE)),
                     span(ranges[n].start, ranges[n].end, TRUE))
  <2> SUFFICES ASSUME NEW n \in 1..m, printable(text, f0[n - 1].pos, ranges[n])
               PROVE  /\ f0[n].pos = ranges[n].end
                      /\ f0[n].spans =
                           Append(Append(f0[n - 1].spans, span(f0[n - 1].pos, ranges[n].start, FALSE)),
                                  span(ranges[n].start, ranges[n].end, TRUE))
    OBVIOUS
  <2> DEFINE x == ranges[n].end
             y == Append(Append(f0[n - 1].spans, span(f0[n - 1].pos, ranges[n].start, FALSE)),
                         span(ranges[n].start, ranges[n].end, TRUE))
  <2>1. f0[n] = [pos |-> x, spans |-> y]
    BY <1>17
  <2> HIDE DEF x, y
  <2>2. f0[n].pos = x /\ f0[n].spans = y
    BY <2>1
  <2> QED
    BY <2>2 DEF x, y
<1>19. f0[0] = [pos |-> 0, spans |-> <<>>]
  BY <1>12 DEF start
<1> HIDE DEF Added
<1> QED
  BY <1>2, <1>16, <1>17, <1>18, <1>19 DEF m

\* Places between two characters.
Ends(text) == {units(text, i) : i \in 0..Len(text)}

\* Spans that follow each other from the start of the line up to a place.
Tiled(text, spans, pos) ==
  /\ pos \in Ends(text)
  /\ spans = <<>> => pos = 0
  /\ spans # <<>> => spans[1].from = 0 /\ spans[Len(spans)].to = pos
  /\ \A i \in 1..(Len(spans) - 1) : spans[i].to = spans[i + 1].from
  /\ \A i \in 1..Len(spans) :
       spans[i].from <= spans[i].to /\ {spans[i].from, spans[i].to} \subseteq Ends(text)

\* One span more.
LEMMA TiledAppend ==
  ASSUME NEW text, NEW spans \in Seq(Span), NEW pos, Tiled(text, spans, pos),
         NEW e \in Span, e.from = pos, e.from <= e.to, e.to \in Ends(text)
  PROVE  Append(spans, e) \in Seq(Span) /\ Tiled(text, Append(spans, e), e.to)
<1> DEFINE t == Append(spans, e)
           n == Len(spans)
<1>1. /\ t \in Seq(Span) /\ t # <<>> /\ Len(t) = n + 1 /\ n \in Nat
      /\ \A i \in 1..n : t[i] = spans[i]
      /\ t[n + 1] = e
  BY AppendProperties, LenProperties
<1>2. n = 0 <=> spans = <<>>
  BY EmptySeq
<1>3. /\ pos \in Ends(text)
      /\ n = 0 => pos = 0
      /\ n # 0 => spans[1].from = 0 /\ spans[n].to = pos
      /\ \A i \in 1..(n - 1) : spans[i].to = spans[i + 1].from
      /\ \A i \in 1..n :
           spans[i].from <= spans[i].to /\ {spans[i].from, spans[i].to} \subseteq Ends(text)
  BY <1>2 DEF Tiled
<1> HIDE DEF t, n
<1>4. t[1].from = 0
  <2>1. CASE n = 0
    BY <1>1, <1>3, <2>1
  <2>2. CASE n # 0
    <3>1. 1 \in 1..n
      BY <1>1, <2>2
    <3> QED
      BY <1>1, <1>3, <2>2, <3>1
  <2> QED
    BY <2>1, <2>2
<1>5. \A i \in 1..n : t[i].to = t[i + 1].from
  <2> SUFFICES ASSUME NEW i \in 1..n PROVE t[i].to = t[i + 1].from
    OBVIOUS
  <2>1. CASE i = n
    <3>1. n # 0 /\ t[i] = spans[n] /\ t[i + 1] = e
      BY <1>1, <2>1
    <3> QED
      BY <1>3, <3>1
  <2>2. CASE i # n
    <3>1. i \in 1..(n - 1) /\ i + 1 \in 1..n
      BY <1>1, <2>2
    <3> QED
      BY <1>1, <1>3, <3>1
  <2> QED
    BY <2>1, <2>2
<1>6. \A i \in 1..(n + 1) : t[i].from <= t[i].to /\ {t[i].from, t[i].to} \subseteq Ends(text)
  <2>1. \A i \in 1..(n + 1) : i \in 1..n \/ i = n + 1
    BY <1>1
  <2> QED
    BY <1>1, <1>3, <2>1
<1>7. Len(t) - 1 = n
  BY <1>1
<1>8. Tiled(text, t, e.to)
  BY <1>1, <1>4, <1>5, <1>6, <1>7 DEF Tiled
<1> QED
  BY <1>1, <1>8 DEF t

\* Whatever the ranges are, what is printed is the whole line, and every span of it begins
\* and ends between two characters if the ranges do.
LEMMA LineTiles ==
  ASSUME NEW text \in Seq(Widths), NEW ranges \in Seq(Stretch),
         \A i \in 1..Len(ranges) : ranges[i].start \in Ends(text) /\ ranges[i].end \in Ends(text)
  PROVE  /\ format_match(text, ranges) \in Seq(Span)
         /\ format_match(text, ranges) # <<>>
         /\ Tiled(text, format_match(text, ranges), units(text, Len(text)))
<1> DEFINE m == Len(ranges)
           stop == units(text, Len(text))
<1>1. m \in Nat /\ \A n \in 1..m : ranges[n].start \in Nat /\ ranges[n].end \in Nat
  <2>1. \A n \in 1..m : ranges[n] \in Stretch
    BY ElementOfSeq
  <2> QED
    BY <2>1, LenProperties DEF Stretch
<1>2. PICK line \in [0..m -> Lines] :
           /\ line[0] = [pos |-> 0, spans |-> <<>>]
           /\ \A n \in 1..m :
                /\ printable(text, line[n - 1].pos, ranges[n]) =>
                     /\ line[n].pos = ranges[n].end
                     /\ line[n].spans =
                          Append(Append(line[n - 1].spans, span(line[n - 1].pos, ranges[n].start, FALSE)),
                                 span(ranges[n].start, ranges[n].end, TRUE))
                /\ ~printable(text, line[n - 1].pos, ranges[n]) => line[n] = line[n - 1]
           /\ format_match(text, ranges) = Append(line[m].spans, span(line[m].pos, stop, FALSE))
  BY WalkSteps
<1>3. /\ 0 \in Ends(text) /\ stop \in Ends(text) /\ stop \in Nat
      /\ \A e \in Ends(text) : e \in Nat /\ e <= stop
  <2> DEFINE w == Len(text)
  <2>1. /\ w \in Nat /\ units(text, 0) = 0
        /\ \A i \in 0..w : units(text, i) \in Nat
        /\ \A i, j \in 0..w : i < j => units(text, i) < units(text, j)
    BY CharacterEnds, LenProperties
  <2> HIDE DEF w
  <2>2. 0 \in 0..w /\ w \in 0..w
    BY <2>1
  <2>3. \A i \in 0..w : units(text, i) <= units(text, w)
    <3> SUFFICES ASSUME NEW i \in 0..w PROVE units(text, i) <= units(text, w)
      OBVIOUS
    <3>1. CASE i = w
      BY <2>1, <2>2, <3>1
    <3>2. CASE i # w
      <4>1. i < w
        BY <2>1, <3>2
      <4>2. units(text, i) < units(text, w)
        BY <2>1, <2>2, <4>1
      <4> QED
        BY <2>1, <2>2, <4>2
    <3> QED
      BY <3>1, <3>2
  <2> QED
    BY <2>1, <2>2, <2>3 DEF Ends, w
<1>4. \A i \in 1..m : ranges[i].start \in Ends(text) /\ ranges[i].end \in Ends(text)
  OBVIOUS
<1> HIDE DEF m, stop
<1> DEFINE T == {n \in 0..m : Tiled(text, line[n].spans, line[n].pos)}
<1>5. 0 \in T
  <2>1. line[0].spans = <<>> /\ line[0].pos = 0
    BY <1>2
  <2>2. Tiled(text, <<>>, 0)
    BY <1>3 DEF Tiled
  <2> QED
    BY <1>1, <2>1, <2>2
<1>6. ASSUME NEW n \in 1..m, n - 1 \in T PROVE n \in T
  <2> DEFINE l == line[n - 1]
             r == ranges[n]
  <2>1. n \in 0..m /\ n - 1 \in 0..m
    BY <1>1
  <2>2. l \in Lines /\ Tiled(text, l.spans, l.pos)
    BY <1>2, <1>6, <2>1
  <2>3. l.pos \in Nat /\ l.spans \in Seq(Span) /\ l.pos \in Ends(text)
    BY <2>2 DEF Lines, Tiled
  <2>4. CASE printable(text, l.pos, r)
    <3> DEFINE a == span(l.pos, r.start, FALSE)
               b == span(r.start, r.end, TRUE)
               s == Append(l.spans, a)
    <3>1. r.start \in Nat /\ r.end \in Nat /\ r.start \in Ends(text) /\ r.end \in Ends(text)
          /\ l.pos <= r.start /\ r.start < r.end
      BY <1>1, <1>4, <2>3, <2>4 DEF printable
    <3>2. line[n].pos = r.end /\ line[n].spans = Append(s, b)
      BY <1>2, <2>4
    <3> HIDE DEF l, r
    <3>3. /\ a \in Span /\ a.from = l.pos /\ a.to = r.start
          /\ b \in Span /\ b.from = r.start /\ b.to = r.end
      BY <2>3, <3>1 DEF Span, span
    <3> HIDE DEF a, b
    <3>4. s \in Seq(Span) /\ Tiled(text, s, a.to)
      BY <2>2, <2>3, <3>1, <3>3, TiledAppend
    <3> HIDE DEF s
    <3>5. Tiled(text, Append(s, b), b.to)
      <4>1. b.from = a.to /\ b.from <= b.to /\ b.to \in Ends(text)
        BY <3>1, <3>3
      <4> QED
        BY <3>3, <3>4, <4>1, TiledAppend
    <3> QED
      BY <2>1, <3>2, <3>3, <3>5
  <2>5. CASE ~printable(text, l.pos, r)
    <3>1. line[n] = l
      BY <1>2, <2>5
    <3> QED
      BY <2>1, <2>2, <3>1
  <2> QED
    BY <2>4, <2>5
<1>7. m \in T
  <2> HIDE DEF T
  <2>1. \A n \in 0..m : n \in T
    BY <1>1, <1>5, <1>6, UpTo
  <2> QED
    BY <1>1, <2>1
<1> DEFINE l == line[m]
           a == span(l.pos, stop, FALSE)
<1>8. l \in Lines /\ Tiled(text, l.spans, l.pos)
  BY <1>1, <1>2, <1>7
<1>9. l.pos \in Nat /\ l.spans \in Seq(Span) /\ l.pos \in Ends(text)
  BY <1>8 DEF Lines, Tiled
<1>10. format_match(text, ranges) = Append(l.spans, a)
  BY <1>2
<1> HIDE DEF l
<1>11. a \in Span /\ a.from = l.pos /\ a.to = stop /\ a.from <= a.to
  BY <1>3, <1>9 DEF Span, span
<1> HIDE DEF a
<1>12. Append(l.spans, a) \in Seq(Span) /\ Tiled(text, Append(l.spans, a), a.to)
  BY <1>3, <1>8, <1>9, <1>11, TiledAppend
<1>13. Append(l.spans, a) # <<>>
  BY <1>9, <1>11, AppendProperties
<1> QED
  BY <1>10, <1>11, <1>12, <1>13 DEF stop

\* The spans that are lit.
Lit(spans) == FlattenSeq([i \in DOMAIN spans |-> kept(spans[i].lit, spans[i])])

\* One span more is one that is lit, or changes nothing.
LEMMA LitAppend ==
  ASSUME NEW spans \in Seq(Span), NEW e \in Span
  PROVE  /\ Lit(spans) \in Seq(Span)
         /\ e.lit => Lit(Append(spans, e)) = Append(Lit(spans), e)
         /\ ~e.lit => Lit(Append(spans, e)) = Lit(spans)
<1> DEFINE n == Len(spans)
           t == Append(spans, e)
           Kept(s) == [i \in DOMAIN s |-> kept(s[i].lit, s[i])]
           x == kept(e.lit, e)
<1>1. /\ t \in Seq(Span) /\ Len(t) = n + 1 /\ n \in Nat /\ t[n + 1] = e
      /\ \A i \in 1..n : t[i] = spans[i]
      /\ DOMAIN spans = 1..n /\ DOMAIN t = 1..(n + 1)
  BY AppendProperties, LenProperties
<1>2. \A s \in Span : kept(s.lit, s) \in Seq(Span)
  BY DEF kept
<1>3. \A s \in Seq(Span) : Kept(s) \in Seq(Seq(Span)) /\ Len(Kept(s)) = Len(s)
  <2> SUFFICES ASSUME NEW s \in Seq(Span)
               PROVE  Kept(s) \in Seq(Seq(Span)) /\ Len(Kept(s)) = Len(s)
    OBVIOUS
  <2> DEFINE k == Len(s)
             f == Kept(s)
  <2>1. k \in Nat /\ DOMAIN s = 1..k /\ \A i \in 1..k : s[i] \in Span
    BY LenProperties, ElementOfSeq
  <2> HIDE DEF k
  <2>2. f \in [1..k -> Seq(Span)] /\ DOMAIN f = 1..k
    BY <1>2, <2>1
  <2> HIDE DEF f
  <2>3. f \in Seq(Seq(Span)) /\ Len(f) = k
    BY <2>1, <2>2
  <2> QED
    BY <2>3 DEF f, k
<1>4. Lit(spans) = FlattenSeq(Kept(spans)) /\ Lit(t) = FlattenSeq(Kept(t))
  BY DEF Lit
<1>5. \A i \in 1..n : Kept(spans)[i] = kept(spans[i].lit, spans[i])
  BY <1>1
<1>6. \A i \in 1..(n + 1) : Kept(t)[i] = kept(t[i].lit, t[i])
  BY <1>1
<1>7. x \in Seq(Span)
  BY <1>2
<1> HIDE DEF n, t, Kept
<1> DEFINE u == Kept(spans)
           one == <<x>>
           w == u \o one
<1>8. u \in Seq(Seq(Span)) /\ Len(u) = n
  BY <1>3 DEF n
<1>9. one \in Seq(Seq(Span)) /\ Len(one) = 1 /\ one[1] = x
  BY <1>7
<1> HIDE DEF u, one
<1>10. Kept(t) = w
  <2> DEFINE v == Kept(t)
  <2>1. v \in Seq(Seq(Span)) /\ Len(v) = n + 1
    BY <1>1, <1>3
  <2>2. /\ w \in Seq(Seq(Span)) /\ Len(w) = n + 1
        /\ \A i \in 1..(n + 1) : w[i] = IF i <= n THEN u[i] ELSE one[i - n]
    <3>1. /\ w \in Seq(Seq(Span)) /\ Len(w) = Len(u) + Len(one)
          /\ \A i \in 1..(Len(u) + Len(one)) : w[i] = IF i <= Len(u) THEN u[i] ELSE one[i - Len(u)]
      BY <1>8, <1>9, ConcatProperties
    <3> HIDE DEF w
    <3> QED
      BY <1>8, <1>9, <3>1
  <2> HIDE DEF w
  <2>3. ASSUME NEW i \in 1..(n + 1) PROVE v[i] = w[i]
    <3>1. CASE i <= n
      <4>1. i \in 1..n
        BY <1>1, <3>1
      <4> QED
        BY <1>1, <1>5, <1>6, <2>2, <3>1, <4>1 DEF u
    <3>2. CASE ~(i <= n)
      <4>1. i = n + 1 /\ i - n = 1
        BY <1>1, <3>2
      <4> QED
        BY <1>1, <1>6, <1>9, <2>2, <3>2, <4>1
    <3> QED
      BY <3>1, <3>2
  <2> HIDE DEF v
  <2>4. v = w
    BY <2>1, <2>2, <2>3, SeqEqual
  <2> QED
    BY <2>4 DEF v
<1>11. FlattenSeq(one) = x
  <2>1. PICK flat \in [0..Len(one) -> Seq(Span)] :
           /\ flat[0] = <<>>
           /\ \A i \in 1..Len(one) : flat[i] = flat[i - 1] \o one[i]
           /\ FlattenSeq(one) = flat[Len(one)]
    BY <1>9, FlattenSteps
  <2>2. flat[1] = flat[1 - 1] \o one[1] /\ 1 - 1 = 0
    BY <1>9, <2>1
  <2>3. flat[1] = <<>> \o x
    BY <1>9, <2>1, <2>2
  <2>4. <<>> \o x = x
    BY <1>7, ConcatEmptySeq
  <2> QED
    BY <1>9, <2>1, <2>3, <2>4
<1>12. FlattenSeq(w) = FlattenSeq(u) \o x
  BY <1>8, <1>9, <1>11, FlattenConcat
<1>13. FlattenSeq(u) \in Seq(Span)
  BY <1>8, FlattenType
<1>14. e.lit => FlattenSeq(u) \o x = Append(FlattenSeq(u), e)
  <2> SUFFICES ASSUME e.lit PROVE FlattenSeq(u) \o x = Append(FlattenSeq(u), e)
    OBVIOUS
  <2>1. x = <<e>>
    BY DEF kept
  <2> QED
    BY <1>13, <2>1, AppendIsConcat
<1>15. ~e.lit => FlattenSeq(u) \o x = FlattenSeq(u)
  <2> SUFFICES ASSUME ~e.lit PROVE FlattenSeq(u) \o x = FlattenSeq(u)
    OBVIOUS
  <2>1. x = <<>>
    BY DEF kept
  <2> QED
    BY <1>13, <2>1, ConcatEmptySeq
<1> HIDE DEF w, x
<1> QED
  BY <1>4, <1>10, <1>12, <1>13, <1>14, <1>15 DEF u, t

\* Ranges that lie in order within the line are lit, each as it is and nothing else.
LEMMA LineLights ==
  ASSUME NEW text \in Seq(Widths), NEW ranges \in Seq(Stretch),
         \A i \in 1..Len(ranges) :
           ranges[i].start < ranges[i].end /\ ranges[i].end <= units(text, Len(text)),
         \A i \in 1..(Len(ranges) - 1) : ranges[i].end <= ranges[i + 1].start
  PROVE  /\ Len(Lit(format_match(text, ranges))) = Len(ranges)
         /\ \A i \in 1..Len(ranges) :
              Lit(format_match(text, ranges))[i] = span(ranges[i].start, ranges[i].end, TRUE)
<1> DEFINE m == Len(ranges)
           stop == units(text, Len(text))
<1>1. /\ m \in Nat
      /\ \A n \in 1..m : /\ ranges[n].start \in Nat /\ ranges[n].end \in Nat
                         /\ ranges[n].start < ranges[n].end /\ ranges[n].end <= stop
      /\ \A n \in 1..(m - 1) : ranges[n].end <= ranges[n + 1].start
      /\ stop \in Nat
  <2>1. \A n \in 1..m : ranges[n] \in Stretch
    BY ElementOfSeq
  <2>2. Len(text) \in 0..Len(text)
    BY LenProperties
  <2>3. stop \in Nat
    BY <2>2, CharacterEnds
  <2> QED
    BY <2>1, <2>3, LenProperties DEF Stretch
<1>2. PICK line \in [0..m -> Lines] :
           /\ line[0] = [pos |-> 0, spans |-> <<>>]
           /\ \A n \in 1..m :
                /\ printable(text, line[n - 1].pos, ranges[n]) =>
                     /\ line[n].pos = ranges[n].end
                     /\ line[n].spans =
                          Append(Append(line[n - 1].spans, span(line[n - 1].pos, ranges[n].start, FALSE)),
                                 span(ranges[n].start, ranges[n].end, TRUE))
                /\ ~printable(text, line[n - 1].pos, ranges[n]) => line[n] = line[n - 1]
           /\ format_match(text, ranges) = Append(line[m].spans, span(line[m].pos, stop, FALSE))
  BY WalkSteps
<1>3. \A n \in 1..m, pos \in Nat : printable(text, pos, ranges[n]) <=> pos <= ranges[n].start
  BY <1>1 DEF printable
<1> HIDE DEF m, stop
<1> DEFINE Lights(n) == /\ Len(Lit(line[n].spans)) = n
                        /\ \A i \in 1..n : Lit(line[n].spans)[i] = span(ranges[i].start, ranges[i].end, TRUE)
                        /\ n = 0 => line[n].pos = 0
                        /\ n > 0 => line[n].pos = ranges[n].end
           T == {n \in 0..m : Lights(n)}
<1>4. 0 \in T
  <2>1. line[0].spans = <<>> /\ line[0].pos = 0
    BY <1>2
  <2>2. Lit(<<>>) = <<>>
    <3>1. [i \in DOMAIN <<>> |-> kept(<<>>[i].lit, <<>>[i])] = <<>>
      OBVIOUS
    <3> QED
      BY <3>1 DEF Lit, FlattenSeq
  <2>3. Len(Lit(line[0].spans)) = 0
    BY <2>1, <2>2
  <2>4. \A i \in 1..0 : Lit(line[0].spans)[i] = span(ranges[i].start, ranges[i].end, TRUE)
    <3>1. 1..0 = {}
      OBVIOUS
    <3> QED
      BY <3>1
  <2>5. ~(0 > 0)
    OBVIOUS
  <2>6. Lights(0)
    BY <2>1, <2>3, <2>4, <2>5
  <2>7. 0 \in 0..m
    BY <1>1
  <2> HIDE DEF Lights
  <2> QED
    BY <2>6, <2>7
<1>5. ASSUME NEW n \in 1..m, n - 1 \in T PROVE n \in T
  <2> DEFINE l == line[n - 1]
             r == ranges[n]
             a == span(l.pos, r.start, FALSE)
             b == span(r.start, r.end, TRUE)
             s == Append(l.spans, a)
             lit == Lit(l.spans)
  <2>1. /\ n \in 0..m /\ n - 1 \in 0..m /\ l \in Lines
        /\ r.start \in Nat /\ r.end \in Nat /\ r.start < r.end
    BY <1>1, <1>2
  <2>2. /\ Len(lit) = n - 1
        /\ \A i \in 1..(n - 1) : lit[i] = span(ranges[i].start, ranges[i].end, TRUE)
        /\ n - 1 = 0 => l.pos = 0
        /\ n - 1 > 0 => l.pos = ranges[n - 1].end
    BY <1>5
  <2>3. l.pos \in Nat /\ l.spans \in Seq(Span)
    BY <2>1 DEF Lines
  <2>4. l.pos <= r.start
    <3>1. CASE n - 1 = 0
      BY <2>1, <2>2, <3>1
    <3>2. CASE n - 1 # 0
      <4>1. n - 1 \in 1..(m - 1) /\ n - 1 + 1 = n /\ n - 1 > 0
        BY <1>1, <3>2
      <4>2. ranges[n - 1].end <= ranges[n - 1 + 1].start
        BY <1>1, <4>1
      <4> QED
        BY <2>2, <4>1, <4>2
    <3> QED
      BY <3>1, <3>2
  <2>5. line[n].pos = r.end /\ line[n].spans = Append(s, b)
    BY <1>2, <1>3, <2>3, <2>4
  <2> HIDE DEF l, r
  <2>6. a \in Span /\ ~a.lit /\ b \in Span /\ b.lit
    BY <2>1, <2>3 DEF Span, span
  <2> HIDE DEF a
  <2>7. s \in Seq(Span) /\ Lit(s) = lit /\ lit \in Seq(Span)
    BY <2>3, <2>6, LitAppend, AppendProperties
  <2> HIDE DEF s, lit, b
  <2>8. Lit(Append(s, b)) = Append(lit, b)
    BY <2>6, <2>7, LitAppend
  <2>9. /\ Len(Append(lit, b)) = Len(lit) + 1
        /\ \A i \in 1..Len(lit) : Append(lit, b)[i] = lit[i]
        /\ Append(lit, b)[Len(lit) + 1] = b
    BY <2>6, <2>7, AppendProperties
  <2>10. Len(Append(lit, b)) = n /\ Append(lit, b)[n] = b
         /\ \A i \in 1..(n - 1) : Append(lit, b)[i] = lit[i]
    BY <2>2, <2>9
  <2>11. ASSUME NEW i \in 1..n PROVE Append(lit, b)[i] = span(ranges[i].start, ranges[i].end, TRUE)
    <3>1. CASE i = n
      BY <2>10, <3>1 DEF b, r
    <3>2. CASE i # n
      <4>1. i \in 1..(n - 1)
        BY <3>2
      <4> QED
        BY <2>2, <2>10, <4>1
    <3> QED
      BY <3>1, <3>2
  <2>12. Lights(n)
    <3>1. n # 0
      OBVIOUS
    <3> QED
      BY <2>5, <2>8, <2>10, <2>11, <3>1 DEF r
  <2> HIDE DEF Lights
  <2> QED
    BY <2>1, <2>12
<1>6. Lights(m)
  <2> HIDE DEF T
  <2>1. \A n \in 0..m : n \in T
    BY <1>1, <1>4, <1>5, UpTo
  <2>2. m \in T
    BY <1>1, <2>1
  <2> QED
    BY <2>2 DEF T
<1> DEFINE l == line[m]
           c == span(l.pos, stop, FALSE)
<1>7. l.pos \in Nat /\ l.spans \in Seq(Span)
  <2>1. l \in Lines
    BY <1>1, <1>2
  <2> QED
    BY <2>1 DEF Lines
<1>8. c \in Span /\ ~c.lit
  BY <1>1, <1>7 DEF Span, span
<1> HIDE DEF c
<1>9. Lit(Append(l.spans, c)) = Lit(l.spans)
  BY <1>7, <1>8, LitAppend
<1>10. format_match(text, ranges) = Append(l.spans, c)
  BY <1>2 DEF c
<1>11. /\ Len(Lit(l.spans)) = m
       /\ \A i \in 1..m : Lit(l.spans)[i] = span(ranges[i].start, ranges[i].end, TRUE)
  BY <1>6
<1> HIDE DEF l
<1> QED
  BY <1>9, <1>10, <1>11 DEF m

\* What becomes of the engine's ranges: as many, each between two characters.
LEMMA RangesType ==
  ASSUME NEW text \in Seq(Widths), NEW ranges \in Seq(Stretch)
  PROVE  /\ utf16_ranges(text, ranges) \in Seq(Stretch)
         /\ Len(utf16_ranges(text, ranges)) = Len(ranges)
         /\ \A i \in 1..Len(ranges) :
              /\ ranges[i].start \in Nat /\ ranges[i].end \in Nat
              /\ utf16_ranges(text, ranges)[i].start = utf16_prefix_len(text, ranges[i].start)
              /\ utf16_ranges(text, ranges)[i].end = utf16_prefix_len(text, ranges[i].end)
              /\ utf16_ranges(text, ranges)[i].start \in Ends(text)
              /\ utf16_ranges(text, ranges)[i].end \in Ends(text)
<1> DEFINE m == Len(ranges)
           R == utf16_ranges(text, ranges)
<1>1. /\ m \in Nat /\ DOMAIN ranges = 1..m
      /\ \A i \in 1..m : ranges[i].start \in Nat /\ ranges[i].end \in Nat
  <2>1. \A n \in 1..m : ranges[n] \in Stretch
    BY ElementOfSeq
  <2> QED
    BY <2>1, LenProperties DEF Stretch
<1>2. \A b \in Nat : utf16_prefix_len(text, b) \in Nat /\ utf16_prefix_len(text, b) \in Ends(text)
  <2> SUFFICES ASSUME NEW b \in Nat
               PROVE  utf16_prefix_len(text, b) \in Nat /\ utf16_prefix_len(text, b) \in Ends(text)
    OBVIOUS
  <2>1. whole(text, b) \in 0..Len(text)
    BY WholeHolds
  <2>2. units(text, whole(text, b)) \in Nat
    BY <2>1, CharacterEnds
  <2> QED
    BY <2>1, <2>2 DEF utf16_prefix_len, Ends
<1> HIDE DEF m
<1>3. R = [i \in 1..m |-> [start |-> utf16_prefix_len(text, ranges[i].start),
                           end |-> utf16_prefix_len(text, ranges[i].end)]]
  BY <1>1 DEF utf16_ranges
<1> HIDE DEF R
<1>4. \A i \in 1..m : /\ R[i].start = utf16_prefix_len(text, ranges[i].start)
                      /\ R[i].end = utf16_prefix_len(text, ranges[i].end)
                      /\ R[i] \in Stretch
  BY <1>1, <1>2, <1>3 DEF Stretch
<1>5. R \in [1..m -> Stretch] /\ DOMAIN R = 1..m
  BY <1>3, <1>4
<1>6. R \in Seq(Stretch) /\ Len(R) = m
  BY <1>1, <1>5
<1>7. \A i \in 1..m : R[i].start \in Ends(text) /\ R[i].end \in Ends(text)
  BY <1>1, <1>2, <1>4
<1> QED
  BY <1>1, <1>4, <1>6, <1>7 DEF m, R

\* Ranges on characters stay in their order.
LEMMA RangesOrdered ==
  ASSUME NEW text \in Seq(Widths), NEW a \in Nat, NEW b \in Nat
  PROVE  /\ utf16_prefix_len(text, a) \in Nat /\ utf16_prefix_len(text, a) <= units(text, Len(text))
         /\ a <= b => utf16_prefix_len(text, a) <= utf16_prefix_len(text, b)
         /\ \A i \in 0..Len(text) : bytes(text, i) = a => utf16_prefix_len(text, a) = units(text, i)
         /\ (a < b /\ \E i \in 0..Len(text) : bytes(text, i) = b) =>
              utf16_prefix_len(text, a) < utf16_prefix_len(text, b)
<1> DEFINE n == Len(text)
           v == whole(text, a)
           w == whole(text, b)
<1>1. /\ n \in Nat
      /\ \A i \in 0..n : bytes(text, i) \in Nat /\ units(text, i) \in Nat
      /\ \A i, j \in 0..n : i < j => bytes(text, i) < bytes(text, j) /\ units(text, i) < units(text, j)
  BY CharacterEnds, LenProperties
<1>2. /\ v \in 0..n /\ w \in 0..n
      /\ bytes(text, v) <= a
      /\ a <= b => v <= w
      /\ \A i \in 0..n : bytes(text, i) = a => v = i
      /\ \A i \in 0..n : bytes(text, i) = b => w = i
  BY WholeHolds, WholeFinds
<1>3. utf16_prefix_len(text, a) = units(text, v) /\ utf16_prefix_len(text, b) = units(text, w)
  BY DEF utf16_prefix_len
<1> HIDE DEF n, v, w
<1>4. \A i, j \in 0..n : i <= j => units(text, i) <= units(text, j)
  <2> SUFFICES ASSUME NEW i \in 0..n, NEW j \in 0..n, i <= j PROVE units(text, i) <= units(text, j)
    OBVIOUS
  <2>1. units(text, i) \in Nat /\ units(text, j) \in Nat
    BY <1>1
  <2>2. CASE i = j
    BY <2>1, <2>2
  <2>3. CASE i # j
    <3>1. i < j
      BY <1>1, <2>3
    <3>2. units(text, i) < units(text, j)
      BY <1>1, <3>1
    <3> QED
      BY <2>1, <3>2
  <2> QED
    BY <2>2, <2>3
<1>5. units(text, v) <= units(text, n)
  <2>1. n \in 0..n /\ v <= n
    BY <1>1, <1>2
  <2> QED
    BY <1>2, <1>4, <2>1
<1>6. a <= b => units(text, v) <= units(text, w)
  BY <1>2, <1>4
<1>7. ASSUME a < b, NEW i \in 0..n, bytes(text, i) = b PROVE units(text, v) < units(text, w)
  <2>1. w = i /\ bytes(text, w) = b /\ bytes(text, v) < b /\ v <= w
    BY <1>1, <1>2, <1>7
  <2>2. v # w
    BY <1>7, <2>1
  <2>3. v < w
    BY <1>2, <2>1, <2>2
  <2> QED
    BY <1>1, <1>2, <2>3
<1>8. \A i \in 0..n : bytes(text, i) = a => units(text, v) = units(text, i)
  BY <1>2
<1> QED
  BY <1>1, <1>2, <1>3, <1>5, <1>6, <1>7, <1>8 DEF n

\* The column goes where the range that begins there goes.
LEMMA Column ==
  ASSUME NEW text, NEW col
  PROVE  col_utf16(text, col) = utf16_prefix_len(text, col)
<1> DEFINE r == [start |-> col, end |-> col]
           one == <<r>>
<1>1. one[1] = r /\ DOMAIN one = {1} /\ r.start = col
  OBVIOUS
<1>2. col_utf16(text, col) = utf16_ranges(text, one)[1].start
  BY DEF col_utf16
<1> HIDE DEF r, one
<1> QED
  BY <1>1, <1>2 DEF utf16_ranges

\* The answer to a hit is made of the hit.
HitInv ==
  (session.kind = "hit" /\ done) =>
    last = [spans |-> format_match(session.text, utf16_ranges(session.text, session.ranges)),
            col |-> col_utf16(session.text, session.ranges[1].start)]

\* Every step keeps that.
LEMMA StepHit == HitInv /\ [Next]_vars => HitInv'
<1> SUFFICES ASSUME HitInv, [Next]_vars PROVE HitInv'
  OBVIOUS
<1>1. CASE CallPage \/ CallGrep \/ CallParseQuery
  BY <1>1 DEF CallPage, CallGrep, CallParseQuery, HitInv, Paged, Directories
<1>2. CASE FormatMatch
  BY <1>2 DEF FormatMatch, HitInv
<1>3. CASE Change
  BY <1>3 DEF Change, HitInv
<1>4. CASE UNCHANGED vars
  BY <1>4 DEF vars, HitInv
<1> QED
  BY <1>1, <1>2, <1>3, <1>4 DEF Next, Call

\* What is printed of a hit is its line, in spans that follow each other and cut no
\* character, whatever the ranges are.
LEMMA SpansCover ==
  ASSUME NEW text \in Seq(Widths), NEW ranges \in Seq(Stretch)
  PROVE  LET spans == format_match(text, utf16_ranges(text, ranges))
             ends == {units(text, i) : i \in 0..Len(text)}
         IN /\ spans[1].from = 0 /\ spans[Len(spans)].to = units(text, Len(text))
            /\ \A i \in 1..(Len(spans) - 1) : spans[i].to = spans[i + 1].from
            /\ \A i \in DOMAIN spans :
                 spans[i].from <= spans[i].to /\ {spans[i].from, spans[i].to} \subseteq ends
<1> DEFINE R == utf16_ranges(text, ranges)
           spans == format_match(text, R)
<1>1. R \in Seq(Stretch) /\ \A i \in 1..Len(R) : R[i].start \in Ends(text) /\ R[i].end \in Ends(text)
  BY RangesType
<1> HIDE DEF R
<1>2. spans \in Seq(Span) /\ spans # <<>> /\ Tiled(text, spans, units(text, Len(text)))
  BY <1>1, LineTiles
<1> HIDE DEF spans
<1>3. DOMAIN spans = 1..Len(spans)
  BY <1>2, LenProperties
<1> QED
  BY <1>2, <1>3 DEF Tiled, Ends, spans, R

\* Ranges that lie in order on characters are lit, each where its characters are.
LEMMA SpansLit ==
  ASSUME NEW text \in Seq(Widths), NEW ranges \in Seq(Stretch), ranges # <<>>,
         \A i \in DOMAIN ranges :
           /\ \E n \in 0..Len(text) : bytes(text, n) = ranges[i].start
           /\ \E n \in 0..Len(text) : bytes(text, n) = ranges[i].end
           /\ ranges[i].start < ranges[i].end,
         \A i \in 1..(Len(ranges) - 1) : ranges[i].end <= ranges[i + 1].start
  PROVE  LET lit == Lit(format_match(text, utf16_ranges(text, ranges))) IN
           /\ Len(lit) = Len(ranges)
           /\ \A i \in DOMAIN ranges, n \in 0..Len(text) :
                /\ bytes(text, n) = ranges[i].start => lit[i].from = units(text, n)
                /\ bytes(text, n) = ranges[i].end => lit[i].to = units(text, n)
           /\ col_utf16(text, ranges[1].start) = lit[1].from
<1> DEFINE R == utf16_ranges(text, ranges)
           m == Len(ranges)
           lit == Lit(format_match(text, R))
<1>1. /\ R \in Seq(Stretch) /\ Len(R) = m
      /\ \A i \in 1..m : /\ ranges[i].start \in Nat /\ ranges[i].end \in Nat
                         /\ R[i].start = utf16_prefix_len(text, ranges[i].start)
                         /\ R[i].end = utf16_prefix_len(text, ranges[i].end)
  BY RangesType
<1>2. m \in Nat /\ m # 0 /\ DOMAIN ranges = 1..m
  BY LenProperties, EmptySeq
<1>3. /\ \A i \in 1..m : /\ \E n \in 0..Len(text) : bytes(text, n) = ranges[i].end
                         /\ ranges[i].start < ranges[i].end
      /\ \A i \in 1..(m - 1) : ranges[i].end <= ranges[i + 1].start
  BY <1>2
<1> HIDE DEF R, m
<1>4. \A i \in 1..m : R[i].start < R[i].end /\ R[i].end <= units(text, Len(text))
  <2> SUFFICES ASSUME NEW i \in 1..m PROVE R[i].start < R[i].end /\ R[i].end <= units(text, Len(text))
    OBVIOUS
  <2> DEFINE a == ranges[i].start
             b == ranges[i].end
  <2>1. /\ a \in Nat /\ b \in Nat
        /\ R[i].start = utf16_prefix_len(text, a) /\ R[i].end = utf16_prefix_len(text, b)
    BY <1>1
  <2>2. a < b /\ \E n \in 0..Len(text) : bytes(text, n) = b
    BY <1>3
  <2> HIDE DEF a, b
  <2>3. utf16_prefix_len(text, b) <= units(text, Len(text))
    BY <2>1, RangesOrdered
  <2>4. utf16_prefix_len(text, a) < utf16_prefix_len(text, b)
    BY <2>1, <2>2, RangesOrdered
  <2> QED
    BY <2>1, <2>3, <2>4
<1>5. \A i \in 1..(m - 1) : R[i].end <= R[i + 1].start
  <2> SUFFICES ASSUME NEW i \in 1..(m - 1) PROVE R[i].end <= R[i + 1].start
    OBVIOUS
  <2>1. i \in 1..m /\ i + 1 \in 1..m
    BY <1>2
  <2> DEFINE a == ranges[i].end
             b == ranges[i + 1].start
  <2>2. /\ a \in Nat /\ b \in Nat /\ a <= b
        /\ R[i].end = utf16_prefix_len(text, a) /\ R[i + 1].start = utf16_prefix_len(text, b)
    BY <1>1, <1>3, <2>1
  <2> HIDE DEF a, b
  <2>3. utf16_prefix_len(text, a) <= utf16_prefix_len(text, b)
    BY <2>2, RangesOrdered
  <2> QED
    BY <2>2, <2>3
<1>6. Len(lit) = m /\ \A i \in 1..m : lit[i] = span(R[i].start, R[i].end, TRUE)
  BY <1>1, <1>4, <1>5, LineLights
<1> HIDE DEF lit
<1>7. \A i \in 1..m : lit[i].from = R[i].start /\ lit[i].to = R[i].end
  BY <1>6 DEF span
<1>8. \A i \in 1..m, n \in 0..Len(text) :
        /\ bytes(text, n) = ranges[i].start => lit[i].from = units(text, n)
        /\ bytes(text, n) = ranges[i].end => lit[i].to = units(text, n)
  <2> SUFFICES ASSUME NEW i \in 1..m, NEW n \in 0..Len(text)
               PROVE  /\ bytes(text, n) = ranges[i].start => lit[i].from = units(text, n)
                      /\ bytes(text, n) = ranges[i].end => lit[i].to = units(text, n)
    OBVIOUS
  <2>1. \A a \in Nat : bytes(text, n) = a => utf16_prefix_len(text, a) = units(text, n)
    BY RangesOrdered
  <2> QED
    BY <1>1, <1>7, <2>1
<1>9. col_utf16(text, ranges[1].start) = lit[1].from
  <2>1. 1 \in 1..m
    BY <1>2
  <2> QED
    BY <1>1, <1>7, <2>1, Column
<1> QED
  BY <1>2, <1>6, <1>8, <1>9 DEF lit, R, m

\* What is printed of a hit is its line, span after span, no span cuts a character in two,
\* and ranges that lie in order on characters are lit exactly: for lines and ranges of
\* any length, also ranges that are out of order, inside a character or beyond the line.
THEOREM SpecHighlightsFaithful == Spec => []HighlightsFaithful
<1>1. Init => HitInv
  BY DEF Init, HitInv
<1>2. IndexInv /\ HitInv => HighlightsFaithful
  <2> SUFFICES ASSUME IndexInv, session.kind = "hit", done, HitInv PROVE HighlightsFaithful
    BY DEF HighlightsFaithful
  <2> DEFINE text == session.text
             ranges == session.ranges
             spans == last.spans
             ends == {units(text, i) : i \in 0..Len(text)}
             start(i) == {n \in 0..Len(text) : bytes(text, n) = ranges[i].start}
             end(i) == {n \in 0..Len(text) : bytes(text, n) = ranges[i].end}
             ordered == /\ \A i \in DOMAIN ranges :
                             start(i) # {} /\ end(i) # {} /\ ranges[i].start < ranges[i].end
                        /\ \A i \in 1..(Len(ranges) - 1) : ranges[i].end <= ranges[i + 1].start
             lit == Lit(spans)
  <2>1. text \in Seq(Widths) /\ ranges \in Seq(Stretch) /\ ranges # <<>>
    BY SessionsAssumption DEF IndexInv, Widths, Stretch
  <2>2. spans = format_match(text, utf16_ranges(text, ranges)) /\ last.col = col_utf16(text, ranges[1].start)
    BY DEF HitInv
  <2> HIDE DEF text, ranges, spans
  <2>3. /\ spans[1].from = 0 /\ spans[Len(spans)].to = units(text, Len(text))
        /\ \A i \in 1..(Len(spans) - 1) : spans[i].to = spans[i + 1].from
        /\ \A i \in DOMAIN spans :
             spans[i].from <= spans[i].to /\ {spans[i].from, spans[i].to} \subseteq ends
    BY <2>1, <2>2, SpansCover
  <2>4. ASSUME ordered
        PROVE  /\ Len(lit) = Len(ranges)
               /\ \A i \in DOMAIN ranges :
                    /\ lit[i].from = units(text, CHOOSE n \in start(i) : TRUE)
                    /\ lit[i].to = units(text, CHOOSE n \in end(i) : TRUE)
               /\ last.col = lit[1].from
    <3>1. /\ \A i \in DOMAIN ranges :
               /\ \E n \in 0..Len(text) : bytes(text, n) = ranges[i].start
               /\ \E n \in 0..Len(text) : bytes(text, n) = ranges[i].end
               /\ ranges[i].start < ranges[i].end
          /\ \A i \in 1..(Len(ranges) - 1) : ranges[i].end <= ranges[i + 1].start
      BY <2>4
    <3>2. /\ Len(lit) = Len(ranges)
          /\ \A i \in DOMAIN ranges, n \in 0..Len(text) :
               /\ bytes(text, n) = ranges[i].start => lit[i].from = units(text, n)
               /\ bytes(text, n) = ranges[i].end => lit[i].to = units(text, n)
          /\ last.col = lit[1].from
      BY <2>1, <2>2, <3>1, SpansLit
    <3> HIDE DEF lit
    <3>3. ASSUME NEW i \in DOMAIN ranges
          PROVE  /\ lit[i].from = units(text, CHOOSE n \in start(i) : TRUE)
                 /\ lit[i].to = units(text, CHOOSE n \in end(i) : TRUE)
      <4>1. start(i) # {} /\ end(i) # {}
        BY <2>4
      <4>2. (CHOOSE n \in start(i) : TRUE) \in start(i) /\ (CHOOSE n \in end(i) : TRUE) \in end(i)
        <5> HIDE DEF start, end
        <5> QED
          BY <4>1
      <4> QED
        BY <3>2, <4>2
    <3> QED
      BY <3>2, <3>3
  <2>5. lit = FlattenSeq([i \in DOMAIN spans |-> kept(spans[i].lit, spans[i])])
    BY DEF Lit
  <2> QED
    BY <2>3, <2>4, <2>5, Zenon DEF HighlightsFaithful, text, ranges, spans
<1> QED
  BY <1>1, <1>2, StepHit, SpecIndexInv, PTL DEF Spec

=============================================================================
