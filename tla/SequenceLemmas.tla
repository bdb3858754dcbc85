----------------------------- MODULE SequenceLemmas -----------------------------
(***************************************************************************)
(* What the proofs of the other modules need to know of FlattenSeq, the    *)
(* operator by which the model filters its queues: each element yields a   *)
(* sequence, the empty one when it is passed over.  FlattenSeq is recursive*)
(* over the sequence; the facts are proved by induction over its length.   *)
(***************************************************************************)
EXTENDS Integers, SequencesExt, SequenceTheorems, WellFoundedInduction, TLAPS

(* Every set of naturals has a least element, ... *)
LEMMA LeastNat ==
    ASSUME NEW T, T \subseteq Nat, T # {}
    PROVE  \E n \in T : \A m \in T : n <= m
<1> DEFINE R == {ss \in Nat \X Nat : ss[1] < ss[2]}
<1>1. IsWellFoundedOn(R, Nat)
  BY NatLessThanWellFounded DEF OpToRel
<1>2. \E x \in T : \A y \in T : ~(<<y, x>> \in R)
  <2> HIDE DEF R
  <2> QED
    BY <1>1, WFMin
<1>3. PICK x \in T : \A y \in T : ~(<<y, x>> \in R)
  BY <1>2
<1>4. \A y \in T : ~(y < x)
  <2> TAKE y \in T
  <2>1. <<y, x>> \in Nat \X Nat
    OBVIOUS
  <2>2. ~(<<y, x>> \in R)
    BY <1>3
  <2> QED
    BY <2>1, <2>2, Zenon DEF R
<1> QED
  BY <1>4

(* ... so that a set that has 0 and every successor has every natural. *)
LEMMA SetInduction ==
    ASSUME NEW S, 0 \in S, \A n \in Nat : n \in S => n + 1 \in S
    PROVE  Nat \subseteq S
<1> DEFINE T == {n \in Nat : n \notin S}
<1> SUFFICES ASSUME T # {} PROVE FALSE
  OBVIOUS
<1>1. PICK n \in T : \A m \in T : n <= m
  BY LeastNat
<1>2. n - 1 \in Nat /\ n - 1 \notin T
  BY <1>1
<1> QED
  BY <1>2

--------------------------------------------------------------------------------
(* f[n] is what the first n elements of ss amount to. *)
Flattens(f, ss, S) ==
    /\ f \in [1 .. Len(ss) -> Seq(S)]
    /\ ss # <<>> => f[1] = ss[1]
    /\ \A i \in 1 .. Len(ss) - 1 : f[i + 1] = f[i] \o ss[i + 1]

LEMMA FlattensExists ==
    ASSUME NEW S, NEW ss \in Seq(Seq(S))
    PROVE  \E f : Flattens(f, ss, S)
<1> DEFINE F(n, f) == /\ f \in [1 .. n -> Seq(S)]
                      /\ n # 0 => f[1] = ss[1]
                      /\ \A i \in 1 .. n - 1 : f[i + 1] = f[i] \o ss[i + 1]
           K == {n \in Nat : n <= Len(ss) => \E f : F(n, f)}
<1>1. 0 \in K
  <2> DEFINE e == [i \in 1 .. 0 |-> <<>>]
  <2>1. F(0, e)
    OBVIOUS
  <2>2. \E f : F(0, f)
    <3> HIDE DEF F, e
    <3> QED
      BY <2>1
  <2> HIDE DEF F
  <2> QED
    BY <2>2
<1>2. ASSUME NEW n \in Nat, n \in K, n + 1 <= Len(ss) PROVE \E f : F(n + 1, f)
  <2>1. n <= Len(ss) /\ ss[n + 1] \in Seq(S)
    BY <1>2
  <2>2. PICK f : F(n, f)
    <3> HIDE DEF F
    <3> QED
      BY <1>2, <2>1
  <2> DEFINE next == IF n = 0 THEN ss[1] ELSE f[n] \o ss[n + 1]
             g == [i \in 1 .. n + 1 |-> IF i = n + 1 THEN next ELSE f[i]]
  <2>3. next \in Seq(S)
    <3>1. CASE n = 0
      BY <2>1, <3>1
    <3>2. CASE n # 0
      <4>1. f[n] \in Seq(S)
        BY <2>2, <3>2
      <4> QED
        BY <2>1, <3>2, <4>1, ConcatProperties
    <3> QED
      BY <3>1, <3>2
  <2>4. /\ g \in [1 .. n + 1 -> Seq(S)]
        /\ g[n + 1] = next
        /\ \A i \in 1 .. n : g[i] = f[i]
    <3> HIDE DEF next
    <3> QED
      BY <2>2, <2>3
  <2>5. g[1] = ss[1]
    <3>1. CASE n = 0
      BY <2>4, <3>1
    <3>2. CASE n # 0
      <4>1. f[1] = ss[1] /\ 1 \in 1 .. n
        BY <2>2, <3>2
      <4> HIDE DEF next, g
      <4> QED
        BY <2>4, <4>1
    <3> QED
      BY <3>1, <3>2
  <2>6. ASSUME NEW i \in 1 .. n PROVE g[i + 1] = g[i] \o ss[i + 1]
    <3>1. CASE i = n
      <4>0. n # 0
        BY <3>1
      <4>1. next = f[n] \o ss[n + 1]
        BY <4>0
      <4> HIDE DEF next, g
      <4> QED
        BY <2>4, <3>1, <4>1
    <3>2. CASE i # n
      <4>1. i \in 1 .. n - 1 /\ i + 1 \in 1 .. n
        BY <3>2
      <4>2. f[i + 1] = f[i] \o ss[i + 1]
        BY <2>2, <4>1
      <4> HIDE DEF next, g
      <4> QED
        BY <2>4, <4>1, <4>2
    <3> QED
      BY <3>1, <3>2
  <2>7. F(n + 1, g)
    <3> HIDE DEF g
    <3>1. (n + 1) - 1 = n /\ n + 1 # 0
      OBVIOUS
    <3> QED
      BY <2>4, <2>5, <2>6, <3>1
  <2> HIDE DEF g, F
  <2> QED
    BY <2>7
<1>3. ASSUME NEW n \in Nat, n \in K PROVE n + 1 \in K
  <2>1. n + 1 <= Len(ss) => \E f : F(n + 1, f)
    <3> HIDE DEF K, F
    <3> QED
      BY <1>2, <1>3
  <2> HIDE DEF F
  <2> QED
    BY <2>1
<1>4. Nat \subseteq K
  <2> HIDE DEF K
  <2> QED
    BY <1>1, <1>3, SetInduction
<1>5. Len(ss) \in Nat
  OBVIOUS
<1>6. PICK f : F(Len(ss), f)
  <2> HIDE DEF F
  <2> QED
    BY <1>4, <1>5
<1>7. Flattens(f, ss, S)
  <2>1. ss # <<>> => Len(ss) # 0
    OBVIOUS
  <2> QED
    BY <1>6, <2>1 DEF Flattens
<1> QED
  BY <1>7

(* Induction over the indices of a sequence. *)
LEMMA IndexInduction ==
    ASSUME NEW n \in Nat, NEW K, n # 0 => 1 \in K,
           \A i \in 1 .. n - 1 : i \in K => i + 1 \in K
    PROVE  1 .. n \subseteq K
<1> DEFINE T == {i \in Nat : i \in 1 .. n => i \in K}
<1>1. 0 \in T
  OBVIOUS
<1>2. ASSUME NEW i \in Nat, i \in T PROVE i + 1 \in T
  <2> SUFFICES ASSUME i + 1 \in 1 .. n PROVE i + 1 \in K
    OBVIOUS
  <2>1. CASE i = 0
    BY <2>1
  <2>2. CASE i # 0
    <3>1. i \in 1 .. n - 1 /\ i \in 1 .. n
      BY <2>2
    <3> QED
      BY <1>2, <3>1
  <2> QED
    BY <2>1, <2>2
<1>3. Nat \subseteq T
  <2> HIDE DEF T
  <2> QED
    BY <1>1, <1>2, SetInduction
<1> QED
  BY <1>3

(* FlattenSeq computes it. *)
LEMMA FlattenSteps ==
    ASSUME NEW S, NEW ss \in Seq(Seq(S))
    PROVE  \E f : /\ Flattens(f, ss, S)
                  /\ FlattenSeq(ss) = IF ss = <<>> THEN <<>> ELSE f[Len(ss)]
<1>1. CASE ss = <<>>
  BY <1>1, FlattensExists DEF FlattenSeq
<1>2. CASE ss # <<>>
  <2> DEFINE D(f) == [i \in 1 .. Len(ss) |-> IF i = 1 THEN ss[i] ELSE f[i - 1] \o ss[i]]
             g == CHOOSE f : f = D(f)
             n == Len(ss)
  <2>1. PICK f : Flattens(f, ss, S)
    BY FlattensExists
  <2>2. n \in Nat \ {0}
    BY <1>2
  <2>3. f = D(f)
    <3>1. ASSUME NEW i \in 1 .. n PROVE f[i] = IF i = 1 THEN ss[i] ELSE f[i - 1] \o ss[i]
      <4>1. CASE i = 1
        BY <1>2, <2>1, <4>1 DEF Flattens
      <4>2. CASE i # 1
        <5>1. i - 1 \in 1 .. n - 1 /\ (i - 1) + 1 = i
          BY <4>2
        <5>2. \A j \in 1 .. n - 1 : f[j + 1] = f[j] \o ss[j + 1]
          BY <2>1 DEF Flattens
        <5>3. f[(i - 1) + 1] = f[i - 1] \o ss[(i - 1) + 1]
          BY <5>1, <5>2
        <5> QED
          BY <4>2, <5>1, <5>3
      <4> QED
        BY <4>1, <4>2
    <3> QED
      BY <2>1, <3>1 DEF Flattens
  <2>4. g = D(g)
    <3> HIDE DEF D
    <3> QED
      BY <2>3
  <2>5. FlattenSeq(ss) = g[n]
    BY <1>2 DEF FlattenSeq
  <2> HIDE DEF g
  <2>6. g[1] = ss[1]
    <3>1. 1 \in 1 .. n
      BY <2>2
    <3> QED
      BY <2>4, <3>1
  <2>7. ASSUME NEW i \in 1 .. n - 1 PROVE g[i + 1] = g[i] \o ss[i + 1]
    <3>1. i + 1 \in 1 .. n /\ i + 1 # 1 /\ (i + 1) - 1 = i
      BY <2>2
    <3>2. g[i + 1] = g[(i + 1) - 1] \o ss[i + 1]
      BY <2>4, <3>1
    <3> QED
      BY <3>1, <3>2
  <2>8. f[1] = g[1] /\ \A i \in 1 .. n - 1 : f[i + 1] = f[i] \o ss[i + 1]
    BY <1>2, <2>1, <2>6 DEF Flattens
  <2>9. \A i \in 1 .. n : f[i] = g[i]
    <3> DEFINE K == {i \in 1 .. n : f[i] = g[i]}
    <3>1. 1 \in K
      BY <2>2, <2>8
    <3>2. ASSUME NEW i \in 1 .. n - 1, i \in K PROVE i + 1 \in K
      <4>1. i + 1 \in 1 .. n /\ f[i] = g[i]
        BY <2>2, <3>2
      <4>2. g[i + 1] = g[i] \o ss[i + 1] /\ f[i + 1] = f[i] \o ss[i + 1]
        BY <2>7, <2>8
      <4> QED
        BY <4>1, <4>2
    <3>3. 1 .. n \subseteq K
      <4> HIDE DEF K, n
      <4> QED
        BY <2>2, <3>1, <3>2, IndexInduction
    <3> QED
      BY <3>3
  <2> QED
    BY <1>2, <2>1, <2>2, <2>5, <2>9
<1> QED
  BY <1>1, <1>2

LEMMA FlattenType ==
    ASSUME NEW S, NEW ss \in Seq(Seq(S))
    PROVE  FlattenSeq(ss) \in Seq(S)
<1>1. PICK f : /\ Flattens(f, ss, S)
               /\ FlattenSeq(ss) = IF ss = <<>> THEN <<>> ELSE f[Len(ss)]
  BY FlattenSteps
<1>2. CASE ss = <<>>
  BY <1>1, <1>2
<1>3. CASE ss # <<>>
  <2>1. Len(ss) \in 1 .. Len(ss)
    BY <1>3
  <2>2. f \in [1 .. Len(ss) -> Seq(S)]
    BY <1>1 DEF Flattens
  <2> QED
    BY <1>1, <1>3, <2>1, <2>2
<1> QED
  BY <1>2, <1>3

LEMMA FlattenEmpty == FlattenSeq(<<>>) = <<>>
  BY DEF FlattenSeq

LEMMA FlattenAppend ==
    ASSUME NEW S, NEW ss \in Seq(Seq(S)), NEW s \in Seq(S)
    PROVE  FlattenSeq(Append(ss, s)) = FlattenSeq(ss) \o s
<1> SUFFICES ASSUME NEW tt, tt = Append(ss, s), NEW n, n = Len(ss)
             PROVE  FlattenSeq(tt) = FlattenSeq(ss) \o s
  OBVIOUS
<1>1. /\ tt \in Seq(Seq(S)) /\ tt # <<>> /\ Len(tt) = n + 1 /\ n \in Nat
      /\ \A i \in 1 .. n : tt[i] = ss[i]
      /\ tt[n + 1] = s
  BY AppendProperties
<1>2. PICK f : /\ Flattens(f, ss, S)
               /\ FlattenSeq(ss) = IF ss = <<>> THEN <<>> ELSE f[n]
  BY FlattenSteps
<1>3. PICK g : Flattens(g, tt, S) /\ FlattenSeq(tt) = g[n + 1]
  <2>1. \E g : /\ Flattens(g, tt, S)
               /\ FlattenSeq(tt) = IF tt = <<>> THEN <<>> ELSE g[Len(tt)]
    BY <1>1, FlattenSteps, Zenon
  <2> QED
    BY <1>1, <2>1, Zenon
<1>4. /\ ss # <<>> => f[1] = ss[1]
      /\ \A i \in 1 .. n - 1 : f[i + 1] = f[i] \o ss[i + 1]
  BY <1>2 DEF Flattens
<1>5. /\ g[1] = tt[1]
      /\ \A i \in 1 .. n : g[i + 1] = g[i] \o tt[i + 1]
  <2>1. (n + 1) - 1 = n
    BY <1>1
  <2> QED
    BY <1>1, <1>3, <2>1 DEF Flattens
<1>6. CASE ss = <<>>
  <2>1. n = 0
    BY <1>6
  <2> QED
    BY <1>1, <1>2, <1>3, <1>5, <1>6, <2>1, ConcatEmptySeq
<1>7. CASE ss # <<>>
  <2>1. n \in 1 .. n /\ 1 \in 1 .. n
    BY <1>1, <1>7
  <2>2. \A i \in 1 .. n - 1 : f[i] = g[i] => f[i + 1] = g[i + 1]
    <3>1. \A i \in 1 .. n - 1 : i \in 1 .. n /\ i + 1 \in 1 .. n
      BY <1>1
    <3>2. \A i \in 1 .. n - 1 : ss[i + 1] = tt[i + 1]
      BY <1>1, <3>1
    <3> QED
      BY <1>4, <1>5, <3>1, <3>2
  <2>3. f[1] = g[1]
    BY <1>1, <1>4, <1>5, <1>7, <2>1
  <2>4. \A i \in 1 .. n : f[i] = g[i]
    <3> DEFINE K == {i \in 1 .. n : f[i] = g[i]}
    <3>1. 1 \in K
      BY <2>1, <2>3
    <3>2. \A i \in 1 .. n - 1 : i \in K => i + 1 \in K
      BY <1>1, <2>2
    <3>3. 1 .. n \subseteq K
      <4> HIDE DEF K
      <4> QED
        BY <1>1, <3>1, <3>2, IndexInduction
    <3> QED
      BY <3>3
  <2>5. g[n + 1] = g[n] \o tt[n + 1]
    BY <1>5, <2>1
  <2> QED
    BY <1>1, <1>2, <1>3, <1>7, <2>1, <2>4, <2>5
<1> QED
  BY <1>6, <1>7

LEMMA Associative ==
    ASSUME NEW S
    PROVE  \A a, b, c \in Seq(S) : (a \o b) \o c = a \o (b \o c)
  BY ConcatAssociative, SMT

LEMMA AppendToConcat ==
    ASSUME NEW S
    PROVE  \A a, b \in Seq(S), e \in S : Append(a \o b, e) = a \o Append(b, e)
<1> TAKE a, b \in Seq(S), e \in S
<1>1. <<e>> \in Seq(S) /\ a \o b \in Seq(S)
  OBVIOUS
<1>2. (a \o b) \o <<e>> = a \o (b \o <<e>>)
  BY <1>1, Associative
<1>3. Append(b, e) = b \o <<e>>
  BY AppendIsConcat
<1>4. Append(a \o b, e) = (a \o b) \o <<e>>
  BY <1>1, AppendIsConcat
<1> QED
  BY <1>2, <1>3, <1>4, Zenon

LEMMA FlattenConcat ==
    ASSUME NEW S
    PROVE  \A ss, tt \in Seq(Seq(S)) :
              FlattenSeq(ss \o tt) = FlattenSeq(ss) \o FlattenSeq(tt)
<1>a. \A a, b \in Seq(Seq(S)), e \in Seq(S) : Append(a \o b, e) = a \o Append(b, e)
  BY AppendToConcat
<1>b. \A a, b, c \in Seq(S) : (a \o b) \o c = a \o (b \o c)
  BY Associative
<1> TAKE ss, tt \in Seq(Seq(S))
<1> DEFINE Splits(n) == \A uu \in Seq(Seq(S)) :
                Len(uu) = n => FlattenSeq(ss \o uu) = FlattenSeq(ss) \o FlattenSeq(uu)
           K == {n \in Nat : Splits(n)}
<1>1. 0 \in K
  <2> SUFFICES ASSUME NEW uu \in Seq(Seq(S)), Len(uu) = 0
               PROVE  FlattenSeq(ss \o uu) = FlattenSeq(ss) \o FlattenSeq(uu)
    OBVIOUS
  <2>1. uu = <<>>
    OBVIOUS
  <2>2. ss \o uu = ss /\ FlattenSeq(uu) = <<>> /\ FlattenSeq(ss) \in Seq(S)
    BY <2>1, FlattenEmpty, FlattenType, ConcatEmptySeq
  <2> QED
    BY <2>2, ConcatEmptySeq
<1>2. ASSUME NEW n \in Nat, n \in K PROVE n + 1 \in K
  <2> SUFFICES ASSUME NEW uu \in Seq(Seq(S)), Len(uu) = n + 1
               PROVE  FlattenSeq(ss \o uu) = FlattenSeq(ss) \o FlattenSeq(uu)
    OBVIOUS
  <2>1. uu # <<>>
    OBVIOUS
  <2>2. PICK vv \in Seq(Seq(S)), v \in Seq(S) : uu = Append(vv, v)
    BY <2>1, SequenceEmptyOrAppend
  <2>3. Len(vv) = n
    BY <2>2, AppendProperties
  <2>4. ss \o vv \in Seq(Seq(S))
        /\ FlattenSeq(ss \o vv) = FlattenSeq(ss) \o FlattenSeq(vv)
    BY <1>2, <2>3, ConcatProperties
  <2>5. Append(ss \o vv, v) = ss \o Append(vv, v)
    BY <1>a, Zenon
  <2>6. FlattenSeq(Append(ss \o vv, v)) = FlattenSeq(ss \o vv) \o v
    BY <2>4, FlattenAppend
  <2>7. FlattenSeq(uu) = FlattenSeq(vv) \o v
    BY <2>2, FlattenAppend
  <2>8. FlattenSeq(ss) \in Seq(S) /\ FlattenSeq(vv) \in Seq(S)
    BY FlattenType
  <2>9. (FlattenSeq(ss) \o FlattenSeq(vv)) \o v = FlattenSeq(ss) \o (FlattenSeq(vv) \o v)
    BY <1>b, <2>8, Zenon
  <2> QED
    BY <2>2, <2>4, <2>5, <2>6, <2>7, <2>9, Zenon
<1>3. Nat \subseteq K
  <2> HIDE DEF K
  <2> QED
    BY <1>1, <1>2, SetInduction
<1>4. Len(tt) \in K
  BY <1>3
<1> QED
  BY <1>4

LEMMA FlattenOne ==
    ASSUME NEW S, NEW s \in Seq(S)
    PROVE  FlattenSeq(<<s>>) = s
<1>1. <<s>> = Append(<<>>, s) /\ <<>> \in Seq(Seq(S))
  OBVIOUS
<1>2. FlattenSeq(<<s>>) = FlattenSeq(<<>>) \o s
  BY <1>1, FlattenAppend
<1> QED
  BY <1>2, FlattenEmpty, ConcatEmptySeq

LEMMA FlattenCons ==
    ASSUME NEW S, NEW ss \in Seq(Seq(S)), ss # <<>>
    PROVE  FlattenSeq(ss) = Head(ss) \o FlattenSeq(Tail(ss))
<1>1. /\ Head(ss) \in Seq(S) /\ Tail(ss) \in Seq(Seq(S))
      /\ <<Head(ss)>> \in Seq(Seq(S)) /\ ss = <<Head(ss)>> \o Tail(ss)
  OBVIOUS
<1>2. FlattenSeq(ss) = FlattenSeq(<<Head(ss)>>) \o FlattenSeq(Tail(ss))
  BY <1>1, FlattenConcat
<1> QED
  BY <1>1, <1>2, FlattenOne

LEMMA FlattenTwo ==
    ASSUME NEW S, NEW a \in Seq(S), NEW b \in Seq(S)
    PROVE  FlattenSeq(<<a, b>>) = a \o b
<1> DEFINE ss == <<a, b>>
<1>1. ss \in Seq(Seq(S)) /\ ss # <<>> /\ Head(ss) = a /\ Tail(ss) = <<b>>
  OBVIOUS
<1> HIDE DEF ss
<1>2. FlattenSeq(ss) = a \o FlattenSeq(<<b>>)
  BY <1>1, FlattenCons
<1> QED
  BY <1>2, FlattenOne DEF ss

(* Nothing but empty sequences amounts to nothing. *)
LEMMA FlattenNothing ==
    ASSUME NEW S, NEW ss \in Seq(Seq(S)), \A i \in 1 .. Len(ss) : ss[i] = <<>>
    PROVE  FlattenSeq(ss) = <<>>
<1>1. PICK f : /\ Flattens(f, ss, S)
               /\ FlattenSeq(ss) = IF ss = <<>> THEN <<>> ELSE f[Len(ss)]
  BY FlattenSteps
<1>2. CASE ss = <<>>
  BY <1>1, <1>2
<1>3. CASE ss # <<>>
  <2> DEFINE n == Len(ss)
             K == {i \in 1 .. n : f[i] = <<>>}
  <2>1. n \in Nat \ {0}
    BY <1>3
  <2>2. 1 \in K
    BY <1>1, <1>3, <2>1 DEF Flattens
  <2>3. ASSUME NEW i \in 1 .. n - 1, i \in K PROVE i + 1 \in K
    <3>0. \A j \in 1 .. n - 1 : f[j + 1] = f[j] \o ss[j + 1]
      BY <1>1 DEF Flattens
    <3>1. f[i + 1] = f[i] \o ss[i + 1]
      BY <3>0, Zenon
    <3>2. i + 1 \in 1 .. n
      BY <2>1
    <3>3. f[i] = <<>> /\ ss[i + 1] = <<>>
      BY <2>3, <3>2
    <3>4. f[i + 1] = <<>>
      BY <3>1, <3>3
    <3> QED
      BY <3>2, <3>4
  <2>4. 1 .. n \subseteq K
    <3> HIDE DEF K, n
    <3> QED
      BY <2>1, <2>2, <2>3, IndexInduction
  <2>5. f[n] = <<>>
    BY <2>1, <2>4
  <2> QED
    BY <1>1, <1>3, <2>5
<1> QED
  BY <1>2, <1>3

--------------------------------------------------------------------------------
(* What a loop over the elements of q computes, step by step. *)
RunsThrough(f, A, s, q, S) ==
    /\ f \in [0 .. Len(q) -> S]
    /\ f[0] = s
    /\ \A i \in 1 .. Len(q) : f[i] = A[<<f[i - 1], q[i]>>]

LEMMA FoldExists ==
    ASSUME NEW S, NEW M, NEW A \in [S \X M -> S], NEW s0 \in S, NEW q \in Seq(M)
    PROVE  \E f : RunsThrough(f, A, s0, q, S)
<1> DEFINE F(n, f) == /\ f \in [0 .. n -> S]
                      /\ f[0] = s0
                      /\ \A i \in 1 .. n : f[i] = A[<<f[i - 1], q[i]>>]
           K == {n \in Nat : n <= Len(q) => \E f : F(n, f)}
<1>1. 0 \in K
  <2> DEFINE e == [i \in 0 .. 0 |-> s0]
  <2>1. F(0, e)
    OBVIOUS
  <2>2. \E f : F(0, f)
    <3> HIDE DEF F, e
    <3> QED
      BY <2>1
  <2> HIDE DEF F
  <2> QED
    BY <2>2
<1>2. ASSUME NEW n \in Nat, n \in K PROVE n + 1 \in K
  <2> SUFFICES ASSUME n + 1 <= Len(q) PROVE \E f : F(n + 1, f)
    <3> HIDE DEF F
    <3> QED
      OBVIOUS
  <2>1. n <= Len(q) /\ n + 1 \in 1 .. Len(q)
    OBVIOUS
  <2>2. PICK f : F(n, f)
    <3> HIDE DEF F
    <3> QED
      BY <1>2, <2>1
  <2> DEFINE next == A[<<f[n], q[n + 1]>>]
             g == [i \in 0 .. n + 1 |-> IF i = n + 1 THEN next ELSE f[i]]
  <2>3. next \in S
    <3>1. f[n] \in S
      BY <2>2
    <3>2. q[n + 1] \in M
      BY <2>1
    <3> QED
      BY <3>1, <3>2
  <2>4. /\ g \in [0 .. n + 1 -> S]
        /\ g[n + 1] = next
        /\ \A i \in 0 .. n : g[i] = f[i]
    <3> HIDE DEF next
    <3> QED
      BY <2>2, <2>3
  <2>5. ASSUME NEW i \in 1 .. n + 1 PROVE g[i] = A[<<g[i - 1], q[i]>>]
    <3>1. CASE i = n + 1
      <4>1. i - 1 = n /\ n \in 0 .. n
        BY <3>1
      <4> HIDE DEF g
      <4> QED
        BY <2>4, <3>1, <4>1
    <3>2. CASE i # n + 1
      <4>1. i \in 1 .. n /\ i \in 0 .. n /\ i - 1 \in 0 .. n
        BY <3>2
      <4>2. f[i] = A[<<f[i - 1], q[i]>>]
        BY <2>2, <4>1
      <4> HIDE DEF next, g
      <4> QED
        BY <2>4, <4>1, <4>2
    <3> QED
      BY <3>1, <3>2
  <2>6. g[0] = s0
    <3>1. 0 \in 0 .. n /\ f[0] = s0
      BY <2>2
    <3> HIDE DEF next, g
    <3> QED
      BY <2>4, <3>1
  <2>7. F(n + 1, g)
    <3> HIDE DEF g
    <3> QED
      BY <2>4, <2>5, <2>6
  <2> HIDE DEF g, F
  <2> QED
    BY <2>7
<1>3. Nat \subseteq K
  <2> HIDE DEF K
  <2> QED
    BY <1>1, <1>2, SetInduction
<1>4. \E f : F(Len(q), f)
  <2>1. Len(q) \in Nat
    OBVIOUS
  <2> HIDE DEF F
  <2> QED
    BY <1>3, <2>1
<1> QED
  BY <1>4 DEF RunsThrough

(* The two ends of a concatenation. *)
LEMMA TailOfConcat ==
    ASSUME NEW S, NEW a \in Seq(S), NEW b \in Seq(S), a # <<>>
    PROVE  a \o b # <<>> /\ Head(a \o b) = Head(a) /\ Tail(a \o b) = Tail(a) \o b
<1>1. a = <<Head(a)>> \o Tail(a) /\ Head(a) \in S /\ Tail(a) \in Seq(S)
  OBVIOUS
<1>2. a \o b # <<>> /\ a \o b \in Seq(S) /\ Head(a \o b) = Head(a)
  OBVIOUS
<1>3. Len(Tail(a \o b)) = Len(Tail(a) \o b)
  OBVIOUS
<1>4. \A i \in 1 .. Len(Tail(a \o b)) : Tail(a \o b)[i] = (Tail(a) \o b)[i]
  OBVIOUS
<1>5. Tail(a \o b) \in Seq(S) /\ Tail(a) \o b \in Seq(S)
  BY <1>1, <1>2
<1> QED
  BY <1>2, <1>3, <1>4, <1>5, SeqEqual

LEMMA DropOfConcat ==
    ASSUME NEW S, NEW a \in Seq(S), NEW b \in Seq(S)
    PROVE  SubSeq(a \o b, Len(a) + 1, Len(a \o b)) = b
<1> DEFINE c == SubSeq(a \o b, Len(a) + 1, Len(a \o b))
<1>1. /\ a \o b \in Seq(S) /\ Len(a \o b) = Len(a) + Len(b)
      /\ Len(a) \in Nat /\ Len(b) \in Nat
      /\ \A i \in 1 .. Len(b) : (a \o b)[Len(a) + i] = b[i]
  OBVIOUS
<1>2. \A i \in Len(a) + 1 .. Len(a \o b) : (a \o b)[i] \in S
  BY <1>1
<1>3. c \in Seq(S) /\ Len(c) = Len(b)
      /\ \A i \in 1 .. Len(b) : c[i] = (a \o b)[(Len(a) + 1) + i - 1]
  BY <1>1, <1>2, SubSeqProperties
<1>4. \A i \in 1 .. Len(b) : c[i] = b[i]
  BY <1>1, <1>3
<1> HIDE DEF c
<1> QED
  BY <1>3, <1>4, SeqEqual

----------------------------------------------------------------
(* Whatever is in the whole comes from one of the parts. *)
LEMMA FlattenFrom ==
    ASSUME NEW S, NEW ss \in Seq(Seq(S)), NEW k \in 1 .. Len(FlattenSeq(ss))
    PROVE  \E i \in 1 .. Len(ss) : \E j \in 1 .. Len(ss[i]) : FlattenSeq(ss)[k] = ss[i][j]
<1>1. PICK f : /\ Flattens(f, ss, S)
               /\ FlattenSeq(ss) = IF ss = <<>> THEN <<>> ELSE f[Len(ss)]
  BY FlattenSteps
<1>2. ss # <<>>
  BY <1>1
<1> DEFINE n == Len(ss)
           In(m, e) == \E i \in 1 .. m : \E j \in 1 .. Len(ss[i]) : e = ss[i][j]
           K == {m \in 1 .. n : \A l \in 1 .. Len(f[m]) : In(m, f[m][l])}
<1>3. n \in Nat \ {0}
  BY <1>2
<1>4. 1 \in K
  <2>1. f[1] = ss[1]
    BY <1>1, <1>2, <1>3 DEF Flattens
  <2> QED
    BY <1>3, <2>1
<1>5. ASSUME NEW m \in 1 .. n - 1, m \in K PROVE m + 1 \in K
  <2>0. /\ \A j \in 1 .. n - 1 : f[j + 1] = f[j] \o ss[j + 1]
        /\ f \in [1 .. n -> Seq(S)]
    BY <1>1 DEF Flattens
  <2> DEFINE a == f[m]
             b == ss[m + 1]
             c == f[m + 1]
  <2>1. c = a \o b
    BY <2>0, Zenon
  <2>2. m + 1 \in 1 .. n /\ m \in 1 .. n
    BY <1>3
  <2>3. a \in Seq(S) /\ b \in Seq(S)
    <3>1. \A j \in 1 .. n : ss[j] \in Seq(S)
      OBVIOUS
    <3> QED
      BY <2>0, <2>2, <3>1
  <2>4. \A l \in 1 .. Len(a) : In(m, a[l])
    BY <1>5
  <2> SUFFICES ASSUME NEW l \in 1 .. Len(c) PROVE In(m + 1, c[l])
    BY <2>2
  <2> HIDE DEF a, b, c, In
  <2>5. /\ Len(c) = Len(a) + Len(b) /\ Len(a) \in Nat /\ Len(b) \in Nat
        /\ \A i \in 1 .. Len(a) + Len(b) : c[i] = IF i <= Len(a) THEN a[i] ELSE b[i - Len(a)]
    BY <2>1, <2>3, ConcatProperties
  <2>6. CASE l <= Len(a)
    <3>1. c[l] = a[l] /\ In(m, a[l])
      BY <2>4, <2>5, <2>6
    <3>2. 1 .. m \subseteq 1 .. m + 1
      BY <2>2, <1>3
    <3> QED
      BY <3>1, <3>2 DEF In
  <2>7. CASE ~(l <= Len(a))
    <3>1. l - Len(a) \in 1 .. Len(b) /\ c[l] = b[l - Len(a)]
      BY <2>5, <2>7
    <3>2. m + 1 \in 1 .. m + 1
      BY <2>2, <1>3
    <3> QED
      BY <3>1, <3>2 DEF In, b
  <2> QED
    BY <2>6, <2>7
<1>6. 1 .. n \subseteq K
  <2> HIDE DEF K, n
  <2> QED
    BY <1>3, <1>4, <1>5, IndexInduction
<1>7. n \in K
  <2> HIDE DEF K
  <2> QED
    BY <1>3, <1>6
<1> QED
  BY <1>1, <1>2, <1>7

--------------------------------------------------------------------------------
(* What F makes of the elements of q, one after the other: a filter when F    *)
(* yields one element or none.                                               *)
Maps(F, E, T) == F \in [E -> Seq(T)]
Yields(F, q) == [i \in DOMAIN q |-> F[q[i]]]
Extract(F, q) == FlattenSeq(Yields(F, q))

LEMMA ExtractShape ==
    ASSUME NEW E, NEW T, NEW F, Maps(F, E, T), NEW q \in Seq(E)
    PROVE  /\ Yields(F, q) \in Seq(Seq(T))
           /\ Len(Yields(F, q)) = Len(q)
           /\ \A i \in 1 .. Len(q) : Yields(F, q)[i] = F[q[i]]
           /\ Len(q) \in Nat
<1>1. \A i \in 1 .. Len(q) : F[q[i]] \in Seq(T)
  BY DEF Maps
<1>2. /\ Yields(F, q) \in [1 .. Len(q) -> Seq(T)] /\ Len(q) \in Nat
      /\ \A i \in 1 .. Len(q) : Yields(F, q)[i] = F[q[i]]
  BY <1>1 DEF Yields
<1>3. \A S : \A n \in Nat : \A f \in [1 .. n -> S] : f \in Seq(S) /\ Len(f) = n
  OBVIOUS
<1> QED
  BY <1>2, <1>3

LEMMA ExtractType ==
    ASSUME NEW E, NEW T, NEW F, Maps(F, E, T), NEW q \in Seq(E)
    PROVE  Extract(F, q) \in Seq(T)
  BY ExtractShape, FlattenType DEF Extract

LEMMA ExtractEmpty == \A F : Extract(F, <<>>) = <<>>
<1> TAKE F
<1>1. Yields(F, <<>>) = <<>>
  BY DEF Yields
<1> QED
  BY <1>1, FlattenEmpty DEF Extract

LEMMA ExtractOne ==
    ASSUME NEW E, NEW T, NEW F, Maps(F, E, T), NEW e \in E
    PROVE  Extract(F, <<e>>) = F[e]
<1>1. Yields(F, <<e>>) = <<F[e]>> /\ F[e] \in Seq(T)
  BY DEF Yields, Maps
<1> QED
  BY <1>1, FlattenOne DEF Extract

LEMMA ExtractConcat ==
    ASSUME NEW E, NEW T, NEW F, Maps(F, E, T), NEW p \in Seq(E), NEW q \in Seq(E)
    PROVE  Extract(F, p \o q) = Extract(F, p) \o Extract(F, q)
<1> DEFINE pq == p \o q
           pp == Yields(F, p)
           qq == Yields(F, q)
           rr == Yields(F, pq)
<1>1. /\ pq \in Seq(E) /\ Len(pq) = Len(p) + Len(q)
      /\ Len(p) \in Nat /\ Len(q) \in Nat
      /\ \A i \in 1 .. Len(p) + Len(q) :
            pq[i] = IF i <= Len(p) THEN p[i] ELSE q[i - Len(p)]
  BY ConcatProperties
<1> HIDE DEF pq
<1>2. /\ pp \in Seq(Seq(T)) /\ Len(pp) = Len(p) /\ Extract(F, p) = FlattenSeq(pp)
      /\ \A i \in 1 .. Len(p) : pp[i] = F[p[i]]
  BY ExtractShape DEF Extract
<1>3. /\ qq \in Seq(Seq(T)) /\ Len(qq) = Len(q) /\ Extract(F, q) = FlattenSeq(qq)
      /\ \A i \in 1 .. Len(q) : qq[i] = F[q[i]]
  BY ExtractShape DEF Extract
<1>0. pq \in Seq(E)
  BY <1>1
<1>4. /\ rr \in Seq(Seq(T)) /\ Len(rr) = Len(pq) /\ Extract(F, pq) = FlattenSeq(rr)
      /\ \A i \in 1 .. Len(pq) : rr[i] = F[pq[i]]
  <2>1. /\ Yields(F, pq) \in Seq(Seq(T)) /\ Len(Yields(F, pq)) = Len(pq)
        /\ \A i \in 1 .. Len(pq) : Yields(F, pq)[i] = F[pq[i]]
    BY <1>0, ExtractShape
  <2> QED
    BY <2>1 DEF Extract
<1> HIDE DEF pp, qq, rr
<1>7. /\ Len(pp) = Len(p) /\ Len(qq) = Len(q)
      /\ Len(p) \in Nat /\ Len(q) \in Nat
  BY <1>1, <1>2, <1>3
<1>8. /\ \A i \in 1 .. Len(p) + Len(q) :
            rr[i] = IF i <= Len(p) THEN F[p[i]] ELSE F[q[i - Len(p)]]
      /\ \A i \in 1 .. Len(p) : pp[i] = F[p[i]]
      /\ \A i \in 1 .. Len(q) : qq[i] = F[q[i]]
  BY <1>1, <1>2, <1>3, <1>4
<1>5. rr = pp \o qq
  <2>1. /\ pp \o qq \in Seq(Seq(T)) /\ Len(pp \o qq) = Len(pp) + Len(qq)
        /\ \A i \in 1 .. Len(pp) + Len(qq) :
              (pp \o qq)[i] = IF i <= Len(pp) THEN pp[i] ELSE qq[i - Len(pp)]
    <3>1. pp \in Seq(Seq(T)) /\ qq \in Seq(Seq(T))
      BY <1>2, <1>3
    <3>2. \A S : \A a, b \in Seq(Seq(S)) :
             /\ a \o b \in Seq(Seq(S)) /\ Len(a \o b) = Len(a) + Len(b)
             /\ \A i \in 1 .. Len(a) + Len(b) :
                   (a \o b)[i] = IF i <= Len(a) THEN a[i] ELSE b[i - Len(a)]
      BY ConcatProperties
    <3> QED
      BY <3>1, <3>2
  <2>a. \A i \in 1 .. Len(p) + Len(q) :
           (pp \o qq)[i] = IF i <= Len(p) THEN pp[i] ELSE qq[i - Len(p)]
    BY <1>7, <2>1
  <2>2. ASSUME NEW i \in 1 .. Len(p) + Len(q) PROVE rr[i] = (pp \o qq)[i]
    <3>1. CASE i <= Len(p)
      <4>1. i \in 1 .. Len(p)
        BY <1>1, <3>1
      <4> QED
        BY <1>7, <1>8, <2>a, <3>1, <4>1
    <3>2. CASE ~(i <= Len(p))
      <4>1. i - Len(p) \in 1 .. Len(q)
        BY <1>1, <3>2
      <4> QED
        BY <1>7, <1>8, <2>a, <3>2, <4>1
    <3> QED
      BY <3>1, <3>2
  <2> QED
    BY <1>1, <1>2, <1>3, <1>4, <2>1, <2>2, SeqEqual
<1>6. FlattenSeq(pp \o qq) = FlattenSeq(pp) \o FlattenSeq(qq)
  BY <1>2, <1>3, FlattenConcat
<1> QED
  BY <1>2, <1>3, <1>4, <1>5, <1>6 DEF pq

LEMMA ExtractAppend ==
    ASSUME NEW E, NEW T, NEW F, Maps(F, E, T), NEW q \in Seq(E), NEW e \in E
    PROVE  Extract(F, Append(q, e)) = Extract(F, q) \o F[e]
<1> DEFINE r == <<e>>
<1>1. Append(q, e) = q \o r /\ r \in Seq(E)
  OBVIOUS
<1>2. Extract(F, r) = F[e]
  BY ExtractOne
<1> HIDE DEF r
<1>3. Extract(F, q \o r) = Extract(F, q) \o Extract(F, r)
  BY <1>1, ExtractConcat
<1> QED
  BY <1>1, <1>2, <1>3

LEMMA ExtractCons ==
    ASSUME NEW E, NEW T, NEW F, Maps(F, E, T), NEW q \in Seq(E), q # <<>>
    PROVE  Extract(F, q) = F[Head(q)] \o Extract(F, Tail(q))
<1> DEFINE h == Head(q)
           r == <<h>>
           t == Tail(q)
<1>1. h \in E /\ t \in Seq(E) /\ r \in Seq(E) /\ q = r \o t
  OBVIOUS
<1>2. Extract(F, r) = F[h]
  <2> HIDE DEF h
  <2> QED
    BY <1>1, ExtractOne
<1> HIDE DEF h, r, t
<1>3. Extract(F, r \o t) = Extract(F, r) \o Extract(F, t)
  BY <1>1, ExtractConcat
<1> QED
  BY <1>1, <1>2, <1>3 DEF h, t

Before(q, i) == SubSeq(q, 1, i - 1)
Behind(q, i) == SubSeq(q, i + 1, Len(q))

LEMMA SplitShape ==
    ASSUME NEW E, NEW q \in Seq(E), NEW i \in 1 .. Len(q)
    PROVE  /\ Before(q, i) \in Seq(E) /\ Len(Before(q, i)) = i - 1
           /\ \A j \in 1 .. i - 1 : Before(q, i)[j] = q[j]
           /\ Behind(q, i) \in Seq(E) /\ Len(Behind(q, i)) = Len(q) - i
           /\ \A j \in 1 .. Len(q) - i : Behind(q, i)[j] = q[i + j]
<1>1. /\ Before(q, i) \in Seq(E) /\ Len(Before(q, i)) = i - 1
      /\ \A j \in 1 .. i - 1 : Before(q, i)[j] = q[j]
  BY DEF Before
<1>2. /\ Behind(q, i) \in Seq(E) /\ Len(Behind(q, i)) = Len(q) - i
      /\ \A j \in 1 .. Len(q) - i : Behind(q, i)[j] = q[i + j]
  BY DEF Behind
<1> QED
  BY <1>1, <1>2

LEMMA ExtractSplit ==
    ASSUME NEW E, NEW T, NEW F, Maps(F, E, T), NEW q \in Seq(E), NEW i \in 1 .. Len(q)
    PROVE  Extract(F, q) = (Extract(F, Before(q, i)) \o F[q[i]]) \o Extract(F, Behind(q, i))
<1> DEFINE before == Before(q, i)
           behind == Behind(q, i)
           upto == Append(before, q[i])
<1>0. Len(q) \in Nat /\ q[i] \in E
  OBVIOUS
<1>1. /\ before \in Seq(E) /\ Len(before) = i - 1
      /\ \A j \in 1 .. i - 1 : before[j] = q[j]
  BY SplitShape
<1>2. /\ behind \in Seq(E) /\ Len(behind) = Len(q) - i
      /\ \A j \in 1 .. Len(q) - i : behind[j] = q[i + j]
  BY SplitShape
<1> HIDE DEF before, behind
<1>3. /\ upto \in Seq(E) /\ Len(upto) = i /\ upto[i] = q[i]
      /\ \A j \in 1 .. i - 1 : upto[j] = q[j]
  BY <1>0, <1>1
<1>4. Extract(F, upto) = Extract(F, before) \o F[q[i]]
  <2> DEFINE e == q[i]
  <2>1. e \in E
    BY <1>0
  <2> HIDE DEF e
  <2>2. Extract(F, Append(before, e)) = Extract(F, before) \o F[e]
    BY <1>1, <2>1, ExtractAppend
  <2> QED
    BY <2>2 DEF e
<1> HIDE DEF upto
<1>5. q = upto \o behind
  <2>1. /\ upto \o behind \in Seq(E) /\ Len(upto \o behind) = Len(q)
        /\ \A j \in 1 .. Len(q) :
              (upto \o behind)[j] = IF j <= i THEN upto[j] ELSE behind[j - i]
    <3>1. /\ upto \o behind \in Seq(E) /\ Len(upto \o behind) = Len(upto) + Len(behind)
          /\ \A j \in 1 .. Len(upto) + Len(behind) :
                (upto \o behind)[j] = IF j <= Len(upto) THEN upto[j] ELSE behind[j - Len(upto)]
      BY <1>2, <1>3, ConcatProperties
    <3>2. Len(upto) + Len(behind) = Len(q)
      BY <1>0, <1>2, <1>3
    <3> QED
      BY <1>3, <3>1, <3>2
  <2>2. ASSUME NEW j \in 1 .. Len(q) PROVE (upto \o behind)[j] = q[j]
    <3>1. CASE j <= i
      BY <1>3, <2>1, <3>1
    <3>2. CASE ~(j <= i)
      <4>1. j - i \in 1 .. Len(q) - i /\ i + (j - i) = j
        BY <1>0, <3>2
      <4> QED
        BY <1>2, <2>1, <3>2, <4>1
    <3> QED
      BY <3>1, <3>2
  <2> QED
    BY <2>1, <2>2, SeqEqual
<1>6. Extract(F, upto \o behind) = Extract(F, upto) \o Extract(F, behind)
  BY <1>2, <1>3, ExtractConcat
<1> QED
  BY <1>1, <1>2, <1>4, <1>5, <1>6 DEF before, behind

(* Nothing is extracted exactly when no element yields anything. *)
LEMMA ExtractNothing ==
    ASSUME NEW E, NEW T, NEW F, Maps(F, E, T), NEW q \in Seq(E)
    PROVE  Extract(F, q) = <<>> <=> \A i \in 1 .. Len(q) : F[q[i]] = <<>>
<1>1. ASSUME \A i \in 1 .. Len(q) : F[q[i]] = <<>> PROVE Extract(F, q) = <<>>
  <2> DEFINE qq == Yields(F, q)
  <2>1. qq \in Seq(Seq(T)) /\ \A i \in 1 .. Len(qq) : qq[i] = <<>>
    BY <1>1, ExtractShape
  <2> HIDE DEF qq
  <2>2. FlattenSeq(qq) = <<>>
    BY <2>1, FlattenNothing
  <2> QED
    BY <2>2 DEF Extract, qq
<1>2. ASSUME Extract(F, q) = <<>>, NEW i \in 1 .. Len(q) PROVE F[q[i]] = <<>>
  <2>s. Before(q, i) \in Seq(E) /\ Behind(q, i) \in Seq(E)
    BY SplitShape
  <2>t. Extract(F, q) = (Extract(F, Before(q, i)) \o F[q[i]]) \o Extract(F, Behind(q, i))
    BY ExtractSplit
  <2> DEFINE before == Before(q, i)
             behind == Behind(q, i)
             a == Extract(F, before)
             b == F[q[i]]
             c == Extract(F, behind)
  <2>0. before \in Seq(E) /\ behind \in Seq(E) /\ Extract(F, q) = (a \o b) \o c
    BY <2>s, <2>t
  <2>1. before \in Seq(E) /\ behind \in Seq(E) /\ <<>> = (a \o b) \o c
    BY <1>2, <2>0
  <2> HIDE DEF before, behind
  <2>2. a \in Seq(T) /\ b \in Seq(T) /\ c \in Seq(T)
    <3>1. b \in Seq(T)
      BY DEF Maps
    <3> QED
      BY <2>1, <3>1, ExtractType
  <2> HIDE DEF a, b, c
  <2>3. a \o b \in Seq(T) /\ Len(a \o b) = Len(a) + Len(b)
    BY <2>2
  <2>4. Len((a \o b) \o c) = Len(a) + Len(b) + Len(c)
    BY <2>2, <2>3
  <2>5. Len(b) = 0
    <3>0. Len(<<>>) = 0
      OBVIOUS
    <3>1. Len((a \o b) \o c) = 0
      BY <2>1, <3>0
    <3>2. Len(a) \in Nat /\ Len(b) \in Nat /\ Len(c) \in Nat
      BY <2>2
    <3> QED
      BY <2>4, <3>1, <3>2
  <2> QED
    BY <2>2, <2>5 DEF b
<1> QED
  BY <1>1, <1>2

(* What is extracted is extracted from some element. *)
LEMMA ExtractFrom ==
    ASSUME NEW E, NEW T, NEW F, Maps(F, E, T), NEW q \in Seq(E),
           NEW k \in 1 .. Len(Extract(F, q))
    PROVE  \E i \in 1 .. Len(q) : \E j \in 1 .. Len(F[q[i]]) : Extract(F, q)[k] = F[q[i]][j]
<1> DEFINE qq == Yields(F, q)
<1>1. qq \in Seq(Seq(T)) /\ Len(qq) = Len(q) /\ \A i \in 1 .. Len(q) : qq[i] = F[q[i]]
  BY ExtractShape
<1>2. Extract(F, q) = FlattenSeq(qq)
  BY DEF Extract
<1> HIDE DEF qq
<1>4. k \in 1 .. Len(FlattenSeq(qq))
  BY <1>2
<1>3. \E i \in 1 .. Len(qq) : \E j \in 1 .. Len(qq[i]) : FlattenSeq(qq)[k] = qq[i][j]
  BY <1>1, <1>4, FlattenFrom
<1> QED
  BY <1>1, <1>2, <1>3

=============================================================================
