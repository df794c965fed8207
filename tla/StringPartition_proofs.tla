----------------------- MODULE StringPartition_proofs -----------------------
(***************************************************************************)
(* Proofs about StringPartition, for any phrase.  The recursive functions  *)
(* are defined by their equation, which is shown to have a solution; what  *)
(* they compute then follows by induction, from the least number that      *)
(* would not have the property.                                            *)
(***************************************************************************)
EXTENDS StringPartition, SequenceTheorems, FiniteSetTheorems, WellFoundedInduction, TLAPS

\* a set of numbers that is not empty has a least one
LEMMA LeastNumber ==
  ASSUME NEW T \in SUBSET Nat, T # {}
  PROVE  \E n \in T : \A m \in T : n <= m
<1> DEFINE R == OpToRel(<, Nat)
<1>1. IsWellFoundedOn(R, Nat)
  BY NatLessThanWellFounded
<1>2. \A m, n \in Nat : <<m, n>> \in R <=> m < n
  BY DEF OpToRel
<1> HIDE DEF R
<1>3. PICK n \in T : \A m \in T : ~ (<<m, n>> \in R)
  BY <1>1, WFMin
<1>4. \A m \in T : ~ (m < n)
  BY <1>2, <1>3
<1> QED BY <1>4

\* induction, on the set of the numbers that have the property
LEMMA Induction ==
  ASSUME NEW T, 0 \in T, \A n \in T \cap Nat : n + 1 \in T
  PROVE  Nat \subseteq T
<1> SUFFICES ASSUME Nat \ T # {} PROVE FALSE
  OBVIOUS
<1>1. PICK n \in Nat \ T : \A m \in Nat \ T : n <= m
  BY LeastNumber
<1>2. n # 0
  OBVIOUS
<1>3. n - 1 \in Nat /\ n - 1 < n
  BY <1>2
<1>4. n - 1 \in T
  BY <1>1, <1>3
<1> QED BY <1>1, <1>3, <1>4

LEMMA BoundedInduction ==
  ASSUME NEW l \in Nat, NEW T, 0 \in T, \A n \in Nat : n < l /\ n \in T => n + 1 \in T
  PROVE  0..l \subseteq T
<1> DEFINE U == {n \in Nat : n <= l => n \in T}
<1>1. 0 \in U
  OBVIOUS
<1>2. ASSUME NEW n \in U PROVE n + 1 \in U
  OBVIOUS
<1> HIDE DEF U
<1>3. Nat \subseteq U
  BY <1>1, <1>2, Induction
<1> QED BY <1>3 DEF U

-----------------------------------------------------------------------------
(***************************************************************************)
(* FlattenSeq() concatenates the sequences one by one.                     *)
(***************************************************************************)
Concats(S, seqs, f) ==
    /\ f \in [0..Len(seqs) -> Seq(S)] /\ f[0] = <<>>
    /\ \A i \in 1..Len(seqs) : f[i] = f[i - 1] \o seqs[i]

LEMMA ConcatsExist ==
  ASSUME NEW S, NEW seqs \in Seq(Seq(S))
  PROVE  \E f : Concats(S, seqs, f)
<1> DEFINE Upto(n, f) == /\ f \in [0..n -> Seq(S)] /\ f[0] = <<>>
                         /\ \A i \in 1..n : f[i] = f[i - 1] \o seqs[i]
           T == {n \in Nat : \E f : Upto(n, f)}
<1>1. Len(seqs) \in Nat /\ \A i \in 1..Len(seqs) : seqs[i] \in Seq(S)
  OBVIOUS
<1>2. 0 \in T
  <2> DEFINE f == [i \in 0..0 |-> <<>>]
  <2>1. f \in [0..0 -> Seq(S)] /\ f[0] = <<>> /\ 1..0 = {}
    OBVIOUS
  <2>2. Upto(0, f)
    BY <2>1
  <2> QED BY <2>2
<1>3. ASSUME NEW n \in Nat, n < Len(seqs), n \in T PROVE n + 1 \in T
  <2>1. PICK f : Upto(n, f)
    BY <1>3
  <2> DEFINE g == [i \in 0..(n + 1) |-> IF i = n + 1 THEN f[n] \o seqs[n + 1] ELSE f[i]]
  <2>2. n + 1 \in 1..Len(seqs)
    BY <1>1, <1>3
  <2>3. f[n] \o seqs[n + 1] \in Seq(S)
    BY <1>1, <2>1, <2>2
  <2>4. g \in [0..(n + 1) -> Seq(S)]
    <3>1. \A i \in 0..(n + 1) : i # n + 1 => i \in 0..n
      OBVIOUS
    <3> QED BY <2>1, <2>3, <3>1
  <2>5. g[n + 1] = f[n] \o seqs[n + 1] /\ \A i \in 0..n : g[i] = f[i]
    <3>1. n + 1 \in 0..(n + 1) /\ \A i \in 0..n : i \in 0..(n + 1) /\ i # n + 1
      OBVIOUS
    <3> QED BY <3>1
  <2>6. ASSUME NEW i \in 1..(n + 1) PROVE g[i] = g[i - 1] \o seqs[i]
    <3>1. CASE i = n + 1
      <4>1. i - 1 = n /\ n \in 0..n
        BY <3>1
      <4> QED BY <2>5, <3>1, <4>1
    <3>2. CASE i # n + 1
      <4>1. i \in 1..n /\ i \in 0..n /\ i - 1 \in 0..n
        BY <3>2
      <4> QED BY <2>1, <2>5, <4>1
    <3> QED BY <3>1, <3>2
  <2> HIDE DEF g
  <2>7. g[0] = <<>>
    BY <2>1, <2>5
  <2>8. Upto(n + 1, g)
    BY <2>4, <2>6, <2>7
  <2>9. n + 1 \in Nat
    OBVIOUS
  <2> HIDE DEF Upto
  <2> QED BY <2>8, <2>9
<1> HIDE DEF T
<1>4. 0..Len(seqs) \subseteq T
  BY <1>1, <1>2, <1>3, BoundedInduction
<1>5. Len(seqs) \in T
  BY <1>1, <1>4
<1> QED BY <1>5 DEF T, Concats

LEMMA Flattened ==
  ASSUME NEW S, NEW seqs \in Seq(Seq(S)), NEW f, Concats(S, seqs, f)
  PROVE  FlattenSeq(seqs) = f[Len(seqs)]
<1> DEFINE L == Len(seqs)
           Solves(g) == g = [i \in 1..L |-> IF i = 1 THEN seqs[i] ELSE g[i - 1] \o seqs[i]]
           flatten == CHOOSE g : Solves(g)
<1>1. L \in Nat
  OBVIOUS
<1>2. CASE L = 0
  <2>1. FlattenSeq(seqs) = seqs /\ seqs = <<>>
    BY <1>2 DEF FlattenSeq
  <2> QED BY <1>2, <2>1 DEF Concats
<1>3. CASE L # 0
  <2>1. FlattenSeq(seqs) = flatten[L]
    BY <1>3 DEF FlattenSeq
  <2> DEFINE h == [i \in 1..L |-> f[i]]
  <2>2. /\ f \in [0..L -> Seq(S)] /\ f[0] = <<>>
        /\ \A i \in 1..L : f[i] = f[i - 1] \o seqs[i]
    BY DEF Concats
  <2>3. 1 \in 1..L /\ f[1] = f[0] \o seqs[1] /\ seqs[1] \in Seq(S)
    <3>1. 1 \in 1..L /\ 1 - 1 = 0
      BY <1>1, <1>3
    <3>2. seqs[1] \in Seq(S)
      BY <3>1
    <3> QED BY <2>2, <3>1, <3>2
  <2>a. f[1] = seqs[1]
    BY <2>2, <2>3, ConcatEmptySeq
  <2>b. \A i \in 1..L : h[i] = IF i = 1 THEN seqs[i] ELSE h[i - 1] \o seqs[i]
    <3> TAKE i \in 1..L
    <3>1. CASE i = 1
      BY <2>a, <3>1
    <3>2. CASE i # 1
      <4>1. i - 1 \in 1..L
        BY <1>1, <3>2
      <4>2. h[i] = f[i] /\ h[i - 1] = f[i - 1]
        BY <4>1
      <4> HIDE DEF h
      <4> QED BY <2>2, <3>2, <4>2
    <3> QED BY <3>1, <3>2
  <2>4. Solves(h)
    BY <2>b
  <2>5. Solves(flatten)
    BY <2>4
  <2> HIDE DEF flatten, h
  <2>6. \A i \in 1..L : flatten[i] = IF i = 1 THEN seqs[i] ELSE flatten[i - 1] \o seqs[i]
    <3> HIDE DEF L
    <3> QED BY <2>5
  <2> HIDE DEF Solves
  <2> DEFINE T == {n \in Nat : n = 0 \/ (n <= L /\ flatten[n] = f[n])}
  <2>7. ASSUME NEW n \in Nat, n < L, n \in T PROVE n + 1 \in T
    <3> DEFINE m == n + 1
    <3>1. m \in 1..L /\ m - 1 = n /\ m <= L /\ m \in Nat
      BY <1>1, <2>7
    <3>2. CASE n = 0
      <4>1. m = 1
        BY <3>2
      <4> HIDE DEF m
      <4>2. flatten[1] = f[1]
        BY <2>3, <2>a, <2>6
      <4> QED BY <3>1, <4>1, <4>2 DEF m
    <3>3. CASE n # 0
      <4>1. flatten[n] = f[n] /\ m # 1
        BY <2>7, <3>3
      <4> HIDE DEF m, L, T
      <4>2. flatten[m] = flatten[n] \o seqs[m] /\ f[m] = f[n] \o seqs[m]
        BY <2>2, <2>6, <3>1, <4>1
      <4> USE DEF T
      <4>3. m \in T
        BY <3>1, <4>1, <4>2
      <4> QED BY <4>3 DEF m
    <3> QED BY <3>2, <3>3
  <2>8. 0 \in T
    OBVIOUS
  <2> HIDE DEF T
  <2>b1. 0..L \subseteq T
    <3> HIDE DEF L
    <3> QED BY <1>1, <2>7, <2>8, BoundedInduction
  <2>9. L \in T
    <3> HIDE DEF L
    <3> QED BY <1>1, <2>b1
  <2> QED BY <1>3, <2>1, <2>9 DEF T
<1> QED BY <1>1, <1>2, <1>3

LEMMA ToSetConcat ==
  ASSUME NEW S, NEW s \in Seq(S), NEW t \in Seq(S)
  PROVE  s \o t \in Seq(S) /\ ToSet(s \o t) = ToSet(s) \cup ToSet(t)
<1> DEFINE u == s \o t
<1>1. /\ u \in Seq(S) /\ Len(u) = Len(s) + Len(t)
      /\ \A i \in 1..(Len(s) + Len(t)) : u[i] = IF i <= Len(s) THEN s[i] ELSE t[i - Len(s)]
  BY ConcatProperties
<1>2. DOMAIN u = 1..(Len(s) + Len(t)) /\ DOMAIN s = 1..Len(s) /\ DOMAIN t = 1..Len(t)
  BY <1>1, LenProperties
<1>3. Len(s) \in Nat /\ Len(t) \in Nat
  BY LenProperties
<1> HIDE DEF u
<1>4. ASSUME NEW x \in ToSet(u) PROVE x \in ToSet(s) \cup ToSet(t)
  <2>1. PICK i \in 1..(Len(s) + Len(t)) : x = u[i]
    BY <1>2 DEF ToSet
  <2>2. CASE i <= Len(s)
    <3>1. i \in 1..Len(s)
      BY <1>3, <2>2
    <3> QED BY <1>1, <1>2, <2>1, <2>2, <3>1 DEF ToSet
  <2>3. CASE ~ (i <= Len(s))
    <3>1. i - Len(s) \in 1..Len(t)
      BY <1>3, <2>3
    <3> QED BY <1>1, <1>2, <2>1, <2>3, <3>1 DEF ToSet
  <2> QED BY <2>2, <2>3
<1>5. ASSUME NEW i \in 1..Len(s) PROVE s[i] \in ToSet(u)
  <2>1. i \in 1..(Len(s) + Len(t)) /\ i <= Len(s)
    BY <1>3
  <2> QED BY <1>1, <1>2, <2>1 DEF ToSet
<1>6. ASSUME NEW i \in 1..Len(t) PROVE t[i] \in ToSet(u)
  <2> DEFINE j == Len(s) + i
  <2>1. j \in 1..(Len(s) + Len(t)) /\ ~ (j <= Len(s)) /\ j - Len(s) = i
    BY <1>3
  <2> HIDE DEF j
  <2> QED BY <1>1, <1>2, <2>1 DEF ToSet
<1>7. ToSet(s) \cup ToSet(t) \subseteq ToSet(u)
  BY <1>2, <1>5, <1>6 DEF ToSet
<1> QED BY <1>1, <1>4, <1>7 DEF u

LEMMA ToSetEmpty == ToSet(<<>>) = {}
  BY DEF ToSet

LEMMA ElementsTyped ==
  ASSUME NEW S, NEW s \in Seq(S), NEW x \in ToSet(s)
  PROVE  x \in S
  BY LenProperties, ElementOfSeq DEF ToSet

LEMMA ToSetAppend ==
  ASSUME NEW S, NEW s \in Seq(S), NEW x \in S
  PROVE  Append(s, x) \in Seq(S) /\ ToSet(Append(s, x)) = ToSet(s) \cup {x}
<1> DEFINE X == <<x>>
<1>1. X \in Seq(S) /\ ToSet(X) = {x}
  BY DEF ToSet
<1>2. Append(s, x) = s \o X
  BY AppendIsConcat
<1> HIDE DEF X
<1> QED BY <1>1, <1>2, ToSetConcat

\* induction on sequences, from one to the same with one more element
LEMMA SeqInduction ==
  ASSUME NEW S, NEW T, <<>> \in T,
         \A s \in Seq(S), x \in S : s \in T => Append(s, x) \in T
  PROVE  Seq(S) \subseteq T
<1> DEFINE U == {n \in Nat : \A s \in Seq(S) : Len(s) = n => s \in T}
<1>1. 0 \in U
  <2> SUFFICES ASSUME NEW s \in Seq(S), Len(s) = 0 PROVE s \in T
    OBVIOUS
  <2>1. s = <<>>
    BY EmptySeq
  <2> QED BY <2>1
<1>2. ASSUME NEW n \in U PROVE n + 1 \in U
  <2> SUFFICES ASSUME NEW s \in Seq(S), Len(s) = n + 1 PROVE s \in T
    OBVIOUS
  <2>1. s # <<>>
    OBVIOUS
  <2>2. PICK t \in Seq(S), x \in S : s = Append(t, x)
    BY <2>1, SequenceEmptyOrAppend
  <2>3. Len(t) = n
    BY <2>2
  <2> QED BY <2>2, <2>3
<1> HIDE DEF U
<1>3. Nat \subseteq U
  BY <1>1, <1>2, Induction
<1> QED BY <1>3 DEF U

LEMMA FlattenEmpty == FlattenSeq(<<>>) = <<>>
  BY DEF FlattenSeq

LEMMA FlattenAppend ==
  ASSUME NEW S, NEW seqs \in Seq(Seq(S)), NEW x \in Seq(S)
  PROVE  /\ FlattenSeq(seqs) \in Seq(S)
         /\ FlattenSeq(Append(seqs, x)) = FlattenSeq(seqs) \o x
<1> DEFINE L == Len(seqs)
           more == Append(seqs, x)
<1>1. /\ more \in Seq(Seq(S)) /\ Len(more) = L + 1 /\ L \in Nat
      /\ \A i \in 1..L : more[i] = seqs[i]
      /\ more[L + 1] = x
  BY AppendProperties
<1> HIDE DEF more
<1>2. PICK f : Concats(S, more, f)
  BY <1>1, ConcatsExist
<1> DEFINE M == L + 1
           g == [i \in 0..L |-> f[i]]
<1>3. /\ f \in [0..M -> Seq(S)] /\ f[0] = <<>>
      /\ \A i \in 1..M : f[i] = f[i - 1] \o more[i]
  BY <1>1, <1>2 DEF Concats
<1>4. M \in 1..M /\ M - 1 = L /\ L \in 0..L /\ 0 \in 0..L /\ 0..L \subseteq 0..M /\ 1..L \subseteq 1..M
      /\ \A i \in 1..L : i - 1 \in 0..L
  BY <1>1
<1>a. more[M] = x
  BY <1>1
<1> HIDE DEF M, L
<1>5. f[M] = f[L] \o x /\ f[L] \in Seq(S)
  BY <1>3, <1>4, <1>a
<1>6. g \in [0..L -> Seq(S)] /\ g[0] = <<>> /\ g[L] = f[L]
  BY <1>3, <1>4
<1>7. \A i \in 1..L : g[i] = g[i - 1] \o seqs[i]
  <2> TAKE i \in 1..L
  <2>1. g[i] = f[i] /\ g[i - 1] = f[i - 1]
    BY <1>4
  <2> HIDE DEF g
  <2> QED BY <1>1, <1>3, <1>4, <2>1
<1> HIDE DEF g
<1>8. Concats(S, seqs, g)
  BY <1>6, <1>7 DEF Concats, L
<1>9. FlattenSeq(seqs) = g[L]
  BY <1>8, Flattened DEF L
<1>b. Len(more) = M
  BY <1>1 DEF M
<1>10. FlattenSeq(more) = f[M]
  BY <1>1, <1>2, <1>b, Flattened
<1> QED BY <1>5, <1>6, <1>9, <1>10 DEF more

\* for one sequence, and for one more in front
LEMMA FlattenOne ==
  ASSUME NEW S, NEW x \in Seq(S)
  PROVE  FlattenSeq(<<x>>) = x /\ x \o FlattenSeq(<<>>) = x
<1>1. <<>> \in Seq(Seq(S)) /\ <<x>> = Append(<<>>, x)
  OBVIOUS
<1>2. FlattenSeq(<<x>>) = <<>> \o x
  BY <1>1, FlattenAppend, FlattenEmpty
<1> QED BY <1>2, FlattenEmpty, ConcatEmptySeq

Joins(s, t, u) == (s \o t) \o u = s \o (t \o u)

LEMMA JoinsAny ==
  ASSUME NEW S, NEW s \in Seq(S), NEW t \in Seq(S), NEW u \in Seq(S)
  PROVE  Joins(s, t, u)
BY ConcatAssociative DEF Joins

LEMMA FlattenAhead ==
  ASSUME NEW S, NEW seqs \in Seq(Seq(S)), NEW x \in Seq(S)
  PROVE  /\ FlattenSeq(<<x>> \o seqs) = x \o FlattenSeq(seqs)
         /\ FlattenSeq(seqs) \in Seq(S)
<1> DEFINE T == {s \in Seq(Seq(S)) : FlattenSeq(<<x>> \o s) = x \o FlattenSeq(s)}
           X == <<x>>
<1>0. X \in Seq(Seq(S))
  OBVIOUS
<1>1. <<>> \in T
  <2>1. <<>> \in Seq(Seq(S)) /\ X \o <<>> = X
    BY <1>0, ConcatEmptySeq
  <2> QED BY <2>1, FlattenOne
<1>2. ASSUME NEW s \in Seq(Seq(S)), NEW y \in Seq(S), s \in T PROVE Append(s, y) \in T
  <2>1. FlattenSeq(X \o s) = x \o FlattenSeq(s)
    BY <1>2
  <2>2. X \o Append(s, y) = Append(X \o s, y) /\ X \o s \in Seq(Seq(S))
    <3> DEFINE Y == <<y>>
    <3>1. Y \in Seq(Seq(S))
      OBVIOUS
    <3>2. Append(s, y) = s \o Y
      BY AppendIsConcat
    <3>3. X \o s \in Seq(Seq(S))
      BY <1>0, ConcatProperties
    <3>4. Append(X \o s, y) = (X \o s) \o Y
      BY <3>3, AppendIsConcat
    <3> DEFINE Q == Seq(S)
    <3>5. X \in Seq(Q) /\ Y \in Seq(Q) /\ s \in Seq(Q)
      BY <1>0, <3>1
    <3> HIDE DEF X, Y, Q
    <3>6. Joins(X, s, Y)
      BY <3>5, JoinsAny
    <3> QED BY <3>2, <3>3, <3>4, <3>6 DEF Joins
  <2> HIDE DEF X
  <2>3. FlattenSeq(X \o Append(s, y)) = FlattenSeq(X \o s) \o y
    BY <2>2, FlattenAppend
  <2>4. FlattenSeq(Append(s, y)) = FlattenSeq(s) \o y /\ FlattenSeq(s) \in Seq(S)
    BY FlattenAppend
  <2>5. (x \o FlattenSeq(s)) \o y = x \o (FlattenSeq(s) \o y)
    BY <2>4, JoinsAny DEF Joins
  <2>6. Append(s, y) \in Seq(Seq(S))
    BY AppendProperties
  <2> USE DEF X
  <2> QED BY <2>1, <2>3, <2>4, <2>5, <2>6
<1> HIDE DEF T
<1>3. Seq(Seq(S)) \subseteq T
  BY <1>1, <1>2, SeqInduction
<1> QED BY <1>3, FlattenAppend DEF T

\* the elements of the whole are those of its parts
LEMMA FlattenElements ==
  ASSUME NEW S, NEW seqs \in Seq(Seq(S))
  PROVE  /\ FlattenSeq(seqs) \in Seq(S)
         /\ ToSet(FlattenSeq(seqs)) = UNION {ToSet(x) : x \in ToSet(seqs)}
<1> DEFINE T == {s \in Seq(Seq(S)) : /\ FlattenSeq(s) \in Seq(S)
                                     /\ ToSet(FlattenSeq(s)) = UNION {ToSet(x) : x \in ToSet(s)}}
<1>1. <<>> \in T
  <2>1. <<>> \in Seq(S) /\ <<>> \in Seq(Seq(S))
    OBVIOUS
  <2>2. UNION {ToSet(x) : x \in ToSet(<<>>)} = {}
    BY ToSetEmpty
  <2> QED BY <2>1, <2>2, FlattenEmpty, ToSetEmpty
<1>2. ASSUME NEW s \in Seq(Seq(S)), NEW y \in Seq(S), s \in T PROVE Append(s, y) \in T
  <2>1. FlattenSeq(Append(s, y)) = FlattenSeq(s) \o y /\ FlattenSeq(s) \in Seq(S)
    BY FlattenAppend
  <2>2. Append(s, y) \in Seq(Seq(S))
    BY AppendProperties
  <2>3. ToSet(Append(s, y)) = ToSet(s) \cup {y}
    BY ToSetAppend
  <2>4. ToSet(FlattenSeq(s) \o y) = ToSet(FlattenSeq(s)) \cup ToSet(y)
    BY <2>1, ToSetConcat
  <2>5. FlattenSeq(s) \o y \in Seq(S)
    BY <2>1, ConcatProperties
  <2>6. ToSet(FlattenSeq(s)) = UNION {ToSet(x) : x \in ToSet(s)}
    BY <1>2
  <2>7. ToSet(FlattenSeq(Append(s, y))) = UNION {ToSet(x) : x \in ToSet(Append(s, y))}
    BY <2>1, <2>3, <2>4, <2>6
  <2> QED BY <2>1, <2>2, <2>5, <2>7
<1> HIDE DEF T
<1>3. Seq(Seq(S)) \subseteq T
  BY <1>1, <1>2, SeqInduction
<1> QED BY <1>3 DEF T

-----------------------------------------------------------------------------
(***************************************************************************)
(* Partition() is the first value of a function on the numbers of words    *)
(* left out, each value of which is made of later ones.                    *)
(***************************************************************************)
Cutable(phrase, i) == IF Len(phrase) > i THEN Len(phrase) - i - 1 ELSE 0

Blocks(phrase, part, i) ==
    [k \in 1..Cutable(phrase, i) |->
        WithLeftHand(SubSeq(phrase, i + 1, i + k), part[i + k])]

Body(phrase, part, i) == FlattenSeq(Blocks(phrase, part, i)) \o <<<<OtherWords(phrase, i)>>>>

Parts(phrase, part) == \A i \in 0..Len(phrase) : part[i] = Body(phrase, part, i)

LEMMA SameBody ==
  ASSUME NEW phrase, Len(phrase) \in Nat, NEW g, NEW h, NEW i \in Nat,
         \A j \in (i + 1)..Len(phrase) : g[j] = h[j]
  PROVE  Body(phrase, g, i) = Body(phrase, h, i)
<1>1. \A k \in 1..Cutable(phrase, i) : i + k \in (i + 1)..Len(phrase)
  BY DEF Cutable
<1>2. \A k \in 1..Cutable(phrase, i) : g[i + k] = h[i + k]
  BY <1>1
<1>3. Blocks(phrase, g, i) = Blocks(phrase, h, i)
  BY <1>2 DEF Blocks
<1> QED BY <1>3 DEF Body

LEMMA PartsExist ==
  ASSUME NEW phrase, Len(phrase) \in Nat
  PROVE  \E part : part = [i \in 0..Len(phrase) |-> Body(phrase, part, i)]
<1> DEFINE l == Len(phrase)
           From(n, g) == \A i \in (l - n)..l : g[i] = Body(phrase, g, i)
           T == {n \in 0..l : \E g : From(n, g)}
<1>0. l \in Nat
  OBVIOUS
<1> HIDE DEF l
<1>1. 0 \in T
  <2> DEFINE g == [i \in {l} |-> Body(phrase, <<>>, l)]
  <2>1. Body(phrase, g, l) = Body(phrase, <<>>, l)
    <3>1. \A j \in (l + 1)..l : g[j] = <<>>[j]
      BY <1>0
    <3> HIDE DEF g
    <3> QED BY <1>0, <3>1, SameBody DEF l
  <2>2. \A i \in (l - 0)..l : i = l
    BY <1>0
  <2>3. g[l] = Body(phrase, <<>>, l)
    OBVIOUS
  <2> HIDE DEF g
  <2>4. From(0, g)
    BY <2>1, <2>2, <2>3
  <2>5. 0 \in 0..l
    BY <1>0
  <2> QED BY <2>4, <2>5
<1>2. ASSUME NEW n \in Nat, n < l, n \in T PROVE n + 1 \in T
  <2>1. PICK g : From(n, g)
    BY <1>2
  <2> DEFINE m == l - (n + 1)
             h == [i \in m..l |-> IF i = m THEN Body(phrase, g, m) ELSE g[i]]
  <2>2. m \in Nat /\ m \in m..l /\ \A i \in m..l : i # m => i \in (l - n)..l
    BY <1>0, <1>2
  <2>a. \A i \in m..l : i \in Nat /\ (i + 1)..l \subseteq (m + 1)..l
    BY <1>0, <2>2
  <2>b. \A j \in (m + 1)..l : j \in m..l /\ j # m
    BY <1>0, <2>2
  <2> HIDE DEF m
  <2>3. h[m] = Body(phrase, g, m) /\ \A j \in (m + 1)..l : h[j] = g[j]
    BY <2>2, <2>b
  <2>4. \A i \in m..l : i # m => h[i] = g[i]
    OBVIOUS
  <2> HIDE DEF h
  <2>5. \A i \in m..l : Body(phrase, h, i) = Body(phrase, g, i)
    BY <1>0, <2>3, <2>a, SameBody DEF l
  <2>6. \A i \in m..l : h[i] = Body(phrase, h, i)
    BY <2>1, <2>2, <2>3, <2>4, <2>5
  <2>7. From(n + 1, h)
    BY <2>6 DEF m
  <2>8. n + 1 \in 0..l
    BY <1>0, <1>2
  <2> HIDE DEF From
  <2> QED BY <2>7, <2>8
<1> HIDE DEF T
<1>3. 0..l \subseteq T
  BY <1>0, <1>1, <1>2, BoundedInduction
<1>4. l \in T
  BY <1>0, <1>3
<1>5. PICK g : From(l, g)
  BY <1>4 DEF T
<1> DEFINE part == [i \in 0..l |-> g[i]]
<1>6. \A i \in 0..l : g[i] = Body(phrase, g, i)
  BY <1>0, <1>5
<1>7. \A i \in 0..l : part[i] = g[i]
  OBVIOUS
<1>8. \A i \in 0..l : i \in Nat /\ (i + 1)..l \subseteq 0..l
  BY <1>0
<1>9. part = [i \in 0..l |-> g[i]]
  OBVIOUS
<1> HIDE DEF part
<1>10. \A i \in 0..l : Body(phrase, part, i) = Body(phrase, g, i)
  BY <1>0, <1>7, <1>8, SameBody DEF l
<1>11. part = [i \in 0..l |-> Body(phrase, part, i)]
  BY <1>6, <1>9, <1>10
<1> QED BY <1>11 DEF l

LEMMA PartitionUnfolds ==
  ASSUME NEW phrase, Len(phrase) \in Nat
  PROVE  \E part : Partition(phrase) = part[0] /\ Parts(phrase, part)
<1> DEFINE Is(part) == part = [i \in 0..Len(phrase) |-> Body(phrase, part, i)]
           part == CHOOSE g : Is(g)
<1>1. Partition(phrase) = part[0]
  BY DEF Partition, Body, Blocks, Cutable
<1>2. \E g : Is(g)
  BY PartsExist
<1>3. Is(part)
  <2> HIDE DEF Is
  <2> QED BY <1>2
<1> HIDE DEF part
<1>4. Parts(phrase, part)
  BY <1>3 DEF Parts
<1> QED BY <1>1, <1>4

\* induction from the last number below a bound down to the first
LEMMA Downwards ==
  ASSUME NEW l \in Nat, NEW T,
         \A i \in 0..(l - 1) : (\A j \in (i + 1)..(l - 1) : j \in T) => i \in T
  PROVE  0..(l - 1) \subseteq T
<1> DEFINE U == {n \in 0..l : \A i \in 0..(l - 1) : i >= l - n => i \in T}
<1>1. 0 \in U
  OBVIOUS
<1>2. ASSUME NEW n \in Nat, n < l, n \in U PROVE n + 1 \in U
  <2> SUFFICES ASSUME NEW i \in 0..(l - 1), i >= l - (n + 1) PROVE i \in T
    BY <1>2
  <2>1. CASE i >= l - n
    BY <1>2, <2>1
  <2>2. CASE ~ (i >= l - n)
    <3>1. \A j \in (i + 1)..(l - 1) : j \in 0..(l - 1) /\ j >= l - n
      BY <1>2, <2>2
    <3>2. \A j \in (i + 1)..(l - 1) : j \in T
      BY <1>2, <3>1
    <3> QED BY <3>2
  <2> QED BY <2>1, <2>2
<1> HIDE DEF U
<1>3. 0..l \subseteq U
  BY <1>1, <1>2, BoundedInduction
<1>4. l \in U
  BY <1>3
<1> QED BY <1>4 DEF U

\* the same string in front of each set of a list
LEMMA LeftHand ==
  ASSUME NEW P, NEW left \in P, NEW sets \in Seq(Seq(P))
  PROVE  /\ WithLeftHand(left, sets) \in Seq(Seq(P))
         /\ Len(WithLeftHand(left, sets)) = Len(sets)
         /\ \A i \in 1..Len(sets) : WithLeftHand(left, sets)[i] = <<left>> \o sets[i]
         /\ ToSet(WithLeftHand(left, sets)) = {<<left>> \o s : s \in ToSet(sets)}
<1> DEFINE X == <<left>>
           w == [i \in 1..Len(sets) |-> X \o sets[i]]
<1>1. X \in Seq(P) /\ Len(sets) \in Nat /\ DOMAIN sets = 1..Len(sets)
  BY LenProperties
<1>2. w = WithLeftHand(left, sets)
  BY <1>1 DEF WithLeftHand
<1> HIDE DEF X
<1>3. \A i \in 1..Len(sets) : sets[i] \in Seq(P)
  BY ElementOfSeq
<1>4. \A i \in 1..Len(sets) : X \o sets[i] \in Seq(P)
  BY <1>1, <1>3, ConcatProperties
<1>5. w \in Seq(Seq(P)) /\ Len(w) = Len(sets) /\ DOMAIN w = 1..Len(sets)
  BY <1>1, <1>4
<1>6. \A i \in 1..Len(sets) : w[i] = X \o sets[i]
  OBVIOUS
<1> HIDE DEF w
<1>7. ToSet(w) = {X \o s : s \in ToSet(sets)}
  BY <1>1, <1>5, <1>6 DEF ToSet
<1> QED BY <1>2, <1>5, <1>6, <1>7 DEF X

Phrases(P, phrase) ==
    /\ Len(phrase) \in Nat
    /\ \A i, j \in 0..Len(phrase) : SubSeq(phrase, i + 1, j) \in P

LEMMA BlocksTyped ==
  ASSUME NEW P, NEW phrase, Phrases(P, phrase), NEW part, NEW i \in 0..(Len(phrase) - 1),
         \A j \in (i + 1)..(Len(phrase) - 1) : part[j] \in Seq(Seq(P))
  PROVE  /\ Blocks(phrase, part, i) \in Seq(Seq(Seq(P)))
         /\ Len(Blocks(phrase, part, i)) = Len(phrase) - i - 1
         /\ \A k \in 1..(Len(phrase) - i - 1) :
                Blocks(phrase, part, i)[k]
                  = WithLeftHand(SubSeq(phrase, i + 1, i + k), part[i + k])
<1> DEFINE n == Len(phrase) - i - 1
<1>1. Cutable(phrase, i) = n /\ n \in Nat
  BY DEF Cutable, Phrases
<1>2. \A k \in 1..n : i + k \in (i + 1)..(Len(phrase) - 1) /\ i + k \in 0..Len(phrase) /\ i \in 0..Len(phrase)
  BY DEF Phrases
<1>3. ASSUME NEW k \in 1..n
      PROVE  WithLeftHand(SubSeq(phrase, i + 1, i + k), part[i + k]) \in Seq(Seq(P))
  <2>1. SubSeq(phrase, i + 1, i + k) \in P
    BY <1>2 DEF Phrases
  <2>2. part[i + k] \in Seq(Seq(P))
    BY <1>2
  <2> QED BY <2>1, <2>2, LeftHand
<1> HIDE DEF n
<1>4. Blocks(phrase, part, i)
        = [k \in 1..n |-> WithLeftHand(SubSeq(phrase, i + 1, i + k), part[i + k])]
  BY <1>1 DEF Blocks
<1> DEFINE w(k) == WithLeftHand(SubSeq(phrase, i + 1, i + k), part[i + k])
<1>5. \A k \in 1..n : w(k) \in Seq(Seq(P))
  BY <1>3
<1>6. Blocks(phrase, part, i) = [k \in 1..n |-> w(k)]
  BY <1>4
<1> HIDE DEF w
<1>7. /\ Blocks(phrase, part, i) \in Seq(Seq(Seq(P)))
      /\ Len(Blocks(phrase, part, i)) = n
      /\ \A k \in 1..n : Blocks(phrase, part, i)[k] = w(k)
  BY <1>1, <1>5, <1>6
<1> QED BY <1>7 DEF n, w

Whole(phrase, i) == <<OtherWords(phrase, i)>>
Led(phrase, i, j, s) == <<SubSeq(phrase, i + 1, j)>> \o s

(***************************************************************************)
(* What a partition is made of: the whole, and each first string in front  *)
(* of the sets of the partition of the other words.                        *)
(***************************************************************************)
KnownAt(P, phrase, part, i) ==
    /\ part[i] \in Seq(Seq(P)) /\ Whole(phrase, i) \in Seq(P)
    /\ part[i] = FlattenSeq(Blocks(phrase, part, i)) \o <<Whole(phrase, i)>>
    /\ FlattenSeq(Blocks(phrase, part, i)) \in Seq(Seq(P))
    /\ \A x : x \in ToSet(part[i]) <=>
           \/ x = Whole(phrase, i)
           \/ \E j \in (i + 1)..(Len(phrase) - 1) : \E s \in ToSet(part[j]) :
                 x = Led(phrase, i, j, s)

Known(P, phrase, part) == \A i \in 0..(Len(phrase) - 1) : KnownAt(P, phrase, part, i)

LEMMA PartOf ==
  ASSUME NEW P, NEW phrase, Phrases(P, phrase), NEW part, Parts(phrase, part),
         NEW i \in 0..(Len(phrase) - 1),
         \A j \in (i + 1)..(Len(phrase) - 1) : part[j] \in Seq(Seq(P))
  PROVE  KnownAt(P, phrase, part, i)
<1> DEFINE n == Len(phrase) - i - 1
           blocks == Blocks(phrase, part, i)
           flat == FlattenSeq(blocks)
           whole == Whole(phrase, i)
           last == <<whole>>
<1>1. /\ blocks \in Seq(Seq(Seq(P))) /\ Len(blocks) = n /\ n \in Nat
      /\ \A k \in 1..n : blocks[k] = WithLeftHand(SubSeq(phrase, i + 1, i + k), part[i + k])
  <2>1. n \in Nat
    BY DEF Phrases
  <2> QED BY <2>1, BlocksTyped
<1>2. whole \in Seq(P)
  <2>1. Len(phrase) \in 0..Len(phrase) /\ i \in 0..Len(phrase)
    BY DEF Phrases
  <2>2. OtherWords(phrase, i) \in P
    BY <2>1 DEF Phrases, OtherWords
  <2> QED BY <2>2 DEF Whole
<1>3. part[i] = flat \o last
  <2>1. i \in 0..Len(phrase)
    BY DEF Phrases
  <2> QED BY <2>1 DEF Parts, Body, Whole
<1> HIDE DEF blocks, whole
<1>4. flat \in Seq(Seq(P)) /\ ToSet(flat) = UNION {ToSet(b) : b \in ToSet(blocks)}
  BY <1>1, FlattenElements
<1>5. last \in Seq(Seq(P)) /\ ToSet(last) = {whole}
  BY <1>2 DEF ToSet
<1> HIDE DEF flat, last
<1>6. part[i] \in Seq(Seq(P)) /\ ToSet(part[i]) = ToSet(flat) \cup {whole}
  BY <1>3, <1>4, <1>5, ToSetConcat
<1>7. DOMAIN blocks = 1..n
  BY <1>1, LenProperties
<1> HIDE DEF n
<1>8. ToSet(blocks) = {blocks[k] : k \in 1..n}
  BY <1>7 DEF ToSet
<1>9. \A k \in 1..n : /\ ToSet(blocks[k]) = {Led(phrase, i, i + k, s) : s \in ToSet(part[i + k])}
                      /\ i + k \in (i + 1)..(Len(phrase) - 1)
  <2> TAKE k \in 1..n
  <2>1. i + k \in (i + 1)..(Len(phrase) - 1) /\ i + k \in 0..Len(phrase) /\ i \in 0..Len(phrase)
    BY DEF n, Phrases
  <2>2. SubSeq(phrase, i + 1, i + k) \in P /\ part[i + k] \in Seq(Seq(P))
    BY <2>1 DEF Phrases
  <2>3. ToSet(WithLeftHand(SubSeq(phrase, i + 1, i + k), part[i + k]))
          = {<<SubSeq(phrase, i + 1, i + k)>> \o s : s \in ToSet(part[i + k])}
    BY <2>2, LeftHand
  <2> QED BY <1>1, <2>1, <2>3 DEF Led, n
<1>10. ASSUME NEW x \in ToSet(flat)
       PROVE  \E j \in (i + 1)..(Len(phrase) - 1) : \E s \in ToSet(part[j]) : x = Led(phrase, i, j, s)
  <2>1. PICK k \in 1..n : x \in ToSet(blocks[k])
    BY <1>4, <1>8
  <2>2. x \in {Led(phrase, i, i + k, s) : s \in ToSet(part[i + k])}
    BY <1>9, <2>1
  <2>3. PICK s \in ToSet(part[i + k]) : x = Led(phrase, i, i + k, s)
    BY <2>2
  <2> QED BY <1>9, <2>3
<1>11. ASSUME NEW j \in (i + 1)..(Len(phrase) - 1), NEW s \in ToSet(part[j])
       PROVE  Led(phrase, i, j, s) \in ToSet(flat)
  <2> DEFINE k == j - i
  <2>1. k \in 1..n /\ i + k = j
    BY <1>1 DEF n, Phrases
  <2> HIDE DEF k
  <2>2. Led(phrase, i, j, s) \in ToSet(blocks[k])
    BY <1>9, <2>1
  <2> QED BY <1>4, <1>8, <2>1, <2>2
<1>12. \A x : x \in ToSet(part[i]) <=>
            \/ x = whole
            \/ \E j \in (i + 1)..(Len(phrase) - 1) : \E s \in ToSet(part[j]) :
                  x = Led(phrase, i, j, s)
  BY <1>6, <1>10, <1>11
<1> QED BY <1>2, <1>3, <1>4, <1>6, <1>12 DEF flat, blocks, last, whole, KnownAt

LEMMA PhrasesOf ==
  ASSUME NEW S, NEW phrase \in Seq(S)
  PROVE  Phrases(Seq(S), phrase)
<1>1. Len(phrase) \in Nat /\ \A i \in 1..Len(phrase) : phrase[i] \in S
  OBVIOUS
<1>2. ASSUME NEW i \in 0..Len(phrase), NEW j \in 0..Len(phrase)
      PROVE  SubSeq(phrase, i + 1, j) \in Seq(S)
  <2>1. i + 1 \in Int /\ j \in Int /\ \A k \in (i + 1)..j : phrase[k] \in S
    BY <1>1
  <2> QED BY <2>1, SubSeqProperties
<1> QED BY <1>1, <1>2 DEF Phrases

LEMMA PartsTyped ==
  ASSUME NEW P, NEW phrase, Phrases(P, phrase), NEW part, Parts(phrase, part)
  PROVE  \A i \in 0..(Len(phrase) - 1) : part[i] \in Seq(Seq(P))
<1> DEFINE T == {i \in 0..(Len(phrase) - 1) : part[i] \in Seq(Seq(P))}
<1>0. Len(phrase) \in Nat
  BY DEF Phrases
<1>1. ASSUME NEW i \in 0..(Len(phrase) - 1), \A j \in (i + 1)..(Len(phrase) - 1) : j \in T
      PROVE  i \in T
  BY <1>1, PartOf DEF KnownAt
<1> HIDE DEF T
<1>2. 0..(Len(phrase) - 1) \subseteq T
  BY <1>0, <1>1, Downwards
<1> QED BY <1>2 DEF T

LEMMA PartsKnown ==
  ASSUME NEW S, NEW phrase \in Seq(S)
  PROVE  \E part : Partition(phrase) = part[0] /\ Parts(phrase, part) /\ Known(Seq(S), phrase, part)
<1> DEFINE P == Seq(S)
<1>1. Phrases(P, phrase) /\ Len(phrase) \in Nat
  BY PhrasesOf
<1>2. PICK part : Partition(phrase) = part[0] /\ Parts(phrase, part)
  BY <1>1, PartitionUnfolds
<1> HIDE DEF P
<1>3. \A i \in 0..(Len(phrase) - 1) : part[i] \in Seq(Seq(P))
  BY <1>1, <1>2, PartsTyped
<1>4. ASSUME NEW i \in 0..(Len(phrase) - 1)
      PROVE  \A j \in (i + 1)..(Len(phrase) - 1) : part[j] \in Seq(Seq(P))
  BY <1>1, <1>3
<1>5. Known(P, phrase, part)
  BY <1>1, <1>2, <1>4, PartOf DEF Known
<1> QED BY <1>2, <1>5 DEF P

-----------------------------------------------------------------------------
(***************************************************************************)
(* The combinations of the words of a phrase are all its sub-strings.      *)
(***************************************************************************)
SubString(phrase, i, x) ==
    \E a \in i..(Len(phrase) - 1) : \E b \in (a + 1)..Len(phrase) : x = SubSeq(phrase, a + 1, b)

LEMMA StringsOfLed ==
  ASSUME NEW P, NEW phrase, Phrases(P, phrase), NEW i \in 0..Len(phrase), NEW j \in 0..Len(phrase),
         NEW s \in Seq(P)
  PROVE  /\ Led(phrase, i, j, s) \in Seq(P)
         /\ ToSet(Led(phrase, i, j, s)) = {SubSeq(phrase, i + 1, j)} \cup ToSet(s)
<1> DEFINE left == SubSeq(phrase, i + 1, j)
           X == <<left>>
<1>1. left \in P
  BY DEF Phrases
<1> HIDE DEF left
<1>2. X \in Seq(P) /\ ToSet(X) = {left}
  BY <1>1 DEF ToSet
<1>3. Led(phrase, i, j, s) = X \o s
  BY DEF Led, left
<1> HIDE DEF X
<1>4. Led(phrase, i, j, s) \in Seq(P) /\ ToSet(Led(phrase, i, j, s)) = {left} \cup ToSet(s)
  BY <1>2, <1>3, ToSetConcat
<1> QED BY <1>4 DEF left

LEMMA StringsOfWhole ==
  ASSUME NEW phrase, NEW i
  PROVE  ToSet(Whole(phrase, i)) = {SubSeq(phrase, i + 1, Len(phrase))}
<1> DEFINE whole == SubSeq(phrase, i + 1, Len(phrase))
<1>1. Whole(phrase, i) = <<whole>>
  BY DEF Whole, OtherWords
<1> HIDE DEF whole
<1>2. ToSet(<<whole>>) = {whole}
  BY DEF ToSet
<1> QED BY <1>1, <1>2 DEF whole

LEMMA EveryStringIsSub ==
  ASSUME NEW P, NEW phrase, Phrases(P, phrase), NEW part, Known(P, phrase, part)
  PROVE  \A i \in 0..(Len(phrase) - 1) :
             \A s \in ToSet(part[i]) : \A x \in ToSet(s) : SubString(phrase, i, x)
<1> DEFINE l == Len(phrase)
           Sub(i) == \A s \in ToSet(part[i]) : \A x \in ToSet(s) : SubString(phrase, i, x)
           T == {i \in 0..(l - 1) : Sub(i)}
<1>0. l \in Nat
  BY DEF Phrases
<1>1. ASSUME NEW i \in 0..(l - 1), \A j \in (i + 1)..(l - 1) : j \in T
      PROVE  i \in T
  <2> SUFFICES ASSUME NEW s \in ToSet(part[i]), NEW x \in ToSet(s) PROVE SubString(phrase, i, x)
    OBVIOUS
  <2>1. KnownAt(P, phrase, part, i)
    BY DEF Known
  <2>2. CASE s = Whole(phrase, i)
    <3>1. x = SubSeq(phrase, i + 1, l)
      BY <2>2, StringsOfWhole
    <3>2. i \in i..(l - 1) /\ l \in (i + 1)..l
      BY <1>0
    <3> QED BY <3>1, <3>2 DEF SubString
  <2>3. ASSUME NEW j \in (i + 1)..(l - 1), NEW t \in ToSet(part[j]), s = Led(phrase, i, j, t)
        PROVE  SubString(phrase, i, x)
    <3>1. Sub(j)
      BY <1>1
    <3>a. j \in 0..(l - 1) /\ i \in 0..l /\ j \in 0..l /\ j \in (i + 1)..l /\ j..(l - 1) \subseteq i..(l - 1)
      BY <1>0
    <3>2. t \in Seq(P)
      <4>1. part[j] \in Seq(Seq(P))
        BY <3>a DEF Known, KnownAt
      <4> QED BY <4>1, ElementsTyped
    <3>3. ToSet(s) = {SubSeq(phrase, i + 1, j)} \cup ToSet(t)
      BY <2>3, <3>2, <3>a, StringsOfLed
    <3>4. CASE x = SubSeq(phrase, i + 1, j)
      <4>1. i \in i..(l - 1)
        BY <1>0
      <4> QED BY <3>4, <3>a, <4>1 DEF SubString
    <3>5. CASE x \in ToSet(t)
      <4>1. SubString(phrase, j, x)
        BY <3>1, <3>5
      <4> QED BY <3>a, <4>1 DEF SubString
    <3> QED BY <3>3, <3>4, <3>5
  <2> QED BY <2>1, <2>2, <2>3 DEF KnownAt
<1> HIDE DEF T
<1>2. 0..(l - 1) \subseteq T
  BY <1>0, <1>1, Downwards
<1> QED BY <1>2 DEF T

(***************************************************************************)
(* Combinations(), the strings of StringPartition that are kept once each, *)
(* are the strings of consecutive words of the phrase, all of them.        *)
(***************************************************************************)
THEOREM CombinationsAreSubStrings ==
  ASSUME NEW S, NEW phrase \in Seq(S), phrase # <<>>
  PROVE  \A x : x \in Combinations(phrase) <=> SubString(phrase, 0, x)
<1> DEFINE l == Len(phrase)
           P == Seq(S)
<1>0. l \in Nat /\ l # 0 /\ 0 \in 0..(l - 1)
  BY EmptySeq, LenProperties
<1>1. PICK part : Partition(phrase) = part[0] /\ Parts(phrase, part) /\ Known(P, phrase, part)
  BY PartsKnown
<1>2. Phrases(P, phrase)
  BY PhrasesOf
<1>3. \A x : x \in Combinations(phrase) <=> \E s \in ToSet(part[0]) : x \in ToSet(s)
  BY <1>1 DEF Combinations
<1> HIDE DEF P, l
<1>4. ASSUME NEW x \in Combinations(phrase) PROVE SubString(phrase, 0, x)
  BY <1>0, <1>1, <1>2, <1>3, EveryStringIsSub DEF l
<1>5. ASSUME NEW i \in 0..(l - 1)
      PROVE  Whole(phrase, i) \in ToSet(part[i]) /\ Whole(phrase, i) \in Seq(P)
  BY <1>1, <1>5 DEF Known, KnownAt, l
<1>6. ASSUME NEW i \in 0..(l - 1), NEW j \in (i + 1)..(l - 1), NEW s \in ToSet(part[j]), s \in Seq(P)
      PROVE  /\ Led(phrase, i, j, s) \in ToSet(part[i]) /\ Led(phrase, i, j, s) \in Seq(P)
             /\ ToSet(Led(phrase, i, j, s)) = {SubSeq(phrase, i + 1, j)} \cup ToSet(s)
  <2>1. i \in 0..l /\ j \in 0..l
    BY <1>0
  <2>2. Led(phrase, i, j, s) \in ToSet(part[i])
    BY <1>1, <1>6 DEF Known, KnownAt, l
  <2> QED BY <1>2, <1>6, <2>1, <2>2, StringsOfLed DEF l
<1>7. ASSUME NEW a \in 0..(l - 1), NEW b \in (a + 1)..l
      PROVE  \E s \in ToSet(part[a]) : s \in Seq(P) /\ SubSeq(phrase, a + 1, b) \in ToSet(s)
  <2>1. CASE b = l
    <3>1. SubSeq(phrase, a + 1, b) \in ToSet(Whole(phrase, a))
      BY <2>1, StringsOfWhole DEF l
    <3> QED BY <1>5, <3>1
  <2>2. CASE b # l
    <3>1. b \in (a + 1)..(l - 1) /\ b \in 0..(l - 1)
      BY <1>0, <2>2
    <3> DEFINE w == Whole(phrase, b)
               s == Led(phrase, a, b, w)
    <3>2. w \in ToSet(part[b]) /\ w \in Seq(P)
      BY <1>5, <3>1
    <3> HIDE DEF w
    <3>3. /\ s \in ToSet(part[a]) /\ s \in Seq(P)
          /\ ToSet(s) = {SubSeq(phrase, a + 1, b)} \cup ToSet(w)
      BY <1>6, <3>1, <3>2
    <3> HIDE DEF s
    <3> QED BY <3>3
  <2> QED BY <2>1, <2>2
<1>8. ASSUME NEW a \in 0..(l - 1), NEW b \in (a + 1)..l
      PROVE  SubSeq(phrase, a + 1, b) \in Combinations(phrase)
  <2>1. PICK s \in ToSet(part[a]) : s \in Seq(P) /\ SubSeq(phrase, a + 1, b) \in ToSet(s)
    BY <1>7
  <2>2. CASE a = 0
    BY <1>3, <2>1, <2>2
  <2>3. CASE a # 0
    <3>1. a \in (0 + 1)..(l - 1)
      BY <1>0, <2>3
    <3> QED BY <1>0, <1>3, <1>6, <2>1, <3>1
  <2> QED BY <2>2, <2>3
<1> QED BY <1>4, <1>8 DEF SubString, l

-----------------------------------------------------------------------------
(***************************************************************************)
(* The string sets of a phrase cut it in all the ways there are.           *)
(***************************************************************************)
LEMMA SubSeqLen ==
  ASSUME NEW S, NEW s \in Seq(S), NEW i \in 0..Len(s), NEW j \in i..Len(s)
  PROVE  SubSeq(s, i + 1, j) \in Seq(S) /\ Len(SubSeq(s, i + 1, j)) = j - i
<1>1. Len(s) \in Nat /\ \A k \in 1..Len(s) : s[k] \in S
  OBVIOUS
<1>2. i + 1 \in Int /\ j \in Int /\ \A k \in (i + 1)..j : s[k] \in S
  BY <1>1
<1>3. SubSeq(s, i + 1, j) \in Seq(S) /\ Len(SubSeq(s, i + 1, j)) = IF i + 1 <= j THEN j - (i + 1) + 1 ELSE 0
  BY <1>2, SubSeqProperties
<1> QED BY <1>1, <1>3

LEMMA LedFlat ==
  ASSUME NEW S, NEW phrase \in Seq(S), NEW i \in 0..(Len(phrase) - 1),
         NEW j \in (i + 1)..(Len(phrase) - 1), NEW t \in Seq(Seq(S)),
         FlattenSeq(t) = OtherWords(phrase, j)
  PROVE  /\ FlattenSeq(Led(phrase, i, j, t)) = OtherWords(phrase, i)
         /\ SubSeq(phrase, i + 1, j) \in Seq(S) /\ SubSeq(phrase, i + 1, j) # <<>>
<1> DEFINE u == SubSeq(phrase, i + 1, j)
<1>0. Len(phrase) \in Nat
  OBVIOUS
<1>1. /\ i \in 0..Len(phrase) /\ j \in i..Len(phrase) /\ j - i # 0
      /\ i + 1 \in 1..(Len(phrase) + 1) /\ j \in (i + 1 - 1)..Len(phrase) /\ Len(phrase) \in j..Len(phrase)
  BY <1>0
<1>2. u \in Seq(S) /\ Len(u) = j - i
  BY <1>1, SubSeqLen
<1>3. u \o SubSeq(phrase, j + 1, Len(phrase)) = SubSeq(phrase, i + 1, Len(phrase))
  BY <1>1, ConcatAdjacentSubSeq
<1>4. FlattenSeq(<<u>> \o t) = u \o FlattenSeq(t)
  BY <1>2, FlattenAhead
<1>5. u # <<>>
  BY <1>1, <1>2, EmptySeq
<1> QED BY <1>2, <1>3, <1>4, <1>5 DEF Led, OtherWords

LedIsFlat(S, phrase, i, j, t) ==
    /\ FlattenSeq(Led(phrase, i, j, t)) = OtherWords(phrase, i)
    /\ SubSeq(phrase, i + 1, j) \in Seq(S) /\ SubSeq(phrase, i + 1, j) # <<>>

LEMMA LedFlatAt ==
  ASSUME NEW S, NEW phrase \in Seq(S), NEW i \in 0..(Len(phrase) - 1),
         NEW j \in (i + 1)..(Len(phrase) - 1), NEW t \in Seq(Seq(S)),
         FlattenSeq(t) = OtherWords(phrase, j)
  PROVE  LedIsFlat(S, phrase, i, j, t)
BY LedFlat DEF LedIsFlat

\* a set of strings that is made of the words left, without an empty string
IsCut(S, phrase, i, s) ==
    /\ s \in Seq(Seq(S)) /\ s # <<>>
    /\ FlattenSeq(s) = OtherWords(phrase, i) /\ <<>> \notin ToSet(s)

LEMMA EverySetIsCut ==
  ASSUME NEW S, NEW phrase \in Seq(S), NEW part, Known(Seq(S), phrase, part)
  PROVE  \A i \in 0..(Len(phrase) - 1) : \A s \in ToSet(part[i]) : IsCut(S, phrase, i, s)
<1> DEFINE l == Len(phrase)
           P == Seq(S)
           Cut(i) == \A s \in ToSet(part[i]) : IsCut(S, phrase, i, s)
           T == {i \in 0..(l - 1) : Cut(i)}
<1>0. l \in Nat /\ Phrases(P, phrase)
  BY PhrasesOf
<1>1. ASSUME NEW i \in 0..(l - 1), \A j \in (i + 1)..(l - 1) : j \in T
      PROVE  i \in T
  <2> SUFFICES ASSUME NEW s \in ToSet(part[i]) PROVE IsCut(S, phrase, i, s)
    OBVIOUS
  <2>1. KnownAt(P, phrase, part, i)
    BY DEF Known
  <2>2. i \in 0..l /\ l \in i..l /\ l - i # 0
    BY <1>0
  <2>3. CASE s = Whole(phrase, i)
    <3> DEFINE w == OtherWords(phrase, i)
    <3>1. w \in Seq(S) /\ Len(w) = l - i
      BY <2>2, SubSeqLen DEF OtherWords
    <3>2. w # <<>>
      BY <2>2, <3>1, EmptySeq
    <3>3. s = <<w>> /\ ToSet(s) = {w}
      BY <2>3, StringsOfWhole DEF Whole, OtherWords
    <3> HIDE DEF w
    <3>4. FlattenSeq(s) = w /\ s \in Seq(Seq(S)) /\ s # <<>>
      BY <3>1, <3>3, FlattenOne
    <3> QED BY <3>2, <3>3, <3>4 DEF IsCut, w
  <2>4. ASSUME NEW j \in (i + 1)..(l - 1), NEW t \in ToSet(part[j]), s = Led(phrase, i, j, t)
        PROVE  IsCut(S, phrase, i, s)
    <3>1. Cut(j)
      BY <1>1
    <3> DEFINE u == SubSeq(phrase, i + 1, j)
    <3>2. t \in Seq(Seq(S)) /\ FlattenSeq(t) = OtherWords(phrase, j) /\ <<>> \notin ToSet(t)
      BY <3>1 DEF IsCut
    <3>0. LedIsFlat(S, phrase, i, j, t)
      BY <3>2, LedFlatAt
    <3>3. FlattenSeq(s) = OtherWords(phrase, i) /\ u \in Seq(S) /\ u # <<>>
      BY ONLY <2>4, <3>0 DEF LedIsFlat
    <3>4. i \in 0..l /\ j \in 0..l
      BY <1>0
    <3>5. s \in Seq(Seq(S)) /\ ToSet(s) = {u} \cup ToSet(t)
      BY <1>0, <2>4, <3>2, <3>4, StringsOfLed
    <3>6. s # <<>>
      BY <3>5, ToSetEmpty
    <3> QED BY <3>2, <3>3, <3>5, <3>6 DEF IsCut
  <2> QED BY <2>1, <2>3, <2>4 DEF KnownAt
<1> HIDE DEF T
<1>2. 0..(l - 1) \subseteq T
  BY <1>0, <1>1, Downwards
<1> QED BY <1>2 DEF T

\* where a set cuts, once a string is put in front of it
LEMMA SubSeqAhead ==
  ASSUME NEW S, NEW x \in S, NEW t \in Seq(S), NEW k \in 0..Len(t)
  PROVE  SubSeq(<<x>> \o t, 1, k + 1) = <<x>> \o SubSeq(t, 1, k)
<1> DEFINE X == <<x>>
           s == X \o t
           a == SubSeq(s, 1, k + 1)
           v == SubSeq(t, 1, k)
           b == X \o v
<1>1. X \in Seq(S) /\ Len(X) = 1 /\ X[1] = x /\ Len(t) \in Nat
  OBVIOUS
<1> HIDE DEF X
<1>2. /\ s \in Seq(S) /\ Len(s) = 1 + Len(t)
      /\ \A i \in 1..(1 + Len(t)) : s[i] = IF i <= 1 THEN X[i] ELSE t[i - 1]
  <2>1. /\ s \in Seq(S) /\ Len(s) = Len(X) + Len(t)
        /\ \A i \in 1..(Len(X) + Len(t)) : s[i] = IF i <= Len(X) THEN X[i] ELSE t[i - Len(X)]
    BY <1>1, ConcatProperties
  <2> HIDE DEF s
  <2> QED BY <1>1, <2>1
<1>3. v \in Seq(S) /\ Len(v) = k /\ \A i \in 1..k : v[i] = t[i]
  <2>1. \A i \in 1..k : t[i] \in S
    BY <1>1
  <2>2. /\ SubSeq(t, 1, k) \in Seq(S) /\ Len(SubSeq(t, 1, k)) = IF 1 <= k THEN k - 1 + 1 ELSE 0
        /\ \A i \in 1..(k - 1 + 1) : SubSeq(t, 1, k)[i] = t[1 + i - 1]
    BY <2>1, SubSeqProperties
  <2> QED BY <2>2
<1>4. a \in Seq(S) /\ Len(a) = k + 1 /\ \A i \in 1..(k + 1) : a[i] = s[i]
  <2>1. \A i \in 1..(k + 1) : s[i] \in S
    BY <1>1, <1>2
  <2> HIDE DEF s
  <2>2. /\ SubSeq(s, 1, k + 1) \in Seq(S)
        /\ Len(SubSeq(s, 1, k + 1)) = IF 1 <= k + 1 THEN k + 1 - 1 + 1 ELSE 0
        /\ \A i \in 1..(k + 1 - 1 + 1) : SubSeq(s, 1, k + 1)[i] = s[1 + i - 1]
    BY <2>1, SubSeqProperties
  <2> QED BY <2>2
<1> HIDE DEF s, v
<1>5. /\ b \in Seq(S) /\ Len(b) = 1 + k
      /\ \A i \in 1..(1 + k) : b[i] = IF i <= 1 THEN X[i] ELSE v[i - 1]
  BY <1>1, <1>3, ConcatProperties
<1> HIDE DEF a, b
<1>6. \A i \in 1..(k + 1) : a[i] = b[i]
  <2> TAKE i \in 1..(k + 1)
  <2>1. i \in 1..(1 + Len(t)) /\ i \in 1..(1 + k) /\ (~ (i <= 1) => i - 1 \in 1..k)
    BY <1>1
  <2> QED BY <1>2, <1>3, <1>4, <1>5, <2>1
<1>7. Len(a) = Len(b)
  BY <1>4, <1>5
<1>8. a = b
  BY <1>4, <1>5, <1>6, <1>7, SeqEqual
<1> QED BY <1>8 DEF a, b, s, v, X

LEMMA CutsAhead ==
  ASSUME NEW S, NEW u \in Seq(S), NEW t \in Seq(Seq(S)), t # <<>>
  PROVE  /\ CutsOf(<<u>> \o t) = {Len(u)} \cup {Len(u) + c : c \in CutsOf(t)}
         /\ CutsOf(t) \subseteq Nat
<1> DEFINE s == <<u>> \o t
           A(k) == Len(FlattenSeq(SubSeq(s, 1, k)))
           B(k) == Len(FlattenSeq(SubSeq(t, 1, k)))
           n == Len(t)
<1>1. n \in Nat /\ n # 0
  BY EmptySeq
<1>2. Len(s) = n + 1
  <2>1. <<u>> \in Seq(Seq(S)) /\ Len(<<u>>) = 1
    OBVIOUS
  <2> QED BY <1>1, <2>1, ConcatProperties
<1>3. ASSUME NEW k \in 0..n PROVE A(k + 1) = Len(u) + B(k) /\ B(k) \in Nat /\ (k = 0 => B(k) = 0)
  <2>1. SubSeq(s, 1, k + 1) = <<u>> \o SubSeq(t, 1, k)
    BY SubSeqAhead
  <2>2. SubSeq(t, 1, k) \in Seq(Seq(S))
    <3>1. 0 \in 0..n /\ k \in 0..n
      BY <1>1
    <3>2. SubSeq(t, 0 + 1, k) \in Seq(Seq(S))
      BY <3>1, SubSeqLen
    <3> QED BY <3>2
  <2>3. /\ FlattenSeq(SubSeq(s, 1, k + 1)) = u \o FlattenSeq(SubSeq(t, 1, k))
        /\ FlattenSeq(SubSeq(t, 1, k)) \in Seq(S)
    BY <2>1, <2>2, FlattenAhead
  <2>4. Len(FlattenSeq(SubSeq(s, 1, k + 1))) = Len(u) + Len(FlattenSeq(SubSeq(t, 1, k)))
    BY <2>3, ConcatProperties
  <2>5. Len(FlattenSeq(SubSeq(t, 1, k))) \in Nat
    BY <2>3, LenProperties
  <2>6. ASSUME k = 0 PROVE B(k) = 0
    <3>1. SubSeq(t, 1, 0) = <<>>
      BY SubSeqEmpty
    <3> QED BY <2>6, <3>1, FlattenEmpty, EmptySeq
  <2> QED BY <2>4, <2>5, <2>6
<1>4. CutsOf(s) = {A(k) : k \in 1..n}
  BY <1>1, <1>2 DEF CutsOf
<1>5. CutsOf(t) = {B(k) : k \in 1..(n - 1)}
  BY DEF CutsOf
<1> HIDE DEF A, B, n, s
<1>6. \A k \in 1..n : k - 1 \in 0..n /\ k - 1 + 1 = k /\ (k - 1 = 0 \/ k - 1 \in 1..(n - 1))
  BY <1>1
<1>7. ASSUME NEW c \in CutsOf(s) PROVE c \in {Len(u)} \cup {Len(u) + d : d \in CutsOf(t)}
  <2>1. PICK k \in 1..n : c = A(k)
    BY <1>4
  <2> DEFINE m == k - 1
  <2>2. m \in 0..n /\ A(k) = Len(u) + B(m) /\ (m = 0 => B(m) = 0)
    <3>1. m \in 0..n /\ m + 1 = k
      BY <1>6
    <3> HIDE DEF m
    <3> QED BY <1>3, <3>1
  <2>3. m = 0 \/ m \in 1..(n - 1)
    BY <1>6
  <2> HIDE DEF m
  <2>a. Len(u) \in Nat
    BY LenProperties
  <2>4. CASE m = 0
    BY <2>1, <2>2, <2>4, <2>a
  <2>5. CASE m \in 1..(n - 1)
    BY <1>5, <2>1, <2>2, <2>5
  <2> QED BY <2>3, <2>4, <2>5
<1>8. Len(u) \in CutsOf(s)
  <2>1. 0 \in 0..n /\ 1 \in 1..n
    BY <1>1
  <2>2. A(0 + 1) = Len(u) + 0
    BY <1>3, <2>1
  <2>3. A(1) = Len(u)
    BY <2>2, LenProperties
  <2> QED BY <1>4, <2>1, <2>3
<1>9. ASSUME NEW d \in CutsOf(t) PROVE Len(u) + d \in CutsOf(s) /\ d \in Nat
  <2>1. PICK k \in 1..(n - 1) : d = B(k)
    BY <1>5
  <2>2. k \in 0..n /\ k + 1 \in 1..n
    BY <1>1
  <2>3. A(k + 1) = Len(u) + d /\ d \in Nat
    BY <1>3, <2>1, <2>2
  <2> QED BY <1>4, <2>2, <2>3
<1> QED BY <1>7, <1>8, <1>9 DEF s

LEMMA EveryCutIsMade ==
  ASSUME NEW S, NEW phrase \in Seq(S), NEW part, Known(Seq(S), phrase, part)
  PROVE  \A i \in 0..(Len(phrase) - 1) :
             {CutsOf(s) : s \in ToSet(part[i])} = SUBSET (1..(Len(phrase) - i - 1))
<1> DEFINE l == Len(phrase)
           All(i) == {CutsOf(s) : s \in ToSet(part[i])} = SUBSET (1..(l - i - 1))
           T == {i \in 0..(l - 1) : All(i)}
<1>0. l \in Nat
  OBVIOUS
<1>a. ASSUME NEW i \in 0..(l - 1), NEW j \in (i + 1)..(l - 1), NEW t \in ToSet(part[j])
      PROVE  /\ CutsOf(Led(phrase, i, j, t)) = {j - i} \cup {j - i + c : c \in CutsOf(t)}
             /\ CutsOf(t) \subseteq Nat
             /\ Led(phrase, i, j, t) \in ToSet(part[i])
  <2> DEFINE u == SubSeq(phrase, i + 1, j)
  <2>1. j \in 0..(l - 1) /\ i \in 0..l /\ j \in i..l
    BY <1>0
  <2>2. IsCut(S, phrase, j, t)
    BY <2>1, EverySetIsCut
  <2>3. u \in Seq(S) /\ Len(u) = j - i
    BY <2>1, SubSeqLen
  <2>a. t \in Seq(Seq(S)) /\ t # <<>> /\ u \in Seq(S)
    BY <2>2, <2>3 DEF IsCut
  <2>b. PICK v \in Seq(S) : v = u
    BY <2>a
  <2>c. CutsOf(<<v>> \o t) = {Len(v)} \cup {Len(v) + c : c \in CutsOf(t)} /\ CutsOf(t) \subseteq Nat
    BY ONLY <2>a, CutsAhead
  <2>4. CutsOf(<<u>> \o t) = {Len(u)} \cup {Len(u) + c : c \in CutsOf(t)} /\ CutsOf(t) \subseteq Nat
    <3> HIDE DEF u
    <3> QED BY ONLY <2>b, <2>c
  <2>5. Led(phrase, i, j, t) = <<u>> \o t
    BY DEF Led
  <2>6. Led(phrase, i, j, t) \in ToSet(part[i])
    BY DEF Known, KnownAt
  <2> HIDE DEF u
  <2> QED BY <2>3, <2>4, <2>5, <2>6
<1>b. ASSUME NEW i \in 0..(l - 1)
      PROVE  CutsOf(Whole(phrase, i)) = {} /\ Whole(phrase, i) \in ToSet(part[i])
  <2>1. Whole(phrase, i) \in ToSet(part[i])
    BY DEF Known, KnownAt
  <2>2. Len(Whole(phrase, i)) = 1 /\ 1..(1 - 1) = {}
    BY DEF Whole
  <2> QED BY <2>1, <2>2 DEF CutsOf
<1>1. ASSUME NEW i \in 0..(l - 1), \A j \in (i + 1)..(l - 1) : j \in T
      PROVE  i \in T
  <2>1. ASSUME NEW s \in ToSet(part[i]) PROVE CutsOf(s) \subseteq 1..(l - i - 1)
    <3>1. CASE s = Whole(phrase, i)
      BY <1>b, <3>1
    <3>2. ASSUME NEW j \in (i + 1)..(l - 1), NEW t \in ToSet(part[j]), s = Led(phrase, i, j, t)
          PROVE  CutsOf(s) \subseteq 1..(l - i - 1)
      <4>1. CutsOf(s) = {j - i} \cup {j - i + c : c \in CutsOf(t)}
        BY <1>a, <3>2
      <4>2. CutsOf(t) \subseteq 1..(l - j - 1)
        BY <1>1
      <4> HIDE DEF T, l
      <4>3. j - i \in 1..(l - i - 1) /\ \A c \in 1..(l - j - 1) : j - i + c \in 1..(l - i - 1)
        BY <1>0
      <4> QED BY <4>1, <4>2, <4>3
    <3>3. s = Whole(phrase, i) \/ \E j \in (i + 1)..(l - 1) : \E t \in ToSet(part[j]) : s = Led(phrase, i, j, t)
      <4>1. KnownAt(Seq(S), phrase, part, i)
        BY DEF Known
      <4> QED BY <4>1 DEF KnownAt
    <3> QED BY ONLY <3>1, <3>2, <3>3
  <2>2. ASSUME NEW C \in SUBSET (1..(l - i - 1)) PROVE \E s \in ToSet(part[i]) : CutsOf(s) = C
    <3>1. CASE C = {}
      BY <1>b, <3>1
    <3>2. CASE C # {}
      <4>1. C \in SUBSET Nat
        BY <1>0
      <4>2. PICK k \in C : \A m \in C : k <= m
        BY <3>2, <4>1, LeastNumber
      <4> DEFINE j == i + k
                 D == {m - k : m \in C \ {k}}
      <4>3. j \in (i + 1)..(l - 1) /\ j - i = k
        BY <1>0
      <4>4. D \subseteq 1..(l - j - 1)
        BY <1>0, <4>2
      <4>7. {k} \cup {k + c : c \in D} = C
        <5>1. \A m \in C : k + (m - k) = m
          BY <4>1
        <5>2. ASSUME NEW m \in C, m # k PROVE m \in {k + c : c \in D}
          BY <5>1, <5>2
        <5>3. \A c \in D : k + c \in C
          BY <5>1
        <5> HIDE DEF D
        <5> QED BY <5>2, <5>3
      <4> HIDE DEF j, D
      <4>a. All(j)
        BY <1>1, <4>3
      <4>5. PICK t \in ToSet(part[j]) : CutsOf(t) = D
        BY <4>4, <4>a
      <4>6. /\ CutsOf(Led(phrase, i, j, t)) = {k} \cup {k + c : c \in D}
            /\ Led(phrase, i, j, t) \in ToSet(part[i])
        <5>1. /\ CutsOf(Led(phrase, i, j, t)) = {j - i} \cup {j - i + c : c \in CutsOf(t)}
              /\ Led(phrase, i, j, t) \in ToSet(part[i])
          BY <1>a, <4>3
        <5> QED BY <4>3, <4>5, <5>1
      <4> QED BY <4>6, <4>7
    <3> QED BY <3>1, <3>2
  <2>3. {CutsOf(s) : s \in ToSet(part[i])} = SUBSET (1..(l - i - 1))
    <3> DEFINE U == 1..(l - i - 1)
               V == ToSet(part[i])
    <3>1. (\A s \in V : CutsOf(s) \subseteq U) /\ (\A C \in SUBSET U : \E s \in V : CutsOf(s) = C)
      BY ONLY <2>1, <2>2
    <3> HIDE DEF U, V
    <3> DEFINE W == {CutsOf(s) : s \in V}
    <3>2. \A C \in W : C \in SUBSET U
      BY ONLY <3>1
    <3>3. \A C \in SUBSET U : C \in W
      BY ONLY <3>1
    <3> HIDE DEF W
    <3>4. W = SUBSET U
      BY ONLY <3>2, <3>3
    <3> QED BY ONLY <3>4 DEF U, V, W
  <2> QED BY <2>3
<1> HIDE DEF T
<1>2. 0..(l - 1) \subseteq T
  BY <1>0, <1>1, Downwards
<1> QED BY <1>2 DEF T

(***************************************************************************)
(* Their number doubles with each word.                                    *)
(***************************************************************************)
LEMMA FlattenFirst ==
  ASSUME NEW S, NEW seqs \in Seq(Seq(S)), seqs # <<>>
  PROVE  /\ FlattenSeq(seqs) = Head(seqs) \o FlattenSeq(Tail(seqs))
         /\ Head(seqs) = seqs[1] /\ Head(seqs) \in Seq(S)
         /\ Tail(seqs) \in Seq(Seq(S)) /\ FlattenSeq(Tail(seqs)) \in Seq(S)
<1>1. Head(seqs) \in Seq(S) /\ Tail(seqs) \in Seq(Seq(S))
  BY HeadTailProperties
<1>2. Head(seqs) = seqs[1]
  OBVIOUS
<1>3. Len(seqs) \in Nat /\ Len(seqs) # 0
  BY EmptySeq
<1>4. SubSeq(seqs, 1, Len(seqs)) = <<seqs[1]>> \o SubSeq(seqs, 1 + 1, Len(seqs))
  <2>1. 1 \in 1..Len(seqs) /\ Len(seqs) \in 1..Len(seqs)
    BY <1>3
  <2> QED BY <2>1, SubSeqRecursiveFirst
<1>5. seqs = <<seqs[1]>> \o Tail(seqs)
  <2>1. SubSeq(seqs, 1, Len(seqs)) = seqs
    BY SubSeqFull
  <2>2. Tail(seqs) = SubSeq(seqs, 2, Len(seqs)) /\ 1 + 1 = 2
    BY TailIsSubSeq
  <2> QED BY <1>4, <2>1, <2>2
<1> QED BY <1>1, <1>2, <1>5, FlattenAhead

LEMMA FlattenLen ==
  ASSUME NEW S, NEW a \in Seq(Seq(S)), NEW b \in Seq(Seq(S)),
         Len(a) = Len(b), \A k \in 1..Len(a) : Len(a[k]) = Len(b[k])
  PROVE  Len(FlattenSeq(a)) = Len(FlattenSeq(b))
<1> DEFINE Same(x, y) == Len(x) = Len(y) /\ \A k \in 1..Len(x) : Len(x[k]) = Len(y[k])
           T == {x \in Seq(Seq(S)) : \A y \in Seq(Seq(S)) :
                     Same(x, y) => Len(FlattenSeq(x)) = Len(FlattenSeq(y))}
<1>1. <<>> \in T
  <2> SUFFICES ASSUME NEW y \in Seq(Seq(S)), Same(<<>>, y)
               PROVE  Len(FlattenSeq(<<>>)) = Len(FlattenSeq(y))
    OBVIOUS
  <2>1. y = <<>>
    BY EmptySeq
  <2> QED BY <2>1
<1>2. ASSUME NEW x \in Seq(Seq(S)), NEW e \in Seq(S), x \in T PROVE Append(x, e) \in T
  <2> DEFINE xe == Append(x, e)
  <2> SUFFICES ASSUME NEW y \in Seq(Seq(S)), Same(xe, y)
               PROVE  Len(FlattenSeq(xe)) = Len(FlattenSeq(y))
    BY AppendProperties
  <2>1. /\ xe \in Seq(Seq(S)) /\ Len(xe) = Len(x) + 1 /\ Len(x) \in Nat
        /\ \A k \in 1..Len(x) : xe[k] = x[k]
        /\ xe[Len(x) + 1] = e
    BY AppendProperties
  <2>2. y # <<>>
    <3>1. Len(y) # 0
      BY <2>1
    <3> QED BY <3>1, EmptySeq
  <2>3. PICK z \in Seq(Seq(S)), f \in Seq(S) : y = Append(z, f)
    BY <2>2, SequenceEmptyOrAppend
  <2>4. /\ Len(y) = Len(z) + 1 /\ Len(z) \in Nat
        /\ \A k \in 1..Len(z) : y[k] = z[k]
        /\ y[Len(z) + 1] = f
    BY <2>3, AppendProperties
  <2>5. Len(x) = Len(z)
    <3>1. Len(xe) = Len(y)
      OBVIOUS
    <3>2. Len(x) + 1 = Len(z) + 1
      BY <2>1, <2>4, <3>1
    <3>3. Len(x) \in Nat /\ Len(z) \in Nat
      BY <2>1, <2>4
    <3> HIDE DEF xe, Same, T
    <3> QED BY <3>2, <3>3
  <2>6. Len(e) = Len(f) /\ \A k \in 1..Len(x) : Len(x[k]) = Len(z[k])
    <3>1. Len(x) + 1 \in 1..Len(xe) /\ 1..Len(x) \subseteq 1..Len(xe)
      BY <2>1
    <3> HIDE DEF xe
    <3> QED BY <2>1, <2>4, <2>5, <3>1
  <2>7. Len(FlattenSeq(x)) = Len(FlattenSeq(z))
    BY <1>2, <2>5, <2>6
  <2>8. FlattenSeq(xe) = FlattenSeq(x) \o e /\ FlattenSeq(x) \in Seq(S)
    BY FlattenAppend
  <2>9. FlattenSeq(y) = FlattenSeq(z) \o f /\ FlattenSeq(z) \in Seq(S)
    BY <2>3, FlattenAppend
  <2>10. Len(FlattenSeq(xe)) = Len(FlattenSeq(x)) + Len(e)
    BY <2>8, ConcatProperties
  <2>11. Len(FlattenSeq(y)) = Len(FlattenSeq(z)) + Len(f)
    BY <2>9, ConcatProperties
  <2> QED BY <2>6, <2>7, <2>10, <2>11
<1> HIDE DEF T
<1>3. Seq(Seq(S)) \subseteq T
  BY <1>1, <1>2, SeqInduction
<1> QED BY <1>3 DEF T

LEMMA PowerDoubles ==
  ASSUME NEW n \in Nat
  PROVE  2 ^ (n + 1) = 2 ^ n + 2 ^ n /\ 2 ^ n \in Nat
<1> DEFINE A == SUBSET (1..n)
           B == SUBSET (1..(n + 1))
           C == B \ A
           f == [s \in A |-> s \cup {n + 1}]
<1>1. /\ IsFiniteSet(1..n) /\ Cardinality(1..n) = n
      /\ IsFiniteSet(1..(n + 1)) /\ Cardinality(1..(n + 1)) = n + 1
  BY FS_Interval
<1>2. IsFiniteSet(A) /\ Cardinality(A) = 2 ^ n
  BY <1>1, FS_SUBSET
<1>3. IsFiniteSet(B) /\ Cardinality(B) = 2 ^ (n + 1)
  BY <1>1, FS_SUBSET
<1>a. 1..(n + 1) = (1..n) \cup {n + 1} /\ n + 1 \notin 1..n
  OBVIOUS
<1>4. f \in Bijection(A, C)
  <2>1. \A s \in A : f[s] = s \cup {n + 1} /\ f[s] \in C /\ f[s] \ {n + 1} = s
    BY <1>a
  <2>2. f \in [A -> C]
    BY <2>1
  <2>3. \A c \in C : c \ {n + 1} \in A /\ f[c \ {n + 1}] = c
    BY <1>a
  <2> HIDE DEF f, A, C
  <2>4. \A c \in C : \E s \in A : f[s] = c
    BY <2>3
  <2>5. \A s, t \in A : f[s] = f[t] => s = t
    BY <2>1
  <2> QED BY <2>2, <2>4, <2>5 DEF Bijection, Injection, Surjection, IsInjective
<1>5. Cardinality(C) = Cardinality(A) /\ IsFiniteSet(C)
  BY <1>2, <1>4, FS_Bijection DEF ExistsBijection
<1>6. B = A \cup C /\ A \cap C = {}
  BY <1>a
<1>7. Cardinality(A) \in Nat
  BY <1>2, FS_CardinalityType
<1> HIDE DEF A, B, C
<1>8. Cardinality(B) = Cardinality(A) + Cardinality(C) - Cardinality(A \cap C)
  BY <1>2, <1>5, <1>6, FS_Union
<1> QED BY <1>2, <1>3, <1>5, <1>6, <1>7, <1>8, FS_EmptySet

FirstBlock(phrase, part, i) == WithLeftHand(SubSeq(phrase, i + 1, i + 1), part[i + 1])
OtherBlocks(phrase, part, i) == FlattenSeq(Tail(Blocks(phrase, part, i)))

LEMMA TailBlocks ==
  ASSUME NEW P, NEW phrase, Phrases(P, phrase), NEW part, Known(P, phrase, part),
         NEW i \in 0..(Len(phrase) - 2)
  PROVE  /\ FlattenSeq(Blocks(phrase, part, i))
               = FirstBlock(phrase, part, i) \o OtherBlocks(phrase, part, i)
         /\ FirstBlock(phrase, part, i) \in Seq(Seq(P))
         /\ OtherBlocks(phrase, part, i) \in Seq(Seq(P))
         /\ Len(FirstBlock(phrase, part, i)) = Len(part[i + 1]) /\ Len(part[i + 1]) \in Nat \ {0}
         /\ FirstBlock(phrase, part, i)[1] = <<SubSeq(phrase, i + 1, i + 1)>> \o part[i + 1][1]
         /\ Len(OtherBlocks(phrase, part, i)) = Len(FlattenSeq(Blocks(phrase, part, i + 1)))
<1> DEFINE l == Len(phrase)
           a == Blocks(phrase, part, i)
           b == Blocks(phrase, part, i + 1)
           left == WithLeftHand(SubSeq(phrase, i + 1, i + 1), part[i + 1])
           W(j, k) == WithLeftHand(SubSeq(phrase, j + 1, j + k), part[j + k])
<1>0. l \in Nat
  BY DEF Phrases
<1>1. \A j \in 0..(l - 1) : part[j] \in Seq(Seq(P))
  BY DEF Known, KnownAt
<1>2. /\ a \in Seq(Seq(Seq(P))) /\ Len(a) = l - i - 1
      /\ \A k \in 1..(l - i - 1) : a[k] = W(i, k)
  <2>1. i \in 0..(l - 1) /\ (i + 1)..(l - 1) \subseteq 0..(l - 1)
    BY <1>0
  <2> QED BY <1>1, <2>1, BlocksTyped
<1>3. /\ b \in Seq(Seq(Seq(P))) /\ Len(b) = l - i - 2
      /\ \A k \in 1..(l - i - 2) : b[k] = W(i + 1, k)
  <2> DEFINE m == i + 1
  <2>1. m \in 0..(l - 1) /\ (m + 1)..(l - 1) \subseteq 0..(l - 1) /\ l - m - 1 = l - i - 2
    BY <1>0
  <2> HIDE DEF m
  <2>2. /\ Blocks(phrase, part, m) \in Seq(Seq(Seq(P))) /\ Len(Blocks(phrase, part, m)) = l - m - 1
        /\ \A k \in 1..(l - m - 1) : Blocks(phrase, part, m)[k] = W(m, k)
    BY <1>1, <2>1, BlocksTyped
  <2> QED BY <2>1, <2>2 DEF m
<1>4. ASSUME NEW j \in 0..(l - 1), NEW k \in 1..(l - j - 1)
      PROVE  /\ Len(W(j, k)) = Len(part[j + k]) /\ W(j, k) \in Seq(Seq(P))
             /\ Len(part[j + k]) \in Nat \ {0}
             /\ W(j, k)[1] = <<SubSeq(phrase, j + 1, j + k)>> \o part[j + k][1]
  <2>1. j + k \in 0..(l - 1) /\ j \in 0..l /\ j + k \in 0..l
    BY <1>0
  <2>2. part[j + k] \in Seq(Seq(P)) /\ SubSeq(phrase, j + 1, j + k) \in P
    BY <1>1, <2>1 DEF Phrases
  <2>3. Whole(phrase, j + k) \in ToSet(part[j + k])
    BY <2>1 DEF Known, KnownAt
  <2>4. Len(part[j + k]) \in Nat \ {0}
    BY <2>2, <2>3, EmptySeq, ToSetEmpty
  <2>5. 1 \in 1..Len(part[j + k])
    BY <2>4
  <2>6. PICK v \in P : v = SubSeq(phrase, j + 1, j + k)
    BY <2>2
  <2>7. PICK sets \in Seq(Seq(P)) : sets = part[j + k]
    BY <2>2
  <2>8. /\ WithLeftHand(v, sets) \in Seq(Seq(P)) /\ Len(WithLeftHand(v, sets)) = Len(sets)
        /\ \A n \in 1..Len(sets) : WithLeftHand(v, sets)[n] = <<v>> \o sets[n]
    BY LeftHand, Zenon
  <2>9. W(j, k) = WithLeftHand(v, sets)
    BY ONLY <2>6, <2>7
  <2> HIDE DEF W
  <2> QED BY ONLY <2>4, <2>5, <2>6, <2>7, <2>8, <2>9
<1>5. left = a[1] /\ left = W(i, 1)
  <2>1. 1 \in 1..(l - i - 1)
    BY <1>0
  <2> QED BY <1>2, <2>1
<1>6. /\ left \in Seq(Seq(P)) /\ Len(left) = Len(part[i + 1]) /\ Len(part[i + 1]) \in Nat \ {0}
      /\ left[1] = <<SubSeq(phrase, i + 1, i + 1)>> \o part[i + 1][1]
  <2>1. i \in 0..(l - 1) /\ 1 \in 1..(l - i - 1)
    BY <1>0
  <2> QED BY <1>4, <2>1
<1> HIDE DEF left, W, a, b
<1>7. /\ FlattenSeq(a) = left \o FlattenSeq(Tail(a)) /\ FlattenSeq(Tail(a)) \in Seq(Seq(P))
      /\ Tail(a) \in Seq(Seq(Seq(P)))
  <2>1. a # <<>>
    <3>1. Len(a) # 0
      BY <1>0, <1>2
    <3> QED BY <3>1, EmptySeq
  <2> QED BY <1>2, <1>5, <2>1, FlattenFirst
<1>8. Len(Tail(a)) = Len(b) /\ \A k \in 1..Len(Tail(a)) : Tail(a)[k] = a[k + 1]
  <2>1. a # <<>>
    <3>1. Len(a) # 0
      BY <1>0, <1>2
    <3> QED BY <3>1, EmptySeq
  <2>2. Len(Tail(a)) = Len(a) - 1 /\ \A k \in 1..Len(Tail(a)) : Tail(a)[k] = a[k + 1]
    BY <1>2, <2>1, HeadTailProperties
  <2> QED BY <1>0, <1>2, <1>3, <2>2
<1>9. ASSUME NEW k \in 1..Len(Tail(a)) PROVE Len(Tail(a)[k]) = Len(b[k])
  <2> DEFINE m == i + 1
             n == k + 1
  <2>1. /\ k \in 1..(l - i - 2) /\ n \in 1..(l - i - 1) /\ i \in 0..(l - 1)
        /\ m \in 0..(l - 1) /\ k \in 1..(l - m - 1) /\ i + n = m + k
    BY <1>0, <1>3, <1>8
  <2>2. Tail(a)[k] = W(i, n) /\ b[k] = W(m, k)
    BY <1>2, <1>3, <1>8, <2>1
  <2> HIDE DEF m, n
  <2>3. Len(W(i, n)) = Len(part[i + n]) /\ Len(W(m, k)) = Len(part[m + k])
    BY <1>4, <2>1
  <2> QED BY <2>1, <2>2, <2>3
<1>10. Len(FlattenSeq(Tail(a))) = Len(FlattenSeq(b))
  BY <1>3, <1>7, <1>8, <1>9, FlattenLen
<1> QED BY <1>6, <1>7, <1>10 DEF a, b, left, FirstBlock, OtherBlocks

Singles(phrase, i) == [k \in 1..(Len(phrase) - i) |-> <<phrase[i + k]>>]

LEMMA LastPart ==
  ASSUME NEW P, NEW phrase, Phrases(P, phrase), NEW part, Known(P, phrase, part),
         NEW i \in 0..(Len(phrase) - 1)
  PROVE  /\ Len(part[i]) = Len(FlattenSeq(Blocks(phrase, part, i))) + 1
         /\ Len(part[i]) \in Nat
         /\ part[i][Len(part[i])] = Whole(phrase, i)
         /\ FlattenSeq(Blocks(phrase, part, i)) # <<>>
               => part[i][1] = FlattenSeq(Blocks(phrase, part, i))[1]
         /\ i = Len(phrase) - 1 => FlattenSeq(Blocks(phrase, part, i)) = <<>>
<1> DEFINE flat == FlattenSeq(Blocks(phrase, part, i))
           w == Whole(phrase, i)
<1>1. flat \in Seq(Seq(P)) /\ w \in Seq(P) /\ part[i] = flat \o <<w>>
  BY DEF Known, KnownAt
<1>2. ASSUME i = Len(phrase) - 1 PROVE flat = <<>>
  <2>1. 1..Cutable(phrase, i) = {}
    BY <1>2 DEF Phrases, Cutable
  <2>2. Blocks(phrase, part, i) = <<>>
    BY <2>1 DEF Blocks
  <2> QED BY <2>2, FlattenEmpty
<1> HIDE DEF flat, w
<1>3. part[i] = Append(flat, w) /\ Len(flat) \in Nat
  BY <1>1, AppendIsConcat, LenProperties
<1>4. /\ Len(part[i]) = Len(flat) + 1 /\ part[i][Len(flat) + 1] = w
      /\ \A k \in 1..Len(flat) : part[i][k] = flat[k]
  BY <1>1, <1>3, AppendProperties
<1>5. ASSUME flat # <<>> PROVE part[i][1] = flat[1]
  <2>1. Len(flat) # 0
    BY <1>1, <1>5, EmptySeq
  <2>2. 1 \in 1..Len(flat)
    BY <1>3, <2>1
  <2> QED BY <1>4, <2>2
<1> QED BY <1>2, <1>3, <1>4, <1>5 DEF flat, w

LEMMA FirstAndNumber ==
  ASSUME NEW S, NEW phrase \in Seq(S), NEW part, Known(Seq(S), phrase, part)
  PROVE  \A i \in 0..(Len(phrase) - 1) :
             Len(part[i]) = 2 ^ (Len(phrase) - 1 - i) /\ part[i][1] = Singles(phrase, i)
<1> DEFINE l == Len(phrase)
           P == Seq(S)
           Good(i) == Len(part[i]) = 2 ^ (l - 1 - i) /\ part[i][1] = Singles(phrase, i)
           T == {i \in 0..(l - 1) : Good(i)}
<1>0. l \in Nat /\ Phrases(P, phrase) /\ \A k \in 1..l : phrase[k] \in S
  BY PhrasesOf
<1> HIDE DEF P
<1>a. Known(P, phrase, part)
  BY DEF P
<1>b. ASSUME NEW i \in 0..(l - 1) PROVE SubSeq(phrase, i + 1, i + 1) = <<phrase[i + 1]>>
  <2> DEFINE m == i + 1
  <2>1. m \in 1..l
    BY <1>0
  <2> HIDE DEF m
  <2>2. SubSeq(phrase, m, m) = <<phrase[m]>> \o SubSeq(phrase, m + 1, m)
    BY <2>1, SubSeqRecursiveFirst
  <2>3. SubSeq(phrase, m + 1, m) = <<>>
    BY <2>1, SubSeqEmpty
  <2>4. <<phrase[m]>> \in Seq(S)
    BY <1>0, <2>1
  <2> QED BY <2>2, <2>3, <2>4, ConcatEmptySeq DEF m
<1>1. ASSUME NEW i \in 0..(l - 1), \A j \in (i + 1)..(l - 1) : j \in T
      PROVE  i \in T
  <2> DEFINE flat == FlattenSeq(Blocks(phrase, part, i))
             next == i + 1
             flatNext == FlattenSeq(Blocks(phrase, part, next))
  <2>1. CASE i = l - 1
    <3>1. flat = <<>> /\ Len(part[i]) = Len(flat) + 1 /\ part[i][Len(part[i])] = Whole(phrase, i)
      BY <1>0, <1>a, <2>1, LastPart
    <3>2. Len(part[i]) = 1 /\ part[i][1] = Whole(phrase, i)
      BY <3>1, EmptySeq
    <3>3. Whole(phrase, i) = <<<<phrase[i + 1]>>>>
      BY <1>b, <2>1 DEF Whole, OtherWords
    <3>4. Singles(phrase, i) = <<<<phrase[i + 1]>>>>
      <4>1. l - i = 1
        BY <1>0, <2>1
      <4> QED BY <4>1 DEF Singles
    <3>5. 2 ^ (l - 1 - i) = 1
      <4>1. l - 1 - i = 0 /\ 2 ^ 0 = 1
        BY <1>0, <2>1
      <4> QED BY <4>1
    <3> QED BY <3>2, <3>3, <3>4, <3>5
  <2>2. CASE i # l - 1
    <3>0. i \in 0..(l - 2) /\ next \in 0..(l - 1) /\ next \in (i + 1)..(l - 1)
      BY <1>0, <2>2
    <3> DEFINE left == FirstBlock(phrase, part, i)
               rest == OtherBlocks(phrase, part, i)
    <3>1. /\ flat = left \o rest
          /\ left \in Seq(Seq(P)) /\ rest \in Seq(Seq(P))
          /\ Len(left) = Len(part[i + 1]) /\ Len(part[i + 1]) \in Nat \ {0}
          /\ left[1] = <<SubSeq(phrase, i + 1, i + 1)>> \o part[i + 1][1]
          /\ Len(rest) = Len(FlattenSeq(Blocks(phrase, part, i + 1)))
      BY <1>0, <1>a, <3>0, TailBlocks
    <3>2. Good(next)
      BY <1>1, <3>0
    <3> HIDE DEF left, rest, flat, T
    <3>3. /\ Len(flat) = Len(left) + Len(rest)
          /\ \A k \in 1..(Len(left) + Len(rest)) :
                 flat[k] = IF k <= Len(left) THEN left[k] ELSE rest[k - Len(left)]
      <4>0. left \in Seq(Seq(P)) /\ rest \in Seq(Seq(P))
        BY <3>1
      <4>1. /\ Len(left \o rest) = Len(left) + Len(rest)
            /\ \A k \in 1..(Len(left) + Len(rest)) :
                   (left \o rest)[k] = IF k <= Len(left) THEN left[k] ELSE rest[k - Len(left)]
        BY <4>0, ConcatProperties
      <4> QED BY <3>1, <4>1
    <3>4. Len(left) \in Nat \ {0} /\ Len(rest) \in Nat /\ Len(left) = Len(part[next])
          /\ Len(rest) = Len(flatNext)
      BY <3>1, LenProperties
    <3> HIDE DEF flatNext
    <3>5. flat[1] = left[1]
      <4>1. 1 \in 1..(Len(left) + Len(rest)) /\ 1 <= Len(left)
        BY <3>4
      <4> QED BY <3>3, <4>1
    <3>6. flat # <<>>
      <4>1. Len(flat) # 0
        BY <3>3, <3>4
      <4> QED BY <4>1, EmptySeq
    <3>7. Len(part[i]) = Len(flat) + 1 /\ part[i][1] = flat[1]
      BY <1>0, <1>a, <3>6, LastPart DEF flat
    <3>8. Len(part[next]) = Len(flatNext) + 1
      BY <1>0, <1>a, <3>0, LastPart DEF flatNext
    <3>9. Len(part[i]) = Len(part[next]) + Len(part[next])
      BY <3>3, <3>4, <3>7, <3>8
    <3>10. Len(part[i]) = 2 ^ (l - 1 - i)
      <4> DEFINE n == l - 1 - next
      <4>1. n \in Nat /\ n + 1 = l - 1 - i
        BY <1>0, <3>0
      <4> HIDE DEF n
      <4>2. 2 ^ (n + 1) = 2 ^ n + 2 ^ n
        BY <4>1, PowerDoubles
      <4>3. Len(part[next]) = 2 ^ n
        BY <3>2 DEF n
      <4> QED BY <3>9, <4>1, <4>2, <4>3
    <3>11. part[i][1] = Singles(phrase, i)
      <4> DEFINE x == <<phrase[i + 1]>>
                 X == <<x>>
                 t == Singles(phrase, next)
                 s == Singles(phrase, i)
                 m == l - next
      <4>1. part[i][1] = X \o t
        BY <1>b, <3>1, <3>2, <3>5, <3>7
      <4>2. m \in Nat /\ l - i = m + 1 /\ i + 1 \in 1..l
        BY <1>0, <3>0
      <4>3. t = [k \in 1..m |-> <<phrase[next + k]>>]
        BY DEF Singles
      <4>4. s = [k \in 1..(m + 1) |-> <<phrase[i + k]>>]
        BY <4>2 DEF Singles
      <4>a. \A k \in 1..m : next + k \in 1..l
        BY <1>0, <3>0
      <4>b. \A k \in 1..(m + 1) : i + k \in 1..l
        BY <1>0, <3>0
      <4>c. \A k \in 1..l : <<phrase[k]>> \in P
        BY <1>0 DEF P
      <4> HIDE DEF m
      <4>5. t \in Seq(P) /\ Len(t) = m /\ \A k \in 1..m : t[k] = <<phrase[next + k]>>
        <5> DEFINE e(k) == <<phrase[next + k]>>
        <5>1. \A k \in 1..m : e(k) \in P
          BY <4>a, <4>c
        <5>2. t = [k \in 1..m |-> e(k)]
          BY <4>3
        <5> HIDE DEF e, t
        <5>3. t \in Seq(P) /\ Len(t) = m /\ \A k \in 1..m : t[k] = e(k)
          BY <4>2, <5>1, <5>2
        <5> QED BY <5>3 DEF e
      <4>6. s \in Seq(P) /\ Len(s) = m + 1 /\ \A k \in 1..(m + 1) : s[k] = <<phrase[i + k]>>
        <5> DEFINE e(k) == <<phrase[i + k]>>
        <5>1. \A k \in 1..(m + 1) : e(k) \in P
          BY <4>b, <4>c
        <5>2. s = [k \in 1..(m + 1) |-> e(k)]
          BY <4>4
        <5> HIDE DEF e, s
        <5>3. s \in Seq(P) /\ Len(s) = m + 1 /\ \A k \in 1..(m + 1) : s[k] = e(k)
          BY <4>2, <5>1, <5>2
        <5> QED BY <5>3 DEF e
      <4>7. X \in Seq(P) /\ Len(X) = 1 /\ X[1] = x
        BY <4>2, <4>c
      <4> HIDE DEF X, t, s
      <4>8. /\ X \o t \in Seq(P) /\ Len(X \o t) = Len(X) + Len(t)
            /\ \A k \in 1..(Len(X) + Len(t)) :
                   (X \o t)[k] = IF k <= Len(X) THEN X[k] ELSE t[k - Len(X)]
        BY <4>5, <4>7, ConcatProperties
      <4>9. \A k \in 1..(m + 1) : (X \o t)[k] = s[k]
        <5> TAKE k \in 1..(m + 1)
        <5>1. k \in 1..(Len(X) + Len(t)) /\ Len(X) = 1
          BY <4>2, <4>5, <4>7
        <5>2. CASE k = 1
          <6>1. (X \o t)[1] = X[1]
            BY <4>7, <4>8, <5>1, <5>2
          <6>2. s[1] = x
            BY <4>6, <5>2
          <6> QED BY <4>7, <5>2, <6>1, <6>2
        <5>3. CASE k # 1
          <6>1. k - 1 \in 1..m /\ next + (k - 1) = i + k /\ ~ (k <= 1)
            BY <4>2, <5>3
          <6>2. (X \o t)[k] = t[k - 1]
            BY <4>8, <5>1, <6>1
          <6>3. t[k - 1] = <<phrase[i + k]>>
            <7> DEFINE n == k - 1
            <7>1. n \in 1..m /\ next + n = i + k
              BY <6>1
            <7> HIDE DEF n
            <7>2. t[n] = <<phrase[i + k]>>
              BY <4>5, <7>1
            <7> QED BY <7>2 DEF n
          <6> QED BY <4>6, <6>2, <6>3
        <5> QED BY <5>2, <5>3
      <4>10. Len(X \o t) = Len(s) /\ Len(s) = m + 1
        BY <4>2, <4>5, <4>6, <4>7, <4>8
      <4>11. X \o t = s
        BY <4>6, <4>8, <4>9, <4>10, SeqEqual
      <4> QED BY <4>1, <4>11 DEF s
    <3> USE DEF T
    <3> QED BY <3>10, <3>11
  <2> QED BY <2>1, <2>2
<1> HIDE DEF T
<1>2. 0..(l - 1) \subseteq T
  BY <1>0, <1>1, Downwards
<1> QED BY <1>2 DEF T

(***************************************************************************)
(* The string sets cut the phrase in all the ways there are, each of them  *)
(* once ("made of 16 sets" for five words, in the test suite of the        *)
(* partitions), without an empty string; the first set is made of the      *)
(* single words and the last one of the whole phrase.                      *)
(***************************************************************************)
THEOREM PartitionsCutEveryWay ==
  ASSUME NEW S, NEW phrase \in Seq(S), phrase # <<>>
  PROVE  LET sets == Partition(phrase)
         IN  /\ Len(sets) = 2 ^ (Len(phrase) - 1)
             /\ {CutsOf(s) : s \in ToSet(sets)} = SUBSET (1..(Len(phrase) - 1))
             /\ \A s \in ToSet(sets) : FlattenSeq(s) = phrase /\ <<>> \notin ToSet(s)
             /\ Head(sets) = [k \in 1..Len(phrase) |-> <<phrase[k]>>]
             /\ Last(sets) = <<phrase>>
<1> DEFINE l == Len(phrase)
           P == Seq(S)
           sets == Partition(phrase)
<1>0. l \in Nat /\ l # 0 /\ 0 \in 0..(l - 1)
  BY EmptySeq, LenProperties
<1>1. PICK part : sets = part[0] /\ Parts(phrase, part) /\ Known(P, phrase, part)
  BY PartsKnown
<1>2. Phrases(P, phrase)
  BY PhrasesOf
<1>3. OtherWords(phrase, 0) = phrase /\ Whole(phrase, 0) = <<phrase>>
  <2>1. SubSeq(phrase, 0 + 1, l) = phrase
    BY SubSeqFull
  <2> QED BY <2>1 DEF Whole, OtherWords
<1>4. Singles(phrase, 0) = [k \in 1..l |-> <<phrase[k]>>]
  <2>1. l - 0 = l /\ \A k \in 1..l : 0 + k = k
    BY <1>0
  <2> QED BY <2>1 DEF Singles
<1>5. Len(sets) = 2 ^ (l - 1) /\ sets[1] = [k \in 1..l |-> <<phrase[k]>>]
  <2>1. Len(part[0]) = 2 ^ (l - 1 - 0) /\ part[0][1] = Singles(phrase, 0)
    BY <1>0, <1>1, FirstAndNumber
  <2>2. l - 1 - 0 = l - 1
    BY <1>0
  <2> QED BY <1>1, <1>4, <2>1, <2>2
<1>6. {CutsOf(s) : s \in ToSet(sets)} = SUBSET (1..(l - 1))
  <2>1. {CutsOf(s) : s \in ToSet(part[0])} = SUBSET (1..(l - 0 - 1))
    BY <1>0, <1>1, EveryCutIsMade
  <2>2. l - 0 - 1 = l - 1
    BY <1>0
  <2> QED BY <1>1, <2>1, <2>2
<1>7. \A s \in ToSet(sets) : FlattenSeq(s) = phrase /\ <<>> \notin ToSet(s)
  BY <1>0, <1>1, <1>3, EverySetIsCut DEF IsCut
<1>8. Last(sets) = <<phrase>>
  BY <1>0, <1>1, <1>2, <1>3, LastPart DEF Last
<1>9. Head(sets) = sets[1]
  <2>1. part[0] \in Seq(Seq(P))
    BY <1>0, <1>1 DEF Known, KnownAt
  <2> HIDE DEF sets
  <2>2. sets \in Seq(Seq(P))
    BY <1>1, <2>1
  <2> QED BY <2>2
<1> QED BY <1>5, <1>6, <1>7, <1>8, <1>9

\* a combination with a hole leaves out some words, neither the first nor the last
LEMMA MiddleRemovedAre ==
  ASSUME NEW phrase, Len(phrase) \in Nat
  PROVE  \A x : x \in MiddleRemoved(phrase) <=>
             \E first \in 2..(Len(phrase) - 1) : \E last \in first..(Len(phrase) - 1) :
                 x = SubSeq(phrase, 1, first - 1) \o SubSeq(phrase, last + 1, Len(phrase))
<1> DEFINE n == Len(phrase)
           Cut(k, m) == SubSeq(phrase, 1, k) \o SubSeq(phrase, m + 1, n)
<1>0. n \in Nat
  OBVIOUS
<1>a. MiddleRemoved(phrase) = {Cut(p[2], p[1] + p[2]) : p \in {q \in (1..n) \X (1..n) : q[1] + q[2] < n}}
  BY DEF MiddleRemoved, FirstWords, OtherWords
<1> HIDE DEF Cut, n
<1>1. \A x : x \in MiddleRemoved(phrase) <=>
          \E r, k \in 1..n : r + k < n /\ x = Cut(k, r + k)
  <2>1. ASSUME NEW x \in MiddleRemoved(phrase)
        PROVE  \E r, k \in 1..n : r + k < n /\ x = Cut(k, r + k)
    <3>1. PICK p \in (1..n) \X (1..n) : p[1] + p[2] < n /\ x = Cut(p[2], p[1] + p[2])
      BY <1>a
    <3>2. p[1] \in 1..n /\ p[2] \in 1..n
      OBVIOUS
    <3> QED BY <3>1, <3>2
  <2>2. ASSUME NEW r \in 1..n, NEW k \in 1..n, r + k < n PROVE Cut(k, r + k) \in MiddleRemoved(phrase)
    <3> DEFINE p == <<r, k>>
    <3>1. p \in (1..n) \X (1..n) /\ p[1] = r /\ p[2] = k
      OBVIOUS
    <3> HIDE DEF p
    <3> QED BY <1>a, <2>2, <3>1
  <2> QED BY <2>1, <2>2
<1>2. ASSUME NEW r \in 1..n, NEW k \in 1..n, r + k < n
      PROVE  \E first \in 2..(n - 1) : \E last \in first..(n - 1) : Cut(k, r + k) = Cut(first - 1, last)
  <2>1. k + 1 \in 2..(n - 1) /\ r + k \in (k + 1)..(n - 1) /\ k + 1 - 1 = k
    BY <1>0, <1>2
  <2> QED BY <2>1
<1>3. ASSUME NEW first \in 2..(n - 1), NEW last \in first..(n - 1)
      PROVE  \E r, k \in 1..n : r + k < n /\ Cut(k, r + k) = Cut(first - 1, last)
  <2> DEFINE k == first - 1
             r == last - k
  <2>1. k \in 1..n /\ r \in 1..n /\ r + k = last /\ last < n
    BY <1>0
  <2> HIDE DEF r
  <2> QED BY <2>1
<1>4. \A x : x \in MiddleRemoved(phrase) <=>
          \E first \in 2..(n - 1) : \E last \in first..(n - 1) : x = Cut(first - 1, last)
  BY <1>1, <1>2, <1>3
<1> QED BY <1>4 DEF Cut, n
=============================================================================
