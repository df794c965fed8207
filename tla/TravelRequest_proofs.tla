------------------------ MODULE TravelRequest_proofs ------------------------
(***************************************************************************)
(* Proofs about TravelRequest, for any queries, indexes and dictionaries.  *)
(***************************************************************************)
EXTENDS TravelRequest, QuerySlices_proofs

(***************************************************************************)
(* A recursive function on 0..n, each value made from the one before.      *)
(***************************************************************************)
Recursion(n, base, step, f) == f = [i \in 0..n |-> IF i = 0 THEN base ELSE step[<<i, f[i - 1]>>]]

Unfolds(D, n, base, step, f) ==
    /\ f \in [0..n -> D] /\ f[0] = base
    /\ \A i \in 1..n : f[i] = step[<<i, f[i - 1]>>]

LEMMA RecursionExists ==
  ASSUME NEW D, NEW base \in D, NEW n \in Nat, NEW step \in [(1..n) \X D -> D]
  PROVE  /\ \E f : Recursion(n, base, step, f)
         /\ \A f : Recursion(n, base, step, f) => Unfolds(D, n, base, step, f)
<1> DEFINE Upto(m, f) == /\ f \in [0..n -> D] /\ f[0] = base
                         /\ \A i \in 1..m : f[i] = step[<<i, f[i - 1]>>]
           T == {m \in 0..n : \E f : Upto(m, f)}
<1>1. 0 \in T
  <2>1. Upto(0, [i \in 0..n |-> base])
    OBVIOUS
  <2> HIDE DEF Upto
  <2>2. 0 \in 0..n
    OBVIOUS
  <2> QED BY <2>1, <2>2
<1>2. ASSUME NEW m \in Nat, m < n, m \in T PROVE m + 1 \in T
  <2>1. PICK f : Upto(m, f)
    <3> HIDE DEF Upto
    <3> QED BY <1>2
  <2> DEFINE v == step[<<m + 1, f[m]>>]
             g == [f EXCEPT ![m + 1] = v]
  <2>2. m \in 0..n /\ m + 1 \in 1..n /\ m + 1 \in 0..n
    <3> HIDE DEF T
    <3> QED BY <1>2
  <2>3. v \in D
    BY <2>1, <2>2
  <2> HIDE DEF v
  <2>4. g \in [0..n -> D] /\ g[0] = base /\ g[m + 1] = v
        /\ \A i \in 0..m : g[i] = f[i]
    <3>1. m + 1 # 0 /\ 0 \in 0..n /\ \A i \in 0..m : i \in 0..n /\ i # m + 1
      BY <2>2
    <3>2. f \in [0..n -> D] /\ f[0] = base
      BY <2>1
    <3> QED BY <2>2, <2>3, <3>1, <3>2
  <2> HIDE DEF g
  <2>5. ASSUME NEW i \in 1..(m + 1) PROVE g[i] = step[<<i, g[i - 1]>>]
    <3>1. CASE i = m + 1
      <4>1. g[i - 1] = f[m]
        BY <2>2, <2>4, <3>1
      <4> QED BY <2>4, <3>1, <4>1 DEF v
    <3>2. CASE i # m + 1
      <4>1. i \in 1..m /\ i \in 0..m /\ i - 1 \in 0..m
        BY <3>2
      <4> QED BY <2>1, <2>4, <4>1
    <3> QED BY <3>1, <3>2
  <2>6. Upto(m + 1, g)
    BY <2>4, <2>5
  <2> HIDE DEF Upto
  <2> QED BY <2>2, <2>6
<1>3. 0..n \subseteq T
  <2> HIDE DEF T
  <2> QED BY <1>1, <1>2, BoundedInduction
<1>4. PICK f : Upto(n, f)
  <2> HIDE DEF Upto
  <2>1. n \in 0..n
    OBVIOUS
  <2> QED BY <1>3, <2>1
<1>5. Recursion(n, base, step, f)
  <2>1. \A i \in 0..n : i = 0 \/ i \in 1..n
    OBVIOUS
  <2>2. f[0] = base /\ \A i \in 1..n : f[i] = step[<<i, f[i - 1]>>]
    BY <1>4
  <2>3. \A i \in 0..n : f[i] = IF i = 0 THEN base ELSE step[<<i, f[i - 1]>>]
    BY <2>1, <2>2
  <2>4. f = [i \in 0..n |-> f[i]]
    BY <1>4
  <2> QED BY <2>3, <2>4 DEF Recursion
<1>6. ASSUME NEW g, Recursion(n, base, step, g)
      PROVE  Unfolds(D, n, base, step, g)
  <2> DEFINE val(i) == IF i = 0 THEN base ELSE step[<<i, g[i - 1]>>]
  <2>a. g = [i \in 0..n |-> val(i)]
    BY <1>6 DEF Recursion
  <2>b. val(0) = base /\ \A i \in 1..n : val(i) = step[<<i, g[i - 1]>>]
    <3>1. \A i \in 1..n : i # 0
      OBVIOUS
    <3> QED BY <3>1
  <2> HIDE DEF val
  <2>c. 0 \in 0..n /\ \A i \in 1..n : i \in 0..n
    OBVIOUS
  <2>1. g = [i \in 0..n |-> g[i]] /\ g[0] = base
    BY <2>a, <2>b, <2>c
  <2>2. \A i \in 1..n : g[i] = step[<<i, g[i - 1]>>]
    BY <2>a, <2>b, <2>c
  <2> DEFINE U == {i \in 0..n : g[i] \in D}
  <2>3. ASSUME NEW m \in Nat, m < n, m \in U PROVE m + 1 \in U
    <3>1. m + 1 \in 1..n /\ m + 1 \in 0..n /\ (m + 1) - 1 = m
      BY <2>3
    <3>2. g[m + 1] = step[<<m + 1, g[m]>>]
      BY <2>2, <3>1
    <3> QED BY <2>3, <3>1, <3>2
  <2>4. 0..n \subseteq U
    <3>1. 0 \in U
      BY <2>1, <2>c
    <3> HIDE DEF U
    <3> QED BY <2>3, <3>1, BoundedInduction
  <2> QED BY <2>1, <2>2, <2>4 DEF Unfolds
<1> QED BY <1>5, <1>6

-----------------------------------------------------------------------------
(***************************************************************************)
(* Picked() takes the elements that pass a test, in their order.           *)
(***************************************************************************)
PickedBy(s, T, f) ==
    f = [i \in 0..Len(s) |->
            IF i = 0 THEN <<>>
            ELSE IF s[i] \in T THEN Append(f[i - 1], s[i]) ELSE f[i - 1]]

Selection(s, T, r) ==
    /\ \E e \in [DOMAIN r -> DOMAIN s] :
          /\ \A k \in DOMAIN r : r[k] = s[e[k]]
          /\ \A j, k \in DOMAIN r : j < k => e[j] < e[k]
    /\ ToSet(r) = ToSet(s) \cap T

Picks(S, s, T, f) ==
    /\ f \in [0..Len(s) -> Seq(S)] /\ f[0] = <<>>
    /\ \A i \in 1..Len(s) : f[i] = IF s[i] \in T THEN Append(f[i - 1], s[i]) ELSE f[i - 1]

LEMMA PickedExists ==
  ASSUME NEW S, NEW s \in Seq(S), NEW T
  PROVE  /\ \E f : PickedBy(s, T, f)
         /\ \A f : PickedBy(s, T, f) => Picks(S, s, T, f)
<1> DEFINE n == Len(s)
           D == Seq(S)
           more(i, r) == IF s[i] \in T THEN Append(r, s[i]) ELSE r
           step == [p \in (1..n) \X D |-> more(p[1], p[2])]
<1>1. n \in Nat /\ \A i \in 1..n : s[i] \in S
  OBVIOUS
<1>2. \A i \in 1..n, r \in D : more(i, r) \in D
  BY <1>1
<1>3. step \in [(1..n) \X D -> D] /\ \A i \in 1..n, r \in D : step[<<i, r>>] = more(i, r)
  <2> HIDE DEF more, D
  <2> QED BY <1>2
<1> HIDE DEF step
<1>4. <<>> \in D
  OBVIOUS
<1>5. /\ \E f : Recursion(n, <<>>, step, f)
      /\ \A f : Recursion(n, <<>>, step, f) =>
                /\ f \in [0..n -> D] /\ f[0] = <<>>
                /\ \A i \in 1..n : f[i] = step[<<i, f[i - 1]>>]
  <2>1. n \in Nat
    BY <1>1
  <2> HIDE DEF n, D
  <2>2. step \in [(1..n) \X D -> D]
    BY <1>3
  <2>3. <<>> \in D
    BY <1>4
  <2> DEFINE base == <<>>
  <2> HIDE DEF base
  <2>4. base \in D
    BY <2>3 DEF base
  <2>5. \E f : Recursion(n, base, step, f)
    BY <2>1, <2>2, <2>4, RecursionExists
  <2>6. ASSUME NEW f, Recursion(n, base, step, f) PROVE Unfolds(D, n, base, step, f)
    BY <2>1, <2>2, <2>4, <2>6, RecursionExists
  <2> QED BY <2>5, <2>6 DEF base, Unfolds
<1>6. ASSUME NEW f, Recursion(n, <<>>, step, f) PROVE PickedBy(s, T, f)
  <2>1. f \in [0..n -> D] /\ f[0] = <<>> /\ \A i \in 1..n : f[i] = step[<<i, f[i - 1]>>]
    BY <1>5, <1>6
  <2>2. \A i \in 0..n : f[i] = IF i = 0 THEN <<>> ELSE more(i, f[i - 1])
    <3> SUFFICES ASSUME NEW i \in 0..n, i # 0 PROVE f[i] = more(i, f[i - 1])
      BY <2>1
    <3>1. i \in 1..n /\ i - 1 \in 0..n
      BY <1>1
    <3>2. f[i - 1] \in D /\ f[i] = step[<<i, f[i - 1]>>]
      BY <2>1, <3>1
    <3> HIDE DEF more, D
    <3> QED BY <1>3, <3>1, <3>2
  <2> QED BY <2>1, <2>2 DEF PickedBy
<1>7. ASSUME NEW f, PickedBy(s, T, f) PROVE Picks(S, s, T, f)
  <2> DEFINE val(i) == IF i = 0 THEN <<>> ELSE more(i, f[i - 1])
  <2>a. f = [i \in 0..n |-> val(i)]
    BY <1>7 DEF PickedBy
  <2>b. val(0) = <<>> /\ \A i \in 1..n : val(i) = more(i, f[i - 1])
    OBVIOUS
  <2> HIDE DEF val, more
  <2>c. 0 \in 0..n /\ \A i \in 1..n : i \in 0..n
    BY <1>1
  <2>1. f = [i \in 0..n |-> f[i]] /\ f[0] = <<>>
    <3> HIDE DEF n
    <3> QED BY <2>a, <2>b, <2>c
  <2>2. ASSUME NEW i \in 1..n PROVE f[i] = more(i, f[i - 1])
    <3> HIDE DEF n
    <3> QED BY <2>a, <2>b, <2>c
  <2> DEFINE U == {i \in 0..n : f[i] \in D}
  <2>3. ASSUME NEW m \in Nat, m < n, m \in U PROVE m + 1 \in U
    <3>1. m + 1 \in 1..n /\ m + 1 \in 0..n /\ (m + 1) - 1 = m
      BY <1>1, <2>3
    <3>2. f[m + 1] = more(m + 1, f[m]) /\ f[m] \in D
      BY <2>2, <2>3, <3>1
    <3> HIDE DEF more, D
    <3> QED BY <1>2, <3>1, <3>2
  <2>4. 0..n \subseteq U
    <3>1. 0 \in U
      <4> HIDE DEF D, n
      <4> QED BY <1>4, <2>1, <2>c
    <3> HIDE DEF U, n
    <3> QED BY <1>1, <2>3, <3>1, BoundedInduction
  <2>5. f \in [0..n -> D]
    <3> HIDE DEF D, n
    <3> QED BY <2>1, <2>4
  <2> QED BY <2>1, <2>2, <2>5 DEF Picks, more
<1> QED BY <1>5, <1>6, <1>7

\* e says where the elements of r, the ones in T of the first i, come from
Embeds(s, T, i, r, e) ==
    /\ e \in [1..Len(r) -> 1..i]
    /\ \A k \in 1..Len(r) : r[k] = s[e[k]] /\ r[k] \in T
    /\ \A j, k \in 1..Len(r) : j < k => e[j] < e[k]
    /\ \A j \in 1..i : s[j] \in T => \E k \in 1..Len(r) : e[k] = j

LEMMA PickedSelects ==
  ASSUME NEW S, NEW s \in Seq(S), NEW T, NEW f, PickedBy(s, T, f)
  PROVE  f[Len(s)] \in Seq(S) /\ Selection(s, T, f[Len(s)])
<1> DEFINE n == Len(s)
           U == {i \in 0..n : \E e : Embeds(s, T, i, f[i], e)}
<1>1. /\ f \in [0..n -> Seq(S)] /\ f[0] = <<>>
      /\ \A i \in 1..n : f[i] = IF s[i] \in T THEN Append(f[i - 1], s[i]) ELSE f[i - 1]
  <2>1. Picks(S, s, T, f)
    BY PickedExists
  <2> QED BY <2>1 DEF Picks
<1>2. n \in Nat /\ \A i \in 1..n : s[i] \in S
  OBVIOUS
<1>3. 0 \in U
  <2>1. Embeds(s, T, 0, <<>>, <<>>)
    BY DEF Embeds
  <2>2. 0 \in 0..n
    BY <1>2
  <2> HIDE DEF n
  <2> QED BY <1>1, <2>1, <2>2
<1> HIDE DEF n
<1>4. ASSUME NEW m \in Nat, m < n, m \in U PROVE m + 1 \in U
  <2> DEFINE i == m + 1
             r == f[m]
  <2>1. i \in 1..n /\ i - 1 = m /\ m \in 0..n /\ i \in 0..n
    <3> HIDE DEF U
    <3> QED BY <1>2, <1>4
  <2>2. PICK e : Embeds(s, T, m, r, e)
    BY <1>4
  <2>3. f[i] = IF s[i] \in T THEN Append(r, s[i]) ELSE r
    <3>1. f[i] = IF s[i] \in T THEN Append(f[i - 1], s[i]) ELSE f[i - 1]
      <4> HIDE DEF i
      <4> QED BY <1>1, <2>1
    <3> HIDE DEF i
    <3> QED BY <2>1, <3>1
  <2>4. r \in Seq(S) /\ s[i] \in S
    <3> HIDE DEF i
    <3> QED BY <1>1, <1>2, <2>1
  <2>5. Len(r) \in Nat /\ \A j \in 1..i : j = i \/ j \in 1..m
    BY <1>4, <2>4
  <2> HIDE DEF r
  <2>6. CASE s[i] \in T
    <3> DEFINE x == s[i]
               q == Append(r, x)
               g == [k \in 1..(Len(r) + 1) |-> IF k = Len(r) + 1 THEN i ELSE e[k]]
    <3>1. x \in S
      BY <2>4
    <3> HIDE DEF x
    <3>2. /\ Len(q) = Len(r) + 1 /\ q[Len(r) + 1] = x
          /\ \A k \in 1..Len(r) : q[k] = r[k]
      BY <2>4, <3>1
    <3> HIDE DEF q
    <3>3. \A k \in 1..(Len(r) + 1) : k = Len(r) + 1 \/ k \in 1..Len(r)
      BY <2>5
    <3>4. /\ Len(r) + 1 \in 1..(Len(r) + 1) /\ g[Len(r) + 1] = i
          /\ \A k \in 1..Len(r) : k \in 1..(Len(r) + 1) /\ g[k] = e[k]
      BY <2>5
    <3>5. g \in [1..(Len(r) + 1) -> 1..i]
      <4>1. \A k \in 1..Len(r) : e[k] \in 1..i
        BY <1>4, <2>2 DEF Embeds
      <4>2. i \in 1..i
        BY <2>1, <1>2
      <4> QED BY <3>3, <4>1, <4>2
    <3> HIDE DEF g
    <3>6. \A k \in 1..(Len(r) + 1) : q[k] = s[g[k]] /\ q[k] \in T
      <4>1. q[Len(r) + 1] = s[g[Len(r) + 1]] /\ q[Len(r) + 1] \in T
        BY <2>6, <3>2, <3>4 DEF x
      <4>2. \A k \in 1..Len(r) : r[k] = s[e[k]] /\ r[k] \in T
        BY <2>2 DEF Embeds
      <4> QED BY <3>2, <3>3, <3>4, <4>1, <4>2
    <3>7. \A j, k \in 1..(Len(r) + 1) : j < k => g[j] < g[k]
      <4> SUFFICES ASSUME NEW j \in 1..(Len(r) + 1), NEW k \in 1..(Len(r) + 1), j < k
                   PROVE  g[j] < g[k]
        OBVIOUS
      <4>1. j \in 1..Len(r)
        BY <2>5
      <4>2. e[j] \in 1..m /\ \A l \in 1..Len(r) : j < l => e[j] < e[l]
        BY <2>2, <4>1 DEF Embeds
      <4>3. e[j] < i
        BY <1>4, <4>2
      <4>4. CASE k = Len(r) + 1
        <5> HIDE DEF i
        <5> QED BY <3>4, <4>1, <4>3, <4>4
      <4>5. CASE k \in 1..Len(r)
        <5> HIDE DEF i
        <5> QED BY <3>4, <4>1, <4>2, <4>5
      <4> QED BY <3>3, <4>4, <4>5
    <3>8. \A j \in 1..i : s[j] \in T => \E k \in 1..(Len(r) + 1) : g[k] = j
      <4>1. \A j \in 1..m : s[j] \in T => \E k \in 1..Len(r) : e[k] = j
        BY <2>2 DEF Embeds
      <4> HIDE DEF i
      <4> QED BY <2>5, <3>4, <4>1
    <3>9. Embeds(s, T, i, q, g)
      <4> HIDE DEF i
      <4> QED BY <3>2, <3>5, <3>6, <3>7, <3>8 DEF Embeds
    <3>10. f[i] = q
      BY <2>3, <2>6 DEF q, x
    <3> HIDE DEF i
    <3> QED BY <2>1, <3>9, <3>10 DEF i
  <2>7. CASE s[i] \notin T
    <3>1. e \in [1..Len(r) -> 1..i]
      <4>1. 1..m \subseteq 1..i
        BY <1>4
      <4>2. e \in [1..Len(r) -> 1..m]
        BY <2>2 DEF Embeds
      <4> HIDE DEF i
      <4> QED BY <4>1, <4>2
    <3>2. Embeds(s, T, i, r, e)
      <4>1. /\ \A k \in 1..Len(r) : r[k] = s[e[k]] /\ r[k] \in T
            /\ \A j, k \in 1..Len(r) : j < k => e[j] < e[k]
            /\ \A j \in 1..m : s[j] \in T => \E k \in 1..Len(r) : e[k] = j
        BY <2>2 DEF Embeds
      <4> HIDE DEF i
      <4>2. \A j \in 1..i : s[j] \in T => \E k \in 1..Len(r) : e[k] = j
        BY <2>5, <2>7, <4>1
      <4> QED BY <3>1, <4>1, <4>2 DEF Embeds
    <3>3. f[i] = r
      BY <2>3, <2>7
    <3> HIDE DEF i
    <3> QED BY <2>1, <3>2, <3>3 DEF i
  <2> QED BY <2>6, <2>7
<1>5. 0..n \subseteq U
  <2> HIDE DEF U
  <2> QED BY <1>2, <1>3, <1>4, BoundedInduction
<1> DEFINE r == f[n]
<1>6. n \in 0..n
  BY <1>2
<1>7. PICK e : Embeds(s, T, n, r, e)
  BY <1>5, <1>6
<1>8. r \in Seq(S)
  BY <1>1, <1>6
<1> HIDE DEF r
<1>9. DOMAIN r = 1..Len(r) /\ DOMAIN s = 1..n
  BY <1>8 DEF n
<1>10. ToSet(r) = ToSet(s) \cap T
  <2>1. /\ e \in [1..Len(r) -> 1..n]
        /\ \A k \in 1..Len(r) : r[k] = s[e[k]] /\ r[k] \in T
        /\ \A j \in 1..n : s[j] \in T => \E k \in 1..Len(r) : e[k] = j
    BY <1>7 DEF Embeds
  <2>2. ToSet(r) \subseteq ToSet(s) \cap T
    BY <1>9, <2>1 DEF ToSet
  <2>3. ToSet(s) \cap T \subseteq ToSet(r)
    BY <1>9, <2>1 DEF ToSet
  <2> QED BY <2>2, <2>3
<1>11. Selection(s, T, r)
  BY <1>7, <1>9, <1>10 DEF Selection, Embeds
<1> QED BY <1>8, <1>11 DEF r, n

-----------------------------------------------------------------------------
(***************************************************************************)
(* The elements of a sequence are ordered by a relation.                   *)
(***************************************************************************)
Ordered(R, s) == \A j, k \in DOMAIN s : j < k => <<s[j], s[k]>> \in R
Ahead(R, s, t) == \A x \in ToSet(s), y \in ToSet(t) : <<x, y>> \in R

LEMMA OrderedConcat ==
  ASSUME NEW S, NEW R, NEW s \in Seq(S), NEW t \in Seq(S)
  PROVE  Ordered(R, s \o t) <=> Ordered(R, s) /\ Ordered(R, t) /\ Ahead(R, s, t)
<1> DEFINE u == s \o t
           m == Len(s)
           n == Len(t)
<1>1. /\ u \in Seq(S) /\ Len(u) = m + n
      /\ \A i \in 1..(m + n) : u[i] = IF i <= m THEN s[i] ELSE t[i - m]
  BY ConcatProperties
<1>2. DOMAIN u = 1..(m + n) /\ DOMAIN s = 1..m /\ DOMAIN t = 1..n /\ m \in Nat /\ n \in Nat
  BY <1>1, LenProperties
<1> HIDE DEF u, m, n
<1>3. /\ \A i \in 1..m : i \in 1..(m + n) /\ u[i] = s[i]
      /\ \A i \in 1..n : m + i \in 1..(m + n) /\ u[m + i] = t[i]
  <2>1. ASSUME NEW i \in 1..m PROVE i \in 1..(m + n) /\ u[i] = s[i]
    <3>1. i \in 1..(m + n) /\ i <= m
      BY <1>2
    <3> QED BY <1>1, <3>1
  <2>2. ASSUME NEW i \in 1..n PROVE m + i \in 1..(m + n) /\ u[m + i] = t[i]
    <3> DEFINE j == m + i
    <3>1. j \in 1..(m + n) /\ ~ (j <= m) /\ j - m = i
      BY <1>2
    <3> HIDE DEF j
    <3>2. u[j] = t[i]
      BY <1>1, <3>1
    <3> QED BY <3>1, <3>2 DEF j
  <2> QED BY <2>1, <2>2
<1>4. \A i \in 1..(m + n) : i \in 1..m \/ \E j \in 1..n : i = m + j
  <2> SUFFICES ASSUME NEW i \in 1..(m + n), i \notin 1..m PROVE \E j \in 1..n : i = m + j
    OBVIOUS
  <2>1. i - m \in 1..n /\ i = m + (i - m)
    BY <1>2
  <2> QED BY <2>1
<1>5. ASSUME Ordered(R, u) PROVE Ordered(R, s) /\ Ordered(R, t) /\ Ahead(R, s, t)
  <2>0. \A j, k \in 1..(m + n) : j < k => <<u[j], u[k]>> \in R
    BY <1>2, <1>5 DEF Ordered
  <2>1. Ordered(R, s)
    <3> SUFFICES ASSUME NEW j \in 1..m, NEW k \in 1..m, j < k PROVE <<s[j], s[k]>> \in R
      BY <1>2 DEF Ordered
    <3> QED BY <1>3, <2>0
  <2>2. Ordered(R, t)
    <3> SUFFICES ASSUME NEW j \in 1..n, NEW k \in 1..n, j < k PROVE <<t[j], t[k]>> \in R
      BY <1>2 DEF Ordered
    <3>1. m + j < m + k
      BY <1>2
    <3> QED BY <1>3, <2>0, <3>1
  <2>3. Ahead(R, s, t)
    <3> SUFFICES ASSUME NEW j \in 1..m, NEW k \in 1..n PROVE <<s[j], t[k]>> \in R
      BY <1>2 DEF Ahead, ToSet
    <3>1. j < m + k
      BY <1>2
    <3> QED BY <1>3, <2>0, <3>1
  <2> QED BY <2>1, <2>2, <2>3
<1>6. ASSUME Ordered(R, s), Ordered(R, t), Ahead(R, s, t) PROVE Ordered(R, u)
  <2>1. /\ \A j, k \in 1..m : j < k => <<s[j], s[k]>> \in R
        /\ \A j, k \in 1..n : j < k => <<t[j], t[k]>> \in R
        /\ \A j \in 1..m, k \in 1..n : <<s[j], t[k]>> \in R
    BY <1>2, <1>6 DEF Ordered, Ahead, ToSet
  <2> SUFFICES ASSUME NEW j \in 1..(m + n), NEW k \in 1..(m + n), j < k
               PROVE  <<u[j], u[k]>> \in R
    BY <1>2 DEF Ordered
  <2>2. CASE j \in 1..m /\ k \in 1..m
    BY <1>3, <2>1, <2>2
  <2>3. CASE j \in 1..m /\ k \notin 1..m
    <3>1. PICK l \in 1..n : k = m + l
      BY <1>4, <2>3
    <3> QED BY <1>3, <2>1, <2>3, <3>1
  <2>4. CASE j \notin 1..m
    <3>1. PICK i \in 1..n : j = m + i
      BY <1>4, <2>4
    <3>2. k \notin 1..m
      BY <1>2, <2>4
    <3>3. PICK l \in 1..n : k = m + l
      BY <1>4, <3>2
    <3>4. i < l
      BY <1>2, <3>1, <3>3
    <3> QED BY <1>3, <2>1, <3>1, <3>3, <3>4
  <2> QED BY <2>2, <2>3, <2>4
<1> QED BY <1>5, <1>6 DEF u

LEMMA OrderedAppendOf ==
  ASSUME NEW S, NEW seqs \in Seq(S), NEW x \in S
  PROVE  LET more == Append(seqs, x)
         IN  /\ Len(more) = Len(seqs) + 1 /\ more[Len(seqs) + 1] = x
             /\ DOMAIN more = 1..(Len(seqs) + 1) /\ DOMAIN seqs = 1..Len(seqs) /\ Len(seqs) \in Nat
             /\ \A k \in 1..Len(seqs) : more[k] = seqs[k]
  OBVIOUS

(***************************************************************************)
(* A concatenation of sequences is ordered when each of them is, and its   *)
(* elements come before those of the next ones; and the other way round.   *)
(***************************************************************************)
OrderedParts(R, seqs) ==
    /\ \A k \in DOMAIN seqs : Ordered(R, seqs[k])
    /\ \A j, k \in DOMAIN seqs : j < k => Ahead(R, seqs[j], seqs[k])

LEMMA OrderedFlatten ==
  ASSUME NEW S, NEW R, NEW seqs \in Seq(Seq(S))
  PROVE  Ordered(R, FlattenSeq(seqs)) <=> OrderedParts(R, seqs)
<1> DEFINE T == {s \in Seq(Seq(S)) : Ordered(R, FlattenSeq(s)) <=> OrderedParts(R, s)}
<1>1. <<>> \in T
  <2>1. <<>> \in Seq(Seq(S))
    OBVIOUS
  <2> QED BY <2>1, FlattenEmpty DEF Ordered, OrderedParts
<1>2. ASSUME NEW s \in Seq(Seq(S)), NEW y \in Seq(S), s \in T PROVE Append(s, y) \in T
  <2> DEFINE more == Append(s, y)
             m == Len(s)
  <2>1. FlattenSeq(more) = FlattenSeq(s) \o y /\ FlattenSeq(s) \in Seq(S)
    BY FlattenAppend
  <2>2. more \in Seq(Seq(S))
    BY AppendProperties
  <2>3. ToSet(FlattenSeq(s)) = UNION {ToSet(x) : x \in ToSet(s)}
    BY FlattenElements
  <2>4. Ordered(R, FlattenSeq(s)) <=> OrderedParts(R, s)
    BY <1>2
  <2>5. Ordered(R, FlattenSeq(more))
            <=> Ordered(R, FlattenSeq(s)) /\ Ordered(R, y) /\ Ahead(R, FlattenSeq(s), y)
    <3>1. FlattenSeq(s) \in Seq(S) /\ y \in Seq(S)
      BY <2>1
    <3> HIDE DEF more
    <3> QED BY <2>1, <3>1, OrderedConcat
  <2>6. Ahead(R, FlattenSeq(s), y) <=> \A k \in 1..m : Ahead(R, s[k], y)
    <3>1. DOMAIN s = 1..m
      OBVIOUS
    <3>2. \A z : z \in ToSet(FlattenSeq(s)) <=> \E k \in 1..m : z \in ToSet(s[k])
      <4>1. \A z : z \in ToSet(s) <=> \E k \in 1..m : z = s[k]
        BY <3>1 DEF ToSet
      <4> QED BY <2>3, <4>1
    <3> QED BY <3>2 DEF Ahead
  <2>7. /\ Len(more) = m + 1 /\ more[m + 1] = y /\ DOMAIN more = 1..(m + 1)
        /\ DOMAIN s = 1..m /\ m \in Nat /\ \A k \in 1..m : more[k] = s[k]
    <3> HIDE DEF more
    <3>1. s \in Seq(Seq(S)) /\ y \in Seq(S)
      OBVIOUS
    <3> DEFINE P == Seq(S)
    <3> HIDE DEF P
    <3>2. s \in Seq(P) /\ y \in P
      BY <3>1 DEF P
    <3> QED BY <3>2, OrderedAppendOf DEF more
  <2> HIDE DEF more, m
  <2>8. \A k \in 1..(m + 1) : k = m + 1 \/ k \in 1..m
    BY <2>7
  <2>9. m + 1 \in 1..(m + 1) /\ \A k \in 1..m : k \in 1..(m + 1) /\ k < m + 1
    BY <2>7
  <2>10. (\A k \in 1..(m + 1) : Ordered(R, more[k]))
            <=> (\A k \in 1..m : Ordered(R, s[k])) /\ Ordered(R, y)
    BY <2>7, <2>8, <2>9
  <2>11. (\A j, k \in 1..(m + 1) : j < k => Ahead(R, more[j], more[k]))
            <=> /\ \A j, k \in 1..m : j < k => Ahead(R, s[j], s[k])
                /\ \A j \in 1..m : Ahead(R, s[j], y)
    <3>1. ASSUME \A j, k \in 1..(m + 1) : j < k => Ahead(R, more[j], more[k])
          PROVE  /\ \A j, k \in 1..m : j < k => Ahead(R, s[j], s[k])
                 /\ \A j \in 1..m : Ahead(R, s[j], y)
      <4>1. \A j, k \in 1..m : j < k => Ahead(R, s[j], s[k])
        BY <2>7, <2>9, <3>1
      <4>2. \A j \in 1..m : Ahead(R, s[j], y)
        BY <2>7, <2>9, <3>1
      <4> QED BY <4>1, <4>2
    <3>2. ASSUME \A j, k \in 1..m : j < k => Ahead(R, s[j], s[k]),
                 \A j \in 1..m : Ahead(R, s[j], y),
                 NEW j \in 1..(m + 1), NEW k \in 1..(m + 1), j < k
          PROVE  Ahead(R, more[j], more[k])
      <4>1. j \in 1..m
        BY <2>7, <3>2
      <4> QED BY <2>7, <2>8, <3>2, <4>1
    <3> QED BY <3>1, <3>2
  <2>12. OrderedParts(R, more)
            <=> OrderedParts(R, s) /\ Ordered(R, y) /\ \A k \in 1..m : Ahead(R, s[k], y)
    BY <2>7, <2>10, <2>11 DEF OrderedParts
  <2>13. Ordered(R, FlattenSeq(more)) <=> OrderedParts(R, more)
    BY <2>4, <2>5, <2>6, <2>12
  <2>14. more \in T
    BY <2>2, <2>13
  <2> QED BY <2>14 DEF more
<1> HIDE DEF T
<1>3. Seq(Seq(S)) \subseteq T
  BY <1>1, <1>2, SeqInduction
<1> QED BY <1>3 DEF T

-----------------------------------------------------------------------------
(***************************************************************************)
(* The loops that keep the first element with the highest weight.          *)
(***************************************************************************)
FirstHighest(n, scores, b) ==
    /\ b \in 0..n
    /\ b = 0 => \A j \in 1..n : ~ IsPositive(scores[j])
    /\ b # 0 => /\ IsPositive(scores[b])
                /\ \A j \in 1..n : scores[j] <= scores[b]

LEMMA LeastIs ==
  ASSUME NEW T \in SUBSET Nat, T # {}
  PROVE  Min(T) \in T /\ \A m \in T : Min(T) <= m
<1>1. \E n \in T : \A m \in T : n <= m
  BY LeastNumber
<1> QED BY <1>1 DEF Min

LEMMA FirstBestIs ==
  ASSUME NEW n \in Nat, NEW scores \in [1..n -> Int]
  PROVE  FirstHighest(n, scores, FirstBest(scores))
<1> DEFINE some == {i \in 1..n : IsPositive(scores[i])}
           Highest(m, j) == j \in some /\ \A k \in 1..m : k \in some => scores[k] <= scores[j]
           T == {m \in 0..n : (\E k \in 1..m : k \in some) => \E j \in 1..m : Highest(m, j)}
           first == {i \in some : \A j \in some : scores[j] <= scores[i]}
<1>0. DOMAIN scores = 1..n
  OBVIOUS
<1>1. FirstBest(scores) = IF some = {} THEN 0 ELSE Min(first)
  BY <1>0 DEF FirstBest
<1>2. \A i \in 1..n : scores[i] \in Int /\ (i \notin some => scores[i] <= -500000)
                      /\ (i \in some => scores[i] > -500000)
  BY DEF IsPositive, Zero
<1>3. some \subseteq 1..n
  OBVIOUS
<1> HIDE DEF some
<1>4. 0 \in T
  OBVIOUS
<1>5. ASSUME NEW m \in Nat, m < n, m \in T PROVE m + 1 \in T
  <2>1. m + 1 \in 1..n /\ m + 1 \in 0..n /\ \A k \in 1..(m + 1) : k \in 1..n /\ (k = m + 1 \/ k \in 1..m)
    BY <1>5
  <2> SUFFICES ASSUME NEW k \in 1..(m + 1), k \in some PROVE \E j \in 1..(m + 1) : Highest(m + 1, j)
    BY <2>1
  <2>2. CASE m + 1 \notin some
    <3>1. k \in 1..m
      BY <2>1, <2>2
    <3>2. PICK j \in 1..m : Highest(m, j)
      BY <1>5, <3>1
    <3>3. Highest(m + 1, j)
      BY <2>1, <2>2, <3>2
    <3>4. j \in 1..(m + 1)
      OBVIOUS
    <3> QED BY <3>3, <3>4
  <2>3. CASE m + 1 \in some /\ \E j \in 1..m : Highest(m, j)
    <3>1. PICK j \in 1..m : Highest(m, j)
      BY <2>3
    <3>2. scores[j] \in Int /\ scores[m + 1] \in Int /\ j \in 1..(m + 1) /\ m + 1 \in 1..(m + 1)
      BY <1>2, <2>1
    <3>3. CASE scores[m + 1] <= scores[j]
      <4>1. Highest(m + 1, j)
        BY <2>1, <3>1, <3>3
      <4> QED BY <3>2, <4>1
    <3>4. CASE ~ (scores[m + 1] <= scores[j])
      <4>1. \A i \in 1..m : i \in some => scores[i] <= scores[m + 1]
        BY <1>2, <1>3, <3>1, <3>2, <3>4
      <4>2. Highest(m + 1, m + 1)
        BY <2>1, <2>3, <3>2, <4>1
      <4> QED BY <3>2, <4>2
    <3> QED BY <3>3, <3>4
  <2>4. CASE m + 1 \in some /\ ~ \E j \in 1..m : Highest(m, j)
    <3>1. \A i \in 1..m : i \notin some
      BY <1>5, <2>4
    <3>2. scores[m + 1] \in Int /\ m + 1 \in 1..(m + 1)
      BY <1>2, <2>1
    <3>3. Highest(m + 1, m + 1)
      BY <2>1, <2>4, <3>1, <3>2
    <3> QED BY <3>2, <3>3
  <2> QED BY <2>2, <2>3, <2>4
<1>6. 0..n \subseteq T
  <2> HIDE DEF T
  <2> QED BY <1>4, <1>5, BoundedInduction
<1>7. CASE some = {}
  BY <1>1, <1>7, <1>2 DEF FirstHighest, IsPositive, Zero
<1>8. CASE some # {}
  <2>1. PICK j \in 1..n : Highest(n, j)
    <3>0. n \in 0..n
      OBVIOUS
    <3>1. n \in 0..n /\ \E k \in 1..n : k \in some
      <4> HIDE DEF T
      <4> QED BY <1>3, <1>8, <3>0
    <3>2. n \in T
      BY <1>6, <3>1
    <3> QED BY <3>1, <3>2
  <2>2. j \in first
    BY <1>3, <2>1
  <2>3. first \in SUBSET Nat /\ first # {}
    <3>1. some \subseteq Nat
      BY <1>3
    <3>2. first \subseteq some
      OBVIOUS
    <3> HIDE DEF first
    <3> QED BY <2>2, <3>1, <3>2
  <2> DEFINE b == Min(first)
  <2>4. b \in first
    <3> HIDE DEF first
    <3> QED BY <2>3, LeastIs
  <2> HIDE DEF b
  <2>5. b \in some /\ b \in 1..n /\ \A i \in some : scores[i] <= scores[b]
    BY <1>3, <2>4
  <2>6. \A i \in 1..n : scores[i] <= scores[b]
    BY <1>2, <2>5
  <2>7. FirstBest(scores) = b
    BY <1>1, <1>8 DEF b
  <2>8. FirstHighest(n, scores, b)
    <3>1. IsPositive(scores[b])
      BY <2>5 DEF some
    <3>2. b \in 0..n /\ b # 0
      BY <2>5
    <3> QED BY <2>6, <3>1, <3>2 DEF FirstHighest
  <2> QED BY <2>7, <2>8
<1> QED BY <1>7, <1>8

-----------------------------------------------------------------------------
(***************************************************************************)
(* The documents a phrase matches, the most relevant ones first.           *)
(***************************************************************************)
LEMMA IndexIs ==
  ASSUME index \in Indexes
  PROVE  /\ index \in Seq(ToSet(index))
         /\ \A d \in ToSet(index) : Document(d)
         /\ \A i, j \in DOMAIN index :
                i < j => index[i].relevance >= index[j].relevance /\ index[i].id # index[j].id
  BY RequestAssumption DEF RequestAssumption, Index

LEMMA DocumentIs ==
  ASSUME NEW d, Document(d)
  PROVE  /\ d.relevance \in Int /\ d.relevance <= 0 /\ -2000 <= d.relevance
         /\ d.rank \in Int /\ d.rank <= 0 /\ d.expired \in BOOLEAN
         /\ d.text \in Seq(Word)
<1> DEFINE r == d.relevance
<1>1. r \in -2000..0
  BY DEF Document
<1> HIDE DEF r
<1>2. r \in Int /\ r <= 0 /\ -2000 <= r
  BY <1>1
<1>3. d.rank \in Int /\ d.rank <= 0 /\ d.expired \in BOOLEAN /\ d.text \in Seq(Word)
  BY DEF Document
<1> QED BY <1>2, <1>3 DEF r

MatchingOf(phrase, docs) ==
    /\ docs \in Seq(ToSet(index))
    /\ \A i \in DOMAIN docs : Holds(docs[i], phrase)
    /\ docs # <<>> <=> IsKnown(phrase)
    /\ \A i \in DOMAIN docs : docs[i].relevance <= docs[1].relevance

LEMMA MatchingIs ==
  ASSUME index \in Indexes, NEW phrase
  PROVE  MatchingOf(phrase, Matching(phrase))
<1> DEFINE S == ToSet(index)
           T == {d \in S : Holds(d, phrase)}
           Is(f) == f = [i \in 0..Len(index) |->
                            IF i = 0 THEN <<>>
                            ELSE IF Holds(index[i], phrase) THEN Append(f[i - 1], index[i]) ELSE f[i - 1]]
           some == CHOOSE f : Is(f)
           all == some[Len(index)]
           m == Min({Len(all), MatchingSetSize})
<1>1. index \in Seq(S)
  BY IndexIs
<1>2. Matching(phrase) = SubSeq(all, 1, m)
  BY DEF Matching, Picked
<1>3. Len(index) \in Nat /\ DOMAIN index = 1..Len(index)
  BY <1>1
<1>4. \A i \in 0..Len(index) : i = 0 \/ (i \in 1..Len(index) /\ index[i] \in S)
  BY <1>3 DEF ToSet
<1>5. \A i \in 0..Len(index) : i # 0 => (Holds(index[i], phrase) <=> index[i] \in T)
  BY <1>4
<1>6. ASSUME NEW f PROVE Is(f) <=> PickedBy(index, T, f)
  <2> DEFINE a(i) == IF i = 0 THEN <<>>
                     ELSE IF Holds(index[i], phrase) THEN Append(f[i - 1], index[i]) ELSE f[i - 1]
             b(i) == IF i = 0 THEN <<>>
                     ELSE IF index[i] \in T THEN Append(f[i - 1], index[i]) ELSE f[i - 1]
  <2>1. \A i \in 0..Len(index) : a(i) = b(i)
    <3> HIDE DEF T, S
    <3> QED BY <1>5
  <2>2. (Is(f) <=> f = [i \in 0..Len(index) |-> a(i)])
        /\ (PickedBy(index, T, f) <=> f = [i \in 0..Len(index) |-> b(i)])
    BY DEF PickedBy
  <2> HIDE DEF a, b, Is, T, S
  <2>3. [i \in 0..Len(index) |-> a(i)] = [i \in 0..Len(index) |-> b(i)]
    BY <2>1
  <2> QED BY <2>2, <2>3
<1>7. PickedBy(index, T, some)
  <2> HIDE DEF Is, T, S
  <2>1. \E f : Is(f)
    BY <1>1, <1>6, PickedExists
  <2>2. Is(some)
    BY <2>1
  <2> QED BY <1>6, <2>2
<1>8. all \in Seq(S) /\ Selection(index, T, all)
  <2> HIDE DEF T, S, some
  <2> QED BY <1>1, <1>7, PickedSelects
<1> HIDE DEF some, all
<1>9. Len(all) \in Nat /\ DOMAIN all = 1..Len(all) /\ \A i \in 1..Len(all) : all[i] \in S
  <2> HIDE DEF S
  <2> QED BY <1>8
<1>10. m \in Nat /\ m <= Len(all) /\ (m = 0 => Len(all) = 0)
  <2>1. MatchingSetSize \in Nat /\ MatchingSetSize # 0
    BY RequestAssumption DEF RequestAssumption
  <2> DEFINE both == {Len(all), MatchingSetSize}
  <2>2. both \in SUBSET Nat /\ both # {}
    BY <1>9, <2>1
  <2>3. Min(both) \in both /\ \A k \in both : Min(both) <= k
    <3> HIDE DEF both
    <3> QED BY <2>2, LeastIs
  <2> QED BY <1>9, <2>1, <2>3
<1> HIDE DEF m, S
<1> DEFINE docs == SubSeq(all, 1, m)
<1>11. docs \in Seq(S) /\ Len(docs) = m /\ \A i \in 1..m : docs[i] = all[i]
  <2>1. docs = [i \in 1..m |-> all[i]]
    <3>1. docs = [i \in 1..(1 + m - 1) |-> all[1 + i - 1]]
      BY <1>10 DEF SubSeq
    <3>2. 1 + m - 1 = m /\ \A i \in 1..m : 1 + i - 1 = i
      BY <1>10
    <3> HIDE DEF docs
    <3> QED BY <3>1, <3>2
  <2>2. \A i \in 1..m : i \in 1..Len(all)
    BY <1>9, <1>10
  <2> HIDE DEF docs
  <2> QED BY <1>9, <1>10, <2>1, <2>2
<1> HIDE DEF docs
<1>12. DOMAIN docs = 1..m /\ \A i \in 1..m : i \in 1..Len(all)
  BY <1>9, <1>10, <1>11
<1>13. ToSet(all) = S \cap T
  <2>1. ToSet(all) = ToSet(index) \cap T
    BY <1>8 DEF Selection
  <2> QED BY <2>1 DEF S
<1>14. \A i \in 1..m : Holds(docs[i], phrase)
  <2> SUFFICES ASSUME NEW i \in 1..m PROVE Holds(docs[i], phrase)
    OBVIOUS
  <2>1. all[i] \in ToSet(all) /\ docs[i] = all[i]
    BY <1>9, <1>11, <1>12 DEF ToSet
  <2>2. all[i] \in T
    BY <1>13, <2>1
  <2> QED BY <2>1, <2>2
<1>15. docs # <<>> <=> IsKnown(phrase)
  <2>1. docs # <<>> <=> Len(all) # 0
    BY <1>9, <1>10, <1>11, EmptySeq
  <2>2. Len(all) # 0 <=> S \cap T # {}
    <3>1. Len(all) # 0 => all[1] \in ToSet(all)
      BY <1>9 DEF ToSet
    <3>2. ASSUME NEW x \in ToSet(all) PROVE Len(all) # 0
      BY <1>9 DEF ToSet
    <3> QED BY <1>13, <3>1, <3>2
  <2>3. IsKnown(phrase) <=> \E d \in S : Holds(d, phrase)
    BY DEF IsKnown, ToSet, S
  <2> QED BY <2>1, <2>2, <2>3
<1>16. ASSUME NEW i \in 1..m PROVE docs[i].relevance <= docs[1].relevance
  <2>1. PICK e \in [DOMAIN all -> DOMAIN index] :
            /\ \A k \in DOMAIN all : all[k] = index[e[k]]
            /\ \A j, k \in DOMAIN all : j < k => e[j] < e[k]
    BY <1>8 DEF Selection
  <2>2. 1 \in 1..m /\ 1 \in 1..Len(all) /\ i \in 1..Len(all)
    BY <1>9, <1>10, <1>12
  <2>3. e[i] \in DOMAIN index /\ e[1] \in DOMAIN index /\ docs[i] = index[e[i]] /\ docs[1] = index[e[1]]
    BY <1>9, <1>11, <2>1, <2>2
  <2>4. i = 1 \/ 1 < i
    OBVIOUS
  <2>5. CASE i = 1
    <3>1. index[e[1]] \in ToSet(index)
      BY <2>3 DEF ToSet
    <3>2. index[e[1]].relevance \in Int
      BY <3>1, IndexIs, DocumentIs
    <3> QED BY <2>3, <2>5, <3>2
  <2>6. CASE 1 < i
    <3>1. e[1] < e[i]
      BY <1>9, <2>1, <2>2, <2>6
    <3>2. index[e[1]].relevance >= index[e[i]].relevance
      BY <2>3, <3>1, IndexIs
    <3>3. index[e[1]] \in ToSet(index) /\ index[e[i]] \in ToSet(index)
      BY <2>3 DEF ToSet
    <3>4. index[e[1]].relevance \in Int /\ index[e[i]].relevance \in Int
      BY <3>3, IndexIs, DocumentIs
    <3> QED BY <2>3, <3>2, <3>4
  <2> QED BY <2>4, <2>5, <2>6
<1>17. MatchingOf(phrase, docs)
  BY <1>11, <1>12, <1>14, <1>15, <1>16 DEF MatchingOf, S
<1> QED BY <1>2, <1>17 DEF docs

\* a document that holds a phrase holds each of its words
LEMMA HoldsEachWord ==
  ASSUME NEW phrase \in Seq(Word), NEW i \in DOMAIN phrase, NEW d, Document(d), Holds(d, phrase)
  PROVE  Holds(d, <<phrase[i]>>)
<1> DEFINE n == Len(phrase)
           t == Len(d.text)
           w == <<phrase[i]>>
<1>1. n \in Nat /\ i \in 1..n /\ t \in Nat
  BY DocumentIs
<1>2. PICK k \in 0..(t - n) : \A j \in DOMAIN phrase : d.text[k + j] = phrase[j]
  BY DEF Holds
<1>3. Len(w) = 1 /\ DOMAIN w = 1..1 /\ w[1] = phrase[i]
  OBVIOUS
<1>4. d.text[k + i] = phrase[i]
  BY <1>2
<1> HIDE DEF n, t, w
<1>5. k + i - 1 \in 0..(t - 1) /\ (k + i - 1) + 1 = k + i
  BY <1>1
<1> DEFINE l == k + i - 1
<1>6. l \in 0..(t - 1) /\ l + 1 = k + i
  BY <1>5
<1> HIDE DEF l
<1>7. \A j \in DOMAIN w : j = 1
  BY <1>3
<1>8. \A j \in DOMAIN w : d.text[l + j] = w[j]
  BY <1>3, <1>4, <1>6, <1>7
<1>9. l \in 0..(Len(d.text) - Len(w))
  BY <1>3, <1>6 DEF t
<1>10. Holds(d, w)
  BY <1>8, <1>9 DEF Holds
<1> QED BY <1>10 DEF w

(***************************************************************************)
(* A word of a phrase found as it is spelled is found on its own.          *)
(***************************************************************************)
LEMMA WordsAreKnown ==
  ASSUME index \in Indexes, NEW phrase \in Seq(Word), NEW i \in DOMAIN phrase,
         Searched(phrase) = phrase, Matching(Searched(phrase)) # <<>>
  PROVE  Matching(Searched(<<phrase[i]>>)) # <<>>
<1>1. IsKnown(phrase)
  BY MatchingIs DEF MatchingOf
<1>2. PICK k \in DOMAIN index : Holds(index[k], phrase)
  BY <1>1 DEF IsKnown
<1>3. Document(index[k])
  BY IndexIs DEF ToSet
<1>4. Holds(index[k], <<phrase[i]>>)
  BY <1>2, <1>3, HoldsEachWord
<1>5. IsKnown(<<phrase[i]>>)
  BY <1>4 DEF IsKnown
<1>6. Searched(<<phrase[i]>>) = <<phrase[i]>>
  BY <1>5 DEF Searched
<1> QED BY <1>5, <1>6, MatchingIs DEF MatchingOf

-----------------------------------------------------------------------------
(***************************************************************************)
(* The slices, once the query has been cut: one after the other.           *)
(***************************************************************************)
Bounds(s) ==
    /\ s.from \in Nat \ {0} /\ s.to \in Nat
    /\ s.from <= s.to + 1 /\ s.to <= Len(query)

LEMMA SlicesBounded ==
  ASSUME Inv, pc = "done"
  PROVE  /\ slices \in Seq(Slice) /\ Len(slices) \in Nat /\ DOMAIN slices = 1..Len(slices)
         /\ \A k \in 1..Len(slices) : slices[k] \in Slice /\ Bounds(slices[k])
<1> DEFINE n == Len(slices)
<1>1. /\ slices \in Seq(Slice) /\ n \in Nat /\ DOMAIN slices = 1..n
      /\ \A k \in 1..n : slices[k] \in Slice
  BY DEF Inv, TypeOK
<1>2. query \in Seq(Word) /\ Len(query) \in Nat
  BY QueryType DEF Inv, TypeOK
<1> HIDE DEF n
<1>3. ASSUME NEW k \in 1..n PROVE Bounds(slices[k])
  <2> DEFINE s == slices[k]
  <2>1. s.from \in Nat /\ s.to \in Nat
    BY <1>1 DEF Slice
  <2>2. s.to <= Len(query) /\ (Len(query) > 0 => ~ IsEmpty(s)) /\ Follows(k)
    BY <1>1 DEF Inv, SlicesInv
  <2>3. s.from = IF k = 1 THEN 1 ELSE slices[k - 1].to + 1
    BY <2>2 DEF Follows
  <2>4. k # 1 => k - 1 \in 1..n
    BY <1>1
  <2>5. k # 1 => slices[k - 1].to \in Nat /\ slices[k - 1].to <= Len(query)
    BY <1>1, <2>4 DEF Slice, Inv, SlicesInv
  <2> DEFINE before == slices[k - 1].to
  <2>6. s.from # 0
    <3> HIDE DEF before, s
    <3>1. s.from = IF k = 1 THEN 1 ELSE before + 1
      BY <2>3 DEF before, s
    <3>2. k # 1 => before \in Nat
      BY <2>5 DEF before
    <3> QED BY <3>1, <3>2
  <2>7. s.from <= s.to + 1
    <3>1. CASE Len(query) > 0
      <4>1. s.from <= s.to
        BY <2>1, <2>2, <3>1 DEF IsEmpty
      <4> HIDE DEF s
      <4> QED BY <2>1, <4>1
    <3>2. CASE ~ (Len(query) > 0)
      <4>1. s.to = 0 /\ (k # 1 => before = 0)
        BY <1>2, <2>1, <2>2, <2>5, <3>2
      <4>2. s.from = 1
        <5> HIDE DEF s
        <5> QED BY <2>3, <4>1 DEF s
      <4> QED BY <4>1, <4>2
    <3> QED BY <3>1, <3>2
  <2> QED BY <2>1, <2>2, <2>6, <2>7 DEF Bounds
<1> QED BY <1>1, <1>3 DEF n

LEMMA SlicesFollow ==
  ASSUME Inv, pc = "done", NEW j \in 1..Len(slices), NEW k \in 1..Len(slices), j < k
  PROVE  slices[j].to < slices[k].from
<1> DEFINE n == Len(slices)
           T == {m \in 0..(n - j) : slices[j].to <= slices[j + m].to}
<1>0. /\ n \in Nat /\ DOMAIN slices = 1..n
      /\ \A i \in 1..n : slices[i].from \in Nat /\ slices[i].to \in Nat
                         /\ slices[i].from <= slices[i].to + 1
  BY SlicesBounded DEF Bounds
<1>1. ASSUME NEW i \in 1..n, i # 1 PROVE slices[i].from = slices[i - 1].to + 1
  BY <1>0, <1>1 DEF Inv, SlicesInv, Follows
<1> HIDE DEF n
<1>2. j \in 1..n /\ k \in 1..n
  BY DEF n
<1>3. 0 \in T
  BY <1>0, <1>2
<1>4. ASSUME NEW m \in Nat, m < n - j, m \in T PROVE m + 1 \in T
  <2> DEFINE i == j + (m + 1)
  <2>1. i \in 1..n /\ i # 1 /\ i - 1 = j + m /\ m + 1 \in 0..(n - j) /\ j + m \in 1..n
    BY <1>0, <1>2, <1>4
  <2> HIDE DEF i
  <2>2. slices[i].from = slices[j + m].to + 1
    BY <1>1, <2>1
  <2>3. slices[j].to <= slices[j + m].to
    BY <1>4
  <2> DEFINE a == slices[j].to
             b == slices[j + m].to
             c == slices[i].to
             d == slices[i].from
  <2>4. a \in Nat /\ b \in Nat /\ c \in Nat /\ d \in Nat /\ d <= c + 1 /\ d = b + 1 /\ a <= b
    BY <1>0, <1>2, <2>1, <2>2, <2>3
  <2>5. a <= c
    <3> HIDE DEF a, b, c, d
    <3> QED BY <2>4
  <2> QED BY <2>1, <2>5 DEF i
<1>5. 0..(n - j) \subseteq T
  <2>1. n - j \in Nat
    BY <1>0, <1>2
  <2> DEFINE l == n - j
  <2> HIDE DEF l, T
  <2>2. l \in Nat
    BY <2>1 DEF l
  <2>3. \A m \in Nat : m < l /\ m \in T => m + 1 \in T
    BY <1>4 DEF l
  <2>4. 0..l \subseteq T
    BY <1>3, <2>2, <2>3, BoundedInduction
  <2> QED BY <2>4 DEF l
<1> DEFINE m == k - 1 - j
           i == k - 1
<1>6. m \in 0..(n - j) /\ j + m = i /\ i \in 1..n /\ k # 1
  BY <1>0, <1>2
<1>7. slices[j].to <= slices[i].to
  <2>1. m \in T
    BY <1>5, <1>6
  <2> HIDE DEF m, i
  <2> QED BY <1>6, <2>1
<1>8. slices[k].from = slices[i].to + 1
  BY <1>1, <1>2, <1>6
<1> DEFINE a == slices[j].to
           b == slices[i].to
           d == slices[k].from
<1>9. a \in Nat /\ b \in Nat /\ d \in Nat /\ a <= b /\ d = b + 1
  <2> HIDE DEF i
  <2> QED BY <1>0, <1>2, <1>6, <1>7, <1>8
<1>10. a < d
  <2> HIDE DEF a, b, d
  <2> QED BY <1>9
<1> QED BY <1>10

-----------------------------------------------------------------------------
(***************************************************************************)
(* The partitions of a slice, its strings, and the first of them, which    *)
(* are its single words.  The slice of the empty query is one empty string.*)
(***************************************************************************)
PartitionOf(S, phrase, sets) ==
    /\ sets \in Seq(Seq(Seq(S))) /\ sets # <<>>
    /\ \A s \in ToSet(sets) :
          /\ s # <<>> /\ FlattenSeq(s) = phrase
          /\ phrase # <<>> => <<>> \notin ToSet(s)
          /\ \A p \in ToSet(s) : p # <<>> => SubString(phrase, 0, p)
    /\ phrase # <<>> => /\ sets[1] = [k \in 1..Len(phrase) |-> <<phrase[k]>>]
                        /\ sets[Len(sets)] = <<phrase>>

LEMMA PartitionOfEmpty ==
  ASSUME NEW S
  PROVE  PartitionOf(S, <<>>, Partition(<<>>))
<1> DEFINE phrase == <<>>
           P == Seq(S)
           whole == <<phrase>>
           last == <<whole>>
<1>1. Len(phrase) = 0 /\ phrase \in P
  OBVIOUS
<1>2. PICK part : Partition(phrase) = part[0] /\ Parts(phrase, part)
  <2> HIDE DEF phrase
  <2>1. Len(phrase) \in Nat
    BY <1>1
  <2> QED BY <2>1, PartitionUnfolds
<1>3. part[0] = Body(phrase, part, 0)
  <2>1. 0 \in 0..Len(phrase)
    BY <1>1
  <2> QED BY <1>2, <2>1 DEF Parts
<1>4. Blocks(phrase, part, 0) = <<>>
  <2>1. Cutable(phrase, 0) = 0
    BY <1>1 DEF Cutable
  <2> QED BY <2>1 DEF Blocks
<1>5. OtherWords(phrase, 0) = phrase
  BY DEF OtherWords
<1>6. part[0] = <<>> \o last
  BY <1>3, <1>4, <1>5, FlattenEmpty DEF Body
<1>7. whole \in Seq(P) /\ ToSet(whole) = {phrase} /\ whole # <<>>
  <2> HIDE DEF phrase, P
  <2> QED BY <1>1 DEF ToSet
<1> DEFINE Q == Seq(P)
<1> HIDE DEF whole
<1>8. last \in Seq(Q) /\ ToSet(last) = {whole} /\ last # <<>> /\ <<>> \o last = last
  <2>1. whole \in Q
    BY <1>7
  <2> HIDE DEF Q
  <2> QED BY <2>1 DEF ToSet
<1>9. FlattenSeq(whole) = phrase
  <2> HIDE DEF phrase
  <2>1. phrase \in Seq(S)
    BY <1>1
  <2> QED BY <2>1, FlattenOne DEF whole
<1> HIDE DEF last
<1>10. PartitionOf(S, phrase, last)
  BY <1>7, <1>8, <1>9 DEF PartitionOf
<1> QED BY <1>2, <1>6, <1>8, <1>10

LEMMA PartitionsAre ==
  ASSUME NEW S, NEW phrase \in Seq(S)
  PROVE  PartitionOf(S, phrase, Partition(phrase))
<1>1. CASE phrase = <<>>
  BY <1>1, PartitionOfEmpty
<1>2. CASE phrase # <<>>
  <2> DEFINE l == Len(phrase)
             P == Seq(S)
             sets == Partition(phrase)
  <2>0. l \in Nat /\ l # 0 /\ 0 \in 0..(l - 1)
    BY <1>2, EmptySeq, LenProperties
  <2>1. PICK part : sets = part[0] /\ Parts(phrase, part) /\ Known(P, phrase, part)
    BY PartsKnown
  <2>2. part[0] \in Seq(Seq(P))
    BY <2>0, <2>1 DEF Known, KnownAt
  <2>3. \A s \in ToSet(part[0]) : s # <<>>
    BY <2>0, <2>1, EverySetIsCut DEF IsCut
  <2>4. \A s \in ToSet(part[0]) : \A p \in ToSet(s) : SubString(phrase, 0, p)
    BY <2>0, <2>1, PhrasesOf, EveryStringIsSub
  <2>5. /\ \A s \in ToSet(sets) : FlattenSeq(s) = phrase /\ <<>> \notin ToSet(s)
        /\ Head(sets) = [k \in 1..l |-> <<phrase[k]>>]
        /\ Last(sets) = <<phrase>>
    BY <1>2, PartitionsCutEveryWay
  <2>6. Last(part[0]) = part[0][Len(part[0])]
    BY DEF Last
  <2>7. part[0][1] = Singles(phrase, 0) /\ Len(part[0]) = 2 ^ (l - 1 - 0)
    BY <2>0, <2>1, FirstAndNumber
  <2> HIDE DEF sets, l
  <2>8. part[0] # <<>>
    <3>1. KnownAt(P, phrase, part, 0)
      BY <2>0, <2>1 DEF Known, l
    <3>2. Whole(phrase, 0) \in ToSet(part[0])
      BY <3>1 DEF KnownAt
    <3> QED BY <3>2, ToSetEmpty
  <2>9. Head(sets) = sets[1] /\ sets \in Seq(Seq(P)) /\ sets # <<>>
    <3> HIDE DEF P
    <3> QED BY <2>1, <2>2, <2>8
  <2> HIDE DEF P
  <2>10. PartitionOf(S, phrase, sets)
    BY <1>2, <2>1, <2>3, <2>4, <2>5, <2>6, <2>9 DEF PartitionOf, P, l
  <2> QED BY <2>10 DEF sets
<1> QED BY <1>1, <1>2

LEMMA StringsAre ==
  ASSUME NEW S, NEW phrase \in Seq(S)
  PROVE  LET sets == Partition(phrase)
             flat == FlattenSeq(sets)
         IN  /\ flat \in Seq(Seq(S))
             /\ ToSet(flat) = UNION {ToSet(s) : s \in ToSet(sets)}
             /\ \A k \in 1..Len(phrase) : k \in DOMAIN flat /\ flat[k] = <<phrase[k]>>
<1> DEFINE sets == Partition(phrase)
           flat == FlattenSeq(sets)
           P == Seq(S)
<1>1. PartitionOf(S, phrase, sets)
  BY PartitionsAre
<1> HIDE DEF sets
<1>2. sets \in Seq(Seq(P)) /\ sets # <<>>
  BY <1>1 DEF PartitionOf
<1> HIDE DEF P
<1>3. flat \in Seq(P) /\ ToSet(flat) = UNION {ToSet(s) : s \in ToSet(sets)}
  BY <1>2, FlattenElements
<1>4. ASSUME phrase # <<>>, NEW k \in 1..Len(phrase) PROVE k \in DOMAIN flat /\ flat[k] = <<phrase[k]>>
  <2>1. sets[1] = [j \in 1..Len(phrase) |-> <<phrase[j]>>]
    BY <1>1, <1>4 DEF PartitionOf
  <2>2. sets = <<sets[1]>> \o Tail(sets) /\ sets[1] \in Seq(P) /\ Tail(sets) \in Seq(Seq(P))
    <3> DEFINE Q == Seq(P)
    <3> HIDE DEF Q
    <3>1. sets \in Seq(Q) /\ sets # <<>>
      BY <1>2 DEF Q
    <3>2. sets = <<sets[1]>> \o Tail(sets) /\ sets[1] \in Q /\ Tail(sets) \in Seq(Q)
      BY <3>1
    <3> QED BY <3>2 DEF Q
  <2> DEFINE first == sets[1]
             rest == Tail(sets)
  <2>3. FlattenSeq(<<first>> \o rest) = first \o FlattenSeq(rest) /\ FlattenSeq(rest) \in Seq(P)
    <3> HIDE DEF first, rest
    <3>1. first \in Seq(P) /\ rest \in Seq(Seq(P))
      BY <2>2 DEF first, rest
    <3> QED BY <3>1, FlattenAhead
  <2> HIDE DEF first
  <2>4. first = [j \in 1..Len(phrase) |-> <<phrase[j]>>] /\ first \in Seq(P)
    BY <2>1, <2>2 DEF first
  <2> DEFINE others == FlattenSeq(rest)
  <2>5. flat = first \o others /\ others \in Seq(P)
    BY <2>2, <2>3 DEF first
  <2> HIDE DEF others, flat
  <2>6. Len(first) = Len(phrase) /\ k \in 1..Len(first) /\ Len(phrase) \in Nat /\ Len(others) \in Nat
    BY <1>4, <2>4, <2>5
  <2>7. /\ Len(flat) = Len(first) + Len(others)
        /\ \A i \in 1..(Len(first) + Len(others)) :
              flat[i] = IF i <= Len(first) THEN first[i] ELSE others[i - Len(first)]
    BY <2>4, <2>5, ConcatProperties
  <2>8. k \in 1..(Len(first) + Len(others)) /\ k <= Len(first)
    BY <2>6
  <2>9. flat[k] = first[k]
    BY <2>7, <2>8
  <2>10. DOMAIN flat = 1..Len(flat)
    BY <1>3 DEF flat
  <2> QED BY <1>4, <2>4, <2>7, <2>8, <2>9, <2>10
<1>5. phrase = <<>> => Len(phrase) = 0
  OBVIOUS
<1>6. \A k \in 1..Len(phrase) : k \in DOMAIN flat /\ flat[k] = <<phrase[k]>>
  BY <1>4, <1>5
<1> QED BY <1>3, <1>6 DEF sets, P

(***************************************************************************)
(* The words in hand, and the strings made of them: consecutive positions. *)
(***************************************************************************)
Run(a, b, p) ==
    /\ p \in Seq(a..b) /\ p # <<>>
    /\ \A i \in 1..Len(p) : p[i] = p[1] + i - 1

PositionsOf(s, q) ==
    /\ q \in Seq(s.from..s.to) /\ Len(q) = s.to + 1 - s.from
    /\ \A i \in 1..Len(q) : q[i] = s.from + i - 1
    /\ ToSet(q) = s.from..s.to

LEMMA PositionsAre ==
  ASSUME NEW s, Bounds(s)
  PROVE  PositionsOf(s, Positions(s))
<1> DEFINE a == s.from
           b == s.to
           n == b + 1 - a
           q == [i \in 1..n |-> a + i - 1]
<1>1. a \in Nat /\ b \in Nat /\ a <= b + 1
  BY DEF Bounds
<1>2. Positions(s) = q
  BY DEF Positions
<1> HIDE DEF a, b
<1>3. n \in Nat /\ \A i \in 1..n : a + i - 1 \in a..b
  BY <1>1
<1>4. \A x \in a..b : x - a + 1 \in 1..n /\ a + (x - a + 1) - 1 = x
  BY <1>1
<1> HIDE DEF n
<1>5. q \in [1..n -> a..b] /\ \A i \in 1..n : q[i] = a + i - 1
  BY <1>3
<1> HIDE DEF q
<1>6. q \in Seq(a..b) /\ Len(q) = n /\ DOMAIN q = 1..n
  <2> DEFINE S == a..b
  <2>1. q \in [1..n -> S] /\ n \in Nat
    BY <1>3, <1>5
  <2> HIDE DEF S
  <2>2. q \in Seq(S) /\ Len(q) = n /\ DOMAIN q = 1..n
    BY <2>1
  <2> QED BY <2>2 DEF S
<1>7. ToSet(q) = a..b
  <2>1. ToSet(q) \subseteq a..b
    BY <1>5, <1>6 DEF ToSet
  <2>2. ASSUME NEW x \in a..b PROVE x \in ToSet(q)
    <3> DEFINE i == x - a + 1
    <3>1. i \in 1..n /\ a + i - 1 = x
      BY <1>4
    <3> HIDE DEF i
    <3>2. q[i] = x
      BY <1>5, <3>1
    <3> QED BY <1>6, <3>1, <3>2 DEF ToSet
  <2> QED BY <2>1, <2>2
<1> QED BY <1>2, <1>5, <1>6, <1>7 DEF PositionsOf, a, b, n

LEMMA RunsAre ==
  ASSUME NEW s, Bounds(s), NEW p, SubString(Positions(s), 0, p)
  PROVE  Run(s.from, s.to, p)
<1> DEFINE q == Positions(s)
           a == s.from
           b == s.to
<1>1. /\ a \in Nat /\ b \in Nat /\ a <= b + 1
      /\ q \in Seq(a..b) /\ Len(q) = b + 1 - a /\ \A i \in 1..Len(q) : q[i] = a + i - 1
  BY PositionsAre DEF PositionsOf, Bounds
<1>2. PICK i \in 0..(Len(q) - 1), j \in 1..Len(q) : i < j /\ p = SubSeq(q, i + 1, j)
  <2>1. \E i \in 0..(Len(q) - 1) : \E j \in (i + 1)..Len(q) : p = SubSeq(q, i + 1, j)
    BY DEF SubString
  <2>2. PICK i \in 0..(Len(q) - 1) : \E j \in (i + 1)..Len(q) : p = SubSeq(q, i + 1, j)
    BY <2>1
  <2>3. PICK j \in (i + 1)..Len(q) : p = SubSeq(q, i + 1, j)
    BY <2>2
  <2>4. j \in 1..Len(q) /\ i < j
    <3> HIDE DEF q
    <3> QED BY <1>1
  <2> QED BY <2>3, <2>4
<1> HIDE DEF q
<1>3. i \in 0..Len(q) /\ j \in i..Len(q)
  BY <1>1, <1>2
<1> DEFINE S == a..b
           n == j - i
<1>4. p \in Seq(S) /\ Len(p) = n
  <2> HIDE DEF S
  <2> QED BY <1>1, <1>2, <1>3, SubSeqLen DEF S
<1>5. ASSUME NEW k \in 1..n PROVE p[k] = a + i + k - 1
  <2>1. i + k \in 1..Len(q) /\ k \in 1..Len(p)
    BY <1>1, <1>2, <1>3, <1>4
  <2>2. p[k] = q[i + k]
    <3> DEFINE m == i + 1
    <3>1. p = [l \in 1..(j - m + 1) |-> q[m + l - 1]]
      BY <1>2 DEF SubSeq
    <3>2. k \in 1..(j - m + 1) /\ m + k - 1 = i + k
      BY <1>1, <1>2, <1>3
    <3> HIDE DEF m
    <3> QED BY <3>1, <3>2
  <2>3. q[i + k] = a + (i + k) - 1
    BY <1>1, <2>1
  <2> QED BY <1>1, <2>1, <2>2, <2>3
<1>6. 1 \in 1..n /\ n \in Nat
  BY <1>1, <1>2, <1>3
<1>7. ASSUME NEW k \in 1..n PROVE p[k] = p[1] + k - 1
  <2>1. p[1] = a + i + 1 - 1 /\ p[k] = a + i + k - 1
    BY <1>5, <1>6
  <2> QED BY <1>1, <1>2, <2>1
<1>8. p # <<>>
  BY <1>4, <1>6
<1> QED BY <1>4, <1>7, <1>8 DEF Run, a, b

LEMMA RunIs ==
  ASSUME NEW a \in Nat \ {0}, NEW b \in Nat, NEW p, Run(a, b, p)
  PROVE  /\ Len(p) \in Nat \ {0} /\ DOMAIN p = 1..Len(p)
         /\ p[1] \in a..b /\ p[Len(p)] \in a..b /\ p[1] <= p[Len(p)]
         /\ p[Len(p)] = p[1] + Len(p) - 1
         /\ ToSet(p) = p[1]..p[Len(p)]
<1> DEFINE n == Len(p)
<1>1. n \in Nat /\ n # 0 /\ DOMAIN p = 1..n /\ \A i \in 1..n : p[i] \in a..b
  <2> DEFINE S == a..b
  <2>1. p \in Seq(S) /\ p # <<>>
    BY DEF Run
  <2> HIDE DEF S
  <2>2. n \in Nat /\ n # 0 /\ DOMAIN p = 1..n /\ \A i \in 1..n : p[i] \in S
    BY <2>1, EmptySeq
  <2> QED BY <2>2 DEF S
<1>2. \A i \in 1..n : p[i] = p[1] + i - 1
  BY DEF Run
<1> HIDE DEF n
<1>3. 1 \in 1..n /\ n \in 1..n
  BY <1>1
<1>4. p[1] \in a..b /\ p[n] \in a..b /\ p[n] = p[1] + n - 1
  BY <1>1, <1>2, <1>3
<1>5. p[1] <= p[n]
  BY <1>1, <1>4
<1>6. ToSet(p) = p[1]..p[n]
  <2>1. ASSUME NEW i \in 1..n PROVE p[i] \in p[1]..p[n]
    BY <1>1, <1>2, <1>4
  <2>2. ASSUME NEW x \in p[1]..p[n] PROVE \E i \in 1..n : p[i] = x
    <3>1. x - p[1] + 1 \in 1..n /\ p[1] + (x - p[1] + 1) - 1 = x
      BY <1>1, <1>4
    <3> QED BY <1>2, <3>1
  <2> QED BY <1>1, <2>1, <2>2 DEF ToSet
<1> QED BY <1>1, <1>4, <1>5, <1>6 DEF n

\* the text of a run is the part of the query it covers
LEMMA TextOfRun ==
  ASSUME NEW a \in Nat \ {0}, NEW b \in Nat, b <= Len(query), query \in Seq(Word),
         NEW p, Run(a, b, p)
  PROVE  /\ Text(p) = SubSeq(query, p[1], p[Len(p)])
         /\ Text(p) \in Seq(Word) /\ Len(Text(p)) = Len(p)
         /\ \A i \in 1..Len(p) : Text(p)[i] = query[p[1] + i - 1]
<1> DEFINE n == Len(p)
           f == p[1]
           l == p[n]
<1>1. /\ n \in Nat \ {0} /\ DOMAIN p = 1..n /\ f \in a..b /\ l \in a..b /\ l = f + n - 1
  BY RunIs
<1>2. \A i \in 1..n : p[i] = f + i - 1
  BY DEF Run
<1>3. Len(query) \in Nat /\ \A i \in 1..Len(query) : query[i] \in Word
  OBVIOUS
<1> HIDE DEF n, f, l
<1>4. l - f + 1 = n /\ \A i \in 1..n : f + i - 1 \in 1..Len(query)
  BY <1>1, <1>3
<1> DEFINE t == [i \in 1..n |-> query[f + i - 1]]
<1>5. Text(p) = t
  BY <1>1, <1>2 DEF Text
<1>6. SubSeq(query, f, l) = t
  <2>0. f \in Int /\ l \in Int
    BY <1>1
  <2>1. SubSeq(query, f, l) = [i \in 1..(l - f + 1) |-> query[f + i - 1]]
    BY <2>0 DEF SubSeq
  <2> QED BY <1>4, <2>1
<1>7. t \in [1..n -> Word] /\ \A i \in 1..n : t[i] = query[f + i - 1]
  BY <1>3, <1>4
<1> HIDE DEF t
<1>8. t \in Seq(Word) /\ Len(t) = n
  BY <1>1, <1>7
<1> QED BY <1>5, <1>6, <1>7, <1>8 DEF n, f, l

-----------------------------------------------------------------------------
(***************************************************************************)
(* What the steps of a request rely on: the slices do not change once the  *)
(* query is cut, and nothing is answered before; the results are those of  *)
(* the strings of the slice in hand, and the weights those of its sets.    *)
(***************************************************************************)
Weighed(res) == [p \in DOMAIN res |-> [res[p] EXCEPT !.best = BestDocument(res[p])]]
WeightsOf(res) ==
    [i \in DOMAIN Sets |-> SetWeight([k \in DOMAIN Sets[i] |-> res[Sets[i][k]]])]
AllHaveBest(res) == \A p \in DOMAIN res : HasMatched(res[p]) => BestDocument(res[p]) # 0

Steps ==
    /\ pc # "done" => rpc = "slice" /\ cur = 1 /\ locations = <<>> /\ unmatched = <<>>
    /\ rpc \in {"search", "weigh", "choose", "places"} => cur <= Len(slices)
    /\ rpc = "weigh" => results = Found
    /\ rpc \in {"choose", "places"} =>
          /\ AllHaveBest(Found)
          /\ results = Weighed(Found) /\ weights = WeightsOf(Weighed(Found))
    /\ rpc = "places" => best = FirstBest(weights) /\ best # 0
    /\ rpc = "returned" => cur = Len(slices) + 1

Frame ==
    /\ Inv /\ Steps
    /\ index \in Indexes /\ matching = KnownPairs
    /\ cur \in 1..(Len(slices) + 1)

LEMMA Stable ==
  ASSUME UNCHANGED <<query, slices, cur, index>>
  PROVE  Sets' = Sets /\ Strings' = Strings /\ Found' = Found /\ InHand' = InHand
<1>1. Sets' = Sets /\ InHand' = InHand
  BY DEF Sets, InHand, Positions
<1>2. Strings' = Strings
  BY DEF Sets, InHand, Positions, Strings
<1>3. Found' = Found
  BY DEF Found, FullTextMatch, Keep, Searched, Matching, IsKnown, InDictionary, Correction,
         Picked, Holds, Text, Strings, Sets, InHand, Positions
<1> QED BY <1>1, <1>2, <1>3

LEMMA StablePairs ==
  ASSUME UNCHANGED index
  PROVE  KnownPairs' = KnownPairs
  BY DEF KnownPairs, Searched, Matching, IsKnown, InDictionary, Correction, Picked, Holds

LEMMA StableWeights ==
  ASSUME UNCHANGED <<query, slices, cur, index>>, NEW res
  PROVE  WeightsOf(res)' = WeightsOf(res)
  BY DEF WeightsOf, Sets, InHand, Positions

LEMMA InitFrame == InitRequest => Frame
<1> SUFFICES ASSUME InitRequest PROVE Frame
  OBVIOUS
<1>1. Inv
  BY InitInv DEF InitRequest
<1>2. cur \in 1..(Len(slices) + 1)
  BY DEF InitRequest, Init
<1> QED BY <1>1, <1>2 DEF InitRequest, Init, Frame, Steps

\* a step of the request, once the query is cut
Onwards == pc = "done" /\ UNCHANGED <<vars, index>>

LEMMA OnwardsFrame ==
  ASSUME Frame, Onwards
  PROVE  /\ Inv' /\ index' \in Indexes /\ matching' = KnownPairs' /\ slices' = slices
         /\ pc' = "done" /\ Len(slices) \in Nat /\ Len(slices) # 0
<1>1. UNCHANGED vars
  BY DEF Onwards
<1>2. Inv
  BY DEF Frame
<1>3. Inv'
  BY <1>1, <1>2, NextInv
<1>4. UNCHANGED <<query, matching, pc, slices, index>>
  BY DEF Onwards, vars
<1>5. Len(slices) \in Nat /\ Len(slices) # 0
  <2>1. slices \in Seq(Slice) /\ slices # <<>>
    BY <1>2 DEF Inv, TypeOK, StagingInv, Onwards
  <2> QED BY <2>1, EmptySeq
<1>6. KnownPairs' = KnownPairs
  BY <1>4, StablePairs
<1> QED BY <1>3, <1>4, <1>5, <1>6 DEF Frame, Onwards

LEMMA StepsOnwards ==
  /\ CodesFound \/ SearchIndex \/ DatabaseFails \/ SearchString \/ SearchFails => Onwards
  /\ CalculateAllWeights \/ AssertionFails \/ ChooseBest \/ CreatePlaces \/ Return => Onwards
  /\ CodesFound \/ CreatePlaces => NextSlice /\ cur <= Len(slices)
  BY DEF CodesFound, SearchIndex, DatabaseFails, SearchString, SearchFails, CalculateAllWeights,
         AssertionFails, ChooseBest, CreatePlaces, Return, NextSlice, AtStep, Onwards

LEMMA NextFrame == Frame /\ [NextRequest]_<<vars, request>> => Frame'
<1> SUFFICES ASSUME Frame, [NextRequest]_<<vars, request>> PROVE Frame'
  OBVIOUS
<1>0. cur \in 1..(Len(slices) + 1)
  BY DEF Frame
<1>1. ASSUME Onwards, cur' \in 1..(Len(slices) + 1), Steps' PROVE Frame'
  BY <1>1, OnwardsFrame DEF Frame
<1>2. CASE Next /\ UNCHANGED request
  <2>1. Inv'
    <3>1. Inv
      BY DEF Frame
    <3>2. [Next]_vars
      BY <1>2
    <3> QED BY <3>1, <3>2, NextInv
  <2>2. pc # "done" /\ UNCHANGED matching
    BY <1>2 DEF Next, SingleWord, SeveralWords, Join, Cut, LastWord, Throw, AtPair
  <2>3. KnownPairs' = KnownPairs
    BY <1>2, StablePairs DEF request
  <2>4. UNCHANGED <<index, rpc, cur, locations, unmatched>>
    BY <1>2 DEF request
  <2>5. rpc = "slice" /\ cur = 1 /\ locations = <<>> /\ unmatched = <<>>
    BY <2>2 DEF Frame, Steps
  <2>6. Steps'
    BY <2>4, <2>5 DEF Steps
  <2>7. Len(slices') \in Nat
    BY <2>1 DEF Inv, TypeOK
  <2>8. (cur \in 1..(Len(slices) + 1))'
    BY <2>4, <2>5, <2>7
  <2> QED BY <2>1, <2>2, <2>3, <2>4, <2>6, <2>8 DEF Frame
<1>3. CASE CodesFound
  <2>1. Onwards /\ NextSlice /\ cur <= Len(slices)
    BY <1>3, StepsOnwards
  <2>2. cur' = cur + 1 /\ rpc' = "slice" /\ pc' = "done" /\ Len(slices) \in Nat
    BY <2>1, OnwardsFrame DEF NextSlice
  <2>3. cur' \in 1..(Len(slices) + 1)
    BY <1>0, <2>1, <2>2
  <2>4. Steps'
    BY <2>2 DEF Steps
  <2> QED BY <1>1, <2>1, <2>3, <2>4
<1>4. CASE SearchIndex
  <2>1. Onwards /\ cur' = cur /\ rpc' = "search" /\ cur <= Len(slices)
    BY <1>4, StepsOnwards DEF SearchIndex, AtStep
  <2>2. Steps'
    BY <2>1, OnwardsFrame DEF Steps
  <2> QED BY <1>0, <1>1, <2>1, <2>2
<1>5. CASE DatabaseFails
  <2>1. Onwards /\ cur' = cur /\ rpc' = "thrown"
    BY <1>5, StepsOnwards DEF DatabaseFails
  <2>2. Steps'
    BY <2>1, OnwardsFrame DEF Steps
  <2> QED BY <1>0, <1>1, <2>1, <2>2
<1>6. CASE SearchString
  <2>1. Onwards /\ cur' = cur /\ rpc' = "weigh" /\ cur <= Len(slices) /\ results' = Found
    BY <1>6, StepsOnwards DEF SearchString, AtStep
  <2>2. Found' = Found
    BY <2>1, Stable DEF Onwards, vars
  <2>3. Steps'
    BY <2>1, <2>2, OnwardsFrame DEF Steps
  <2> QED BY <1>0, <1>1, <2>1, <2>3
<1>7. CASE SearchFails
  <2>1. Onwards /\ cur' = cur /\ rpc' = "thrown"
    BY <1>7, StepsOnwards DEF SearchFails
  <2>2. Steps'
    BY <2>1, OnwardsFrame DEF Steps
  <2> QED BY <1>0, <1>1, <2>1, <2>2
<1>8. CASE CalculateAllWeights
  <2>1. Onwards /\ cur' = cur /\ rpc' = "choose" /\ cur <= Len(slices) /\ rpc = "weigh"
    BY <1>8, StepsOnwards DEF CalculateAllWeights, AtStep
  <2>2. Found' = Found /\ UNCHANGED <<query, slices, cur, index>>
    BY <2>1, Stable DEF Onwards, vars
  <2>3. results = Found
    BY <2>1 DEF Frame, Steps
  <2>4. results' = Weighed(Found) /\ weights' = WeightsOf(results') /\ AllHaveBest(Found)
    BY <1>8, <2>3 DEF CalculateAllWeights, Weighed, WeightsOf, NoBestDocument, AllHaveBest
  <2>5. weights' = WeightsOf(Weighed(Found))
    BY <2>4
  <2>6. /\ AllHaveBest(Found)' /\ results' = Weighed(Found)' /\ weights' = WeightsOf(Weighed(Found))'
    <3>1. Sets' = Sets
      BY <2>2, Stable
    <3> QED BY <2>2, <2>4, <2>5, <3>1 DEF AllHaveBest, Weighed, WeightsOf
  <2>7. Steps'
    BY <2>1, <2>6, OnwardsFrame DEF Steps
  <2> QED BY <1>0, <1>1, <2>1, <2>7
<1>9. CASE AssertionFails
  <2>1. Onwards /\ cur' = cur /\ rpc' = "aborted"
    BY <1>9, StepsOnwards DEF AssertionFails
  <2>2. Steps'
    BY <2>1, OnwardsFrame DEF Steps
  <2> QED BY <1>0, <1>1, <2>1, <2>2
<1>10. CASE ChooseBest
  <2>1. /\ Onwards /\ cur' = cur /\ cur <= Len(slices) /\ rpc = "choose" /\ rpc' \in {"thrown", "places"}
        /\ UNCHANGED <<results, weights>> /\ best' = FirstBest(weights)
        /\ rpc' = "places" => best' # 0
    BY <1>10, StepsOnwards DEF ChooseBest, AtStep
  <2>2. Found' = Found /\ Sets' = Sets
    BY <2>1, Stable DEF Onwards, vars
  <2>3. AllHaveBest(Found) /\ results = Weighed(Found) /\ weights = WeightsOf(Weighed(Found))
    BY <2>1 DEF Frame, Steps
  <2>4. AllHaveBest(Found)' /\ results' = Weighed(Found)' /\ weights' = WeightsOf(Weighed(Found))'
    BY <2>1, <2>2, <2>3 DEF AllHaveBest, Weighed, WeightsOf
  <2>5. Steps'
    BY <2>1, <2>4, OnwardsFrame DEF Steps
  <2> QED BY <1>0, <1>1, <2>1, <2>5
<1>11. CASE CreatePlaces
  <2>1. Onwards /\ NextSlice /\ cur <= Len(slices)
    BY <1>11, StepsOnwards
  <2>2. cur' = cur + 1 /\ rpc' = "slice" /\ pc' = "done" /\ Len(slices) \in Nat
    BY <2>1, OnwardsFrame DEF NextSlice
  <2>3. cur' \in 1..(Len(slices) + 1)
    BY <1>0, <2>1, <2>2
  <2>4. Steps'
    BY <2>2 DEF Steps
  <2> QED BY <1>1, <2>1, <2>3, <2>4
<1>12. CASE Return
  <2>1. Onwards /\ cur' = cur /\ rpc' = "returned" /\ cur > Len(slices) /\ Len(slices) \in Nat
    BY <1>12, StepsOnwards, OnwardsFrame DEF Return
  <2>2. cur' = Len(slices) + 1
    BY <1>0, <2>1
  <2>3. Steps'
    BY <2>1, <2>2, OnwardsFrame DEF Steps
  <2> QED BY <1>0, <1>1, <2>1, <2>3
<1>13. CASE UNCHANGED <<vars, request>>
  <2>1. UNCHANGED <<query, slices, pc, index, rpc, cur, results, weights, best, locations, unmatched, matching>>
    BY <1>13 DEF vars, request
  <2>2. Inv'
    <3>1. Inv /\ UNCHANGED vars
      BY <1>13 DEF Frame
    <3> QED BY <3>1, NextInv
  <2>3. Found' = Found /\ Sets' = Sets /\ KnownPairs' = KnownPairs
    BY <2>1, Stable, StablePairs
  <2>a. AllHaveBest(Found)' <=> AllHaveBest(Found)
    BY <2>3 DEF AllHaveBest
  <2>b. Weighed(Found)' = Weighed(Found) /\ WeightsOf(Weighed(Found))' = WeightsOf(Weighed(Found))
    BY <2>3 DEF Weighed, WeightsOf
  <2>c. Steps
    BY DEF Frame
  <2>4. Steps'
    BY <2>1, <2>3, <2>a, <2>b, <2>c DEF Steps
  <2> QED BY <2>1, <2>2, <2>3, <2>4 DEF Frame
<1> QED BY <1>2, <1>3, <1>4, <1>5, <1>6, <1>7, <1>8, <1>9, <1>10, <1>11, <1>12, <1>13
        DEF NextRequest

-----------------------------------------------------------------------------
(***************************************************************************)
(* The slice in hand, and its partitions.                                  *)
(***************************************************************************)
SetOf(s, set) ==
    /\ set \in Seq(Seq(s.from..s.to)) /\ set # <<>> /\ FlattenSeq(set) = Positions(s)
    /\ s.from <= s.to => <<>> \notin ToSet(set)
    /\ \A p \in ToSet(set) : p # <<>> => Run(s.from, s.to, p)
    /\ \A x \in s.from..s.to : \E p \in ToSet(set) : x \in ToSet(p)
    /\ \A j, k \in DOMAIN set : j < k => \A x \in ToSet(set[j]), y \in ToSet(set[k]) : x < y

LEMMA SetsAre ==
  ASSUME NEW s, Bounds(s)
  PROVE  \A set \in ToSet(Partition(Positions(s))) : SetOf(s, set)
<1> DEFINE a == s.from
           b == s.to
           S == a..b
           q == Positions(s)
<1>0. a \in Nat /\ b \in Nat /\ a <= b + 1
  BY DEF Bounds
<1>1. q \in Seq(S) /\ Len(q) = b + 1 - a /\ ToSet(q) = S /\ \A i \in 1..Len(q) : q[i] = a + i - 1
  BY PositionsAre DEF PositionsOf
<1> SUFFICES ASSUME NEW set \in ToSet(Partition(q)) PROVE SetOf(s, set)
  OBVIOUS
<1>2. PartitionOf(S, q, Partition(q))
  <2> HIDE DEF S, q
  <2> QED BY <1>1, PartitionsAre
<1>3. /\ set # <<>> /\ FlattenSeq(set) = q /\ (q # <<>> => <<>> \notin ToSet(set))
      /\ \A p \in ToSet(set) : p # <<>> => SubString(q, 0, p)
  BY <1>2 DEF PartitionOf
<1>4. set \in Seq(Seq(S))
  <2>1. Partition(q) \in Seq(Seq(Seq(S)))
    BY <1>2 DEF PartitionOf
  <2> DEFINE P == Seq(Seq(S))
  <2> HIDE DEF P
  <2>2. Partition(q) \in Seq(P)
    BY <2>1 DEF P
  <2>3. set \in P
    BY <2>2, ElementsTyped
  <2> QED BY <2>3 DEF P
<1>5. \A p \in ToSet(set) : p # <<>> => Run(a, b, p)
  BY <1>3, RunsAre
<1>6. \A x \in S : \E p \in ToSet(set) : x \in ToSet(p)
  <2>1. ToSet(FlattenSeq(set)) = UNION {ToSet(p) : p \in ToSet(set)}
    <3> HIDE DEF S, q
    <3> QED BY <1>4, FlattenElements
  <2> QED BY <1>1, <1>3, <2>1
<1>7. \A j, k \in DOMAIN set : j < k => \A x \in ToSet(set[j]), y \in ToSet(set[k]) : x < y
  <2> DEFINE R == {z \in S \X S : z[1] < z[2]}
  <2>1. Ordered(R, q)
    <3> SUFFICES ASSUME NEW j \in DOMAIN q, NEW k \in DOMAIN q, j < k PROVE <<q[j], q[k]>> \in R
      BY DEF Ordered
    <3>1. DOMAIN q = 1..Len(q) /\ Len(q) \in Nat
      <4> HIDE DEF S, q
      <4> QED BY <1>1
    <3>2. q[j] = a + j - 1 /\ q[k] = a + k - 1 /\ j \in 1..Len(q) /\ k \in 1..Len(q)
      BY <1>1, <3>1
    <3>3. j \in 1..(b + 1 - a) /\ k \in 1..(b + 1 - a)
      BY <1>1, <3>2
    <3> HIDE DEF q, a, b
    <3>4. a + j - 1 \in S /\ a + k - 1 \in S /\ a + j - 1 < a + k - 1
      BY <1>0, <3>3
    <3> QED BY <3>2, <3>4
  <2>2. OrderedParts(R, set)
    <3> HIDE DEF R, S, q
    <3> QED BY <1>3, <1>4, <2>1, OrderedFlatten
  <2>3. \A j, k \in DOMAIN set : j < k => \A x \in ToSet(set[j]), y \in ToSet(set[k]) : <<x, y>> \in R
    <3> HIDE DEF R
    <3> QED BY <2>2 DEF OrderedParts, Ahead
  <2>4. \A x, y : <<x, y>> \in R => x < y
    OBVIOUS
  <2> HIDE DEF R
  <2> QED BY <2>3, <2>4
<1>8. s.from <= s.to => q # <<>>
  <2>1. ASSUME q = <<>> PROVE ~ (a <= b)
    <3>1. Len(q) = 0
      BY <2>1
    <3> QED BY <1>0, <1>1, <3>1
  <2> QED BY <2>1
<1> HIDE DEF q
<1>9. SetOf(s, set)
  BY <1>3, <1>4, <1>5, <1>6, <1>7, <1>8 DEF SetOf, q
<1> QED BY <1>9

Hand(s) ==
    /\ s \in Slice /\ Bounds(s) /\ query \in Seq(Word) /\ Len(query) \in Nat
    /\ cur \in 1..Len(slices) /\ Len(slices) \in Nat
    /\ InHand = Positions(s) /\ PositionsOf(s, InHand)
    /\ PartitionOf(s.from..s.to, InHand, Sets)
    /\ \A set \in ToSet(Sets) : SetOf(s, set)

LEMMA HandIs ==
  ASSUME Frame, pc = "done", cur <= Len(slices)
  PROVE  Hand(slices[cur])
<1>1. Inv /\ cur \in 1..(Len(slices) + 1) /\ query \in Queries
  BY DEF Frame, Inv, TypeOK
<1>2. query \in Seq(Word) /\ Len(query) \in Nat
  BY <1>1, QueryType
<1>3. Len(slices) \in Nat /\ \A k \in 1..Len(slices) : slices[k] \in Slice /\ Bounds(slices[k])
  BY <1>1, SlicesBounded
<1>4. cur \in 1..Len(slices)
  BY <1>1, <1>3
<1> DEFINE s == slices[cur]
<1>5. s \in Slice /\ Bounds(s)
  BY <1>3, <1>4
<1>6. InHand = Positions(s) /\ Sets = Partition(Positions(s))
  BY DEF InHand, Sets
<1> HIDE DEF s
<1>7. PositionsOf(s, InHand)
  BY <1>5, <1>6, PositionsAre
<1>8. PartitionOf(s.from..s.to, InHand, Sets)
  <2> DEFINE S == s.from..s.to
  <2>1. InHand \in Seq(S)
    BY <1>7 DEF PositionsOf
  <2>2. Sets = Partition(InHand)
    BY <1>6
  <2> HIDE DEF S
  <2>3. PartitionOf(S, InHand, Sets)
    BY <2>1, <2>2, PartitionsAre
  <2> QED BY <2>3 DEF S
<1>9. \A set \in ToSet(Sets) : SetOf(s, set)
  BY <1>5, <1>6, SetsAre
<1> QED BY <1>2, <1>3, <1>4, <1>5, <1>6, <1>7, <1>8, <1>9 DEF Hand, s

LEMMA StringsInHand ==
  ASSUME NEW s, Hand(s)
  PROVE  /\ Strings \in Seq(Seq(s.from..s.to))
         /\ DOMAIN Strings = 1..Len(Strings) /\ Len(Strings) \in Nat
         /\ \A set \in ToSet(Sets) : ToSet(set) \subseteq ToSet(Strings)
         /\ \A p \in ToSet(Strings) : p \in Seq(s.from..s.to) /\ (p # <<>> => Run(s.from, s.to, p))
         /\ \A k \in 1..Len(InHand) : k \in DOMAIN Strings /\ Strings[k] = <<InHand[k]>>
<1> DEFINE S == s.from..s.to
           P == Seq(S)
<1>1. InHand \in Seq(S) /\ Sets = Partition(InHand)
  BY DEF Hand, PositionsOf, Sets
<1> HIDE DEF S
<1>2. /\ Strings \in Seq(P)
      /\ ToSet(Strings) = UNION {ToSet(set) : set \in ToSet(Sets)}
      /\ \A k \in 1..Len(InHand) : k \in DOMAIN Strings /\ Strings[k] = <<InHand[k]>>
  BY <1>1, StringsAre DEF Strings
<1>3. \A p \in ToSet(Strings) : p # <<>> => Run(s.from, s.to, p)
  BY <1>2 DEF Hand, SetOf
<1> HIDE DEF P
<1>4. DOMAIN Strings = 1..Len(Strings) /\ Len(Strings) \in Nat /\ \A p \in ToSet(Strings) : p \in P
  BY <1>2, ElementsTyped
<1> QED BY <1>2, <1>3, <1>4 DEF S, P

-----------------------------------------------------------------------------
(***************************************************************************)
(* The Result of a string, and the weights of its documents: only a code   *)
(* can take one above 100%.                                                *)
(***************************************************************************)
ResultOf(phrase, r) ==
    /\ r.query = phrase /\ r.as = Searched(phrase)
    /\ r.docs = IF Keep(phrase) THEN Matching(Searched(phrase)) ELSE <<>>

LEMMA DocsOfResult ==
  ASSUME index \in Indexes, NEW phrase, NEW r, ResultOf(phrase, r)
  PROVE  /\ r.docs \in Seq(ToSet(index)) /\ Len(r.docs) \in Nat /\ DOMAIN r.docs = 1..Len(r.docs)
         /\ \A i \in 1..Len(r.docs) :
               /\ r.docs[i] \in ToSet(index) /\ Document(r.docs[i])
               /\ r.docs[i].relevance <= r.docs[1].relevance
         /\ HasMatched(r) <=> Keep(phrase) /\ Matching(Searched(phrase)) # <<>>
<1> DEFINE docs == r.docs
           S == ToSet(index)
           found == Matching(Searched(phrase))
<1>1. MatchingOf(Searched(phrase), found)
  BY MatchingIs
<1>2. docs = IF Keep(phrase) THEN found ELSE <<>>
  BY DEF ResultOf
<1>3. docs \in Seq(S) /\ \A i \in DOMAIN docs : docs[i].relevance <= docs[1].relevance
  BY <1>1, <1>2 DEF MatchingOf
<1>4. docs # <<>> <=> Keep(phrase) /\ found # <<>>
  BY <1>2
<1> HIDE DEF S, docs, found
<1>5. Len(docs) \in Nat /\ DOMAIN docs = 1..Len(docs) /\ \A i \in 1..Len(docs) : docs[i] \in S
  BY <1>3
<1>6. \A d \in S : Document(d)
  BY IndexIs DEF S
<1> QED BY <1>3, <1>4, <1>5, <1>6 DEF docs, S, found, HasMatched

LEMMA LogsArePositive == \A k \in 1..9 : Log10[k] \in Nat
  BY DEF Log10

LEMMA SpellingIs ==
  ASSUME NEW n \in Nat
  PROVE  /\ SpellingWeight(n) \in Int /\ SpellingWeight(n) <= 0
         /\ n = 0 => SpellingWeight(n) = 0
<1> DEFINE k == IF n > 10 THEN 9 ELSE n - 1
<1>1. SpellingWeight(n) = IF n < 2 THEN 0 ELSE -3 * Log10[k]
  BY DEF SpellingWeight
<1>2. CASE n < 2
  BY <1>1, <1>2
<1>3. CASE ~ (n < 2)
  <2>1. k \in 1..9
    BY <1>3
  <2> HIDE DEF k
  <2> DEFINE v == Log10[k]
  <2>2. v \in Nat
    BY <2>1, LogsArePositive
  <2>3. SpellingWeight(n) = -3 * v
    BY <1>1, <1>3
  <2> HIDE DEF v
  <2>4. -3 * v \in Int /\ -3 * v <= 0
    BY <2>2
  <2> QED BY <1>3, <2>3, <2>4
<1> QED BY <1>2, <1>3

LEMMA ErrorsAre ==
  ASSUME NEW r, NEW n \in Nat, DOMAIN r.query = 1..n
  PROVE  Errors(r) \in Nat /\ (r.as = r.query => Errors(r) = 0)
<1> DEFINE wrong == {i \in DOMAIN r.query : r.as[i] # r.query[i]}
           all == 1..n
<1>1. IsFiniteSet(all)
  BY FS_Interval
<1>2. wrong \subseteq all
  OBVIOUS
<1>3. r.as = r.query => wrong = {}
  OBVIOUS
<1>4. Errors(r) = Cardinality(wrong)
  BY DEF Errors
<1> HIDE DEF wrong, all
<1>5. Cardinality(wrong) \in Nat
  BY <1>1, <1>2, FS_Subset, FS_CardinalityType
<1> QED BY <1>3, <1>4, <1>5, FS_EmptySet

LEMMA DocumentWeights ==
  ASSUME index \in Indexes, NEW phrase \in Seq(Word), NEW r, ResultOf(phrase, r),
         NEW i \in 1..Len(r.docs)
  PROVE  LET d == r.docs[i]
             w == DocumentWeight(r, d)
         IN  /\ w \in Int
             /\ w <= IF CodeMatches(r, d) THEN CodeWeight ELSE 0
             /\ ~ d.expired /\ d.rank > Zero /\ r.as = r.query =>
                   w = d.rank + (d.relevance - r.docs[1].relevance)
                       + (IF CodeMatches(r, d) THEN CodeWeight ELSE 0)
<1> DEFINE d == r.docs[i]
           w == DocumentWeight(r, d)
           rel == d.relevance
           best1 == r.docs[1].relevance
           rank == d.rank
           spell == SpellingWeight(Errors(r))
           env == EnvelopeScore(d)
           bonus == IF CodeMatches(r, d) THEN CodeWeight ELSE 0
<1>1. Document(d) /\ rel <= best1 /\ Document(r.docs[1])
  <2>1. 1 \in 1..Len(r.docs)
    BY DocsOfResult
  <2> QED BY <2>1, DocsOfResult
<1>2. rel \in Int /\ best1 \in Int /\ rank \in Int /\ rank <= 0 /\ d.expired \in BOOLEAN
  BY <1>1, DocumentIs
<1>3. DOMAIN r.query = 1..Len(phrase) /\ Len(phrase) \in Nat
  BY DEF ResultOf
<1>4. Errors(r) \in Nat /\ (r.as = r.query => Errors(r) = 0)
  BY <1>3, ErrorsAre
<1>5. spell \in Int /\ spell <= 0 /\ (r.as = r.query => spell = 0)
  BY <1>4, SpellingIs
<1>6. env \in Int /\ env <= 0 /\ (~ d.expired => env = 0)
  BY DEF EnvelopeScore, EnvelopeWeight
<1>7. bonus \in Int /\ bonus >= 0
  BY DEF CodeWeight
<1>8. w = IF rank <= Zero THEN Zero ELSE rank + (rel - best1) + spell + env + bonus
  BY DEF DocumentWeight
<1>9. Zero = -1000000
  BY DEF Zero
<1> HIDE DEF rel, best1, rank, spell, env, bonus, w
<1>10. w \in Int /\ w <= bonus
  BY <1>1, <1>2, <1>5, <1>6, <1>7, <1>8, <1>9
<1>11. ~ d.expired /\ rank > Zero /\ r.as = r.query => w = rank + (rel - best1) + bonus
  BY <1>2, <1>5, <1>6, <1>7, <1>8, <1>9
<1> QED BY <1>10, <1>11 DEF w, bonus, rank, rel, best1

LEMMA BestIs ==
  ASSUME index \in Indexes, NEW phrase \in Seq(Word), NEW r, ResultOf(phrase, r)
  PROVE  LET b == BestDocument(r)
         IN  /\ b \in 0..Len(r.docs)
             /\ b # 0 => \A i \in 1..Len(r.docs) :
                            DocumentWeight(r, r.docs[i]) <= DocumentWeight(r, r.docs[b])
<1> DEFINE n == Len(r.docs)
           scores == [i \in DOMAIN r.docs |-> DocumentWeight(r, r.docs[i])]
           b == FirstBest(scores)
<1>1. n \in Nat /\ DOMAIN r.docs = 1..n
  BY DocsOfResult
<1>2. scores \in [1..n -> Int] /\ \A i \in 1..n : scores[i] = DocumentWeight(r, r.docs[i])
  BY <1>1, DocumentWeights
<1>3. BestDocument(r) = b
  BY DEF BestDocument
<1> HIDE DEF scores, n
<1>4. FirstHighest(n, scores, b)
  BY <1>1, <1>2, FirstBestIs
<1> HIDE DEF b
<1>5. b \in 0..n /\ (b # 0 => \A i \in 1..n : scores[i] <= scores[b])
  BY <1>4 DEF FirstHighest
<1>6. b # 0 => b \in 1..n
  BY <1>1, <1>5
<1> QED BY <1>2, <1>3, <1>5, <1>6 DEF n

(***************************************************************************)
(* The Results of the strings of the slice, found and then weighed.        *)
(***************************************************************************)
LEMMA FoundIs ==
  ASSUME NEW s, Hand(s), NEW p \in ToSet(Strings)
  PROVE  /\ p \in DOMAIN Found /\ DOMAIN Found = ToSet(Strings) /\ DOMAIN Weighed(Found) = ToSet(Strings)
         /\ Text(p) \in Seq(Word) /\ Len(Text(p)) = Len(p)
         /\ ResultOf(Text(p), Found[p]) /\ ResultOf(Text(p), Weighed(Found)[p])
         /\ Weighed(Found)[p].best = BestDocument(Found[p])
         /\ BestDocument(Weighed(Found)[p]) = BestDocument(Found[p])
<1>1. /\ DOMAIN Found = ToSet(Strings) /\ DOMAIN Weighed(Found) = ToSet(Strings)
      /\ Found[p] = FullTextMatch(Text(p))
      /\ Weighed(Found)[p] = [Found[p] EXCEPT !.best = BestDocument(Found[p])]
  BY DEF Found, Weighed
<1>2. ResultOf(Text(p), Found[p])
  BY <1>1 DEF FullTextMatch, ResultOf
<1>3. /\ ResultOf(Text(p), Weighed(Found)[p]) /\ Weighed(Found)[p].best = BestDocument(Found[p])
      /\ Weighed(Found)[p].docs = Found[p].docs /\ Weighed(Found)[p].as = Found[p].as
      /\ Weighed(Found)[p].query = Found[p].query
  BY <1>1, <1>2 DEF FullTextMatch, ResultOf
<1>4. BestDocument(Weighed(Found)[p]) = BestDocument(Found[p])
  BY <1>3 DEF BestDocument, DocumentWeight, Errors, CodeMatches
<1>5. Text(p) \in Seq(Word) /\ Len(Text(p)) = Len(p)
  <2>1. p \in Seq(s.from..s.to) /\ (p # <<>> => Run(s.from, s.to, p))
    BY StringsInHand
  <2>2. CASE p = <<>>
    BY <2>2 DEF Text
  <2>3. CASE p # <<>>
    <3>1. s.from \in Nat \ {0} /\ s.to \in Nat /\ s.to <= Len(query) /\ query \in Seq(Word)
      BY DEF Hand, Bounds
    <3> QED BY <2>1, <2>3, <3>1, TextOfRun
  <2> QED BY <2>2, <2>3
<1> QED BY <1>1, <1>2, <1>3, <1>4, <1>5

-----------------------------------------------------------------------------
(***************************************************************************)
(* The weight of a string set: the sum of those of its strings, each of    *)
(* them at most 100% but for the codes.                                    *)
(***************************************************************************)
Sums(n, set, sum) ==
    /\ sum \in [0..n -> Int] /\ sum[0] = 0
    /\ \A i \in 1..n : sum[i] = sum[i - 1] + StringWeight(set[i])

LEMMA WeightSumIs ==
  ASSUME NEW set, Len(set) \in Nat, \A i \in 1..Len(set) : StringWeight(set[i]) \in Int
  PROVE  \E sum : Sums(Len(set), set, sum) /\ WeightSum(set) = sum[Len(set)]
<1> DEFINE n == Len(set)
           w(i) == StringWeight(set[i])
           Is(f) == f = [i \in 0..n |-> IF i = 0 THEN 0 ELSE f[i - 1] + w(i)]
           sum == CHOOSE f : Is(f)
           step == [p \in (1..n) \X Int |-> p[2] + w(p[1])]
<1>1. WeightSum(set) = sum[n]
  BY DEF WeightSum
<1>2. n \in Nat /\ \A i \in 1..n : w(i) \in Int
  OBVIOUS
<1> HIDE DEF n, w
<1>3. step \in [(1..n) \X Int -> Int] /\ \A i \in 1..n, x \in Int : step[<<i, x>>] = x + w(i)
  BY <1>2
<1> HIDE DEF step
<1>4. PICK f : Unfolds(Int, n, 0, step, f)
  <2>1. 0 \in Int
    OBVIOUS
  <2>2. \E f : Recursion(n, 0, step, f)
    BY <1>2, <1>3, <2>1, RecursionExists
  <2>3. \A f : Recursion(n, 0, step, f) => Unfolds(Int, n, 0, step, f)
    BY <1>2, <1>3, <2>1, RecursionExists
  <2> QED BY <2>2, <2>3
<1>5. Is(f)
  <2>1. f \in [0..n -> Int] /\ f[0] = 0 /\ \A i \in 1..n : f[i] = step[<<i, f[i - 1]>>]
    BY <1>4 DEF Unfolds
  <2>2. \A i \in 0..n : f[i] = IF i = 0 THEN 0 ELSE f[i - 1] + w(i)
    <3> SUFFICES ASSUME NEW i \in 0..n, i # 0 PROVE f[i] = f[i - 1] + w(i)
      BY <2>1
    <3>1. i \in 1..n /\ i - 1 \in 0..n
      BY <1>2
    <3> QED BY <1>3, <2>1, <3>1
  <2> QED BY <2>1, <2>2
<1>6. Is(sum)
  <2> HIDE DEF Is
  <2> QED BY <1>5
<1> DEFINE val(i) == IF i = 0 THEN 0 ELSE sum[i - 1] + w(i)
<1>7. sum = [i \in 0..n |-> val(i)]
  BY <1>6
<1>8. val(0) = 0 /\ \A i \in 1..n : val(i) = sum[i - 1] + w(i)
  OBVIOUS
<1> HIDE DEF val, Is, sum
<1>9. 0 \in 0..n /\ \A i \in 1..n : i \in 0..n
  BY <1>2
<1>10. sum = [i \in 0..n |-> sum[i]] /\ sum[0] = 0 /\ \A i \in 1..n : sum[i] = sum[i - 1] + w(i)
  BY <1>7, <1>8, <1>9
<1> DEFINE U == {i \in 0..n : sum[i] \in Int}
<1>11. ASSUME NEW m \in Nat, m < n, m \in U PROVE m + 1 \in U
  <2>1. m + 1 \in 1..n /\ m + 1 \in 0..n /\ (m + 1) - 1 = m
    BY <1>2, <1>11
  <2>2. sum[m + 1] = sum[m] + w(m + 1)
    BY <1>10, <2>1
  <2> QED BY <1>2, <1>11, <2>1, <2>2
<1>12. 0..n \subseteq U
  <2>1. 0 \in U
    BY <1>9, <1>10
  <2> HIDE DEF U
  <2> QED BY <1>2, <1>11, <2>1, BoundedInduction
<1>13. Sums(n, set, sum)
  BY <1>10, <1>12 DEF Sums, w
<1> QED BY <1>1, <1>13 DEF n

(***************************************************************************)
(* One string at most, the one at place c, weighs more than 100%.          *)
(***************************************************************************)
LEMMA WeightSumBounded ==
  ASSUME NEW set, Len(set) \in Nat, \A i \in 1..Len(set) : StringWeight(set[i]) \in Int,
         NEW c \in Nat, \A i \in 1..Len(set) : StringWeight(set[i]) <= IF i = c THEN CodeWeight ELSE 0
  PROVE  WeightSum(set) \in Int /\ WeightSum(set) <= IF c \in 1..Len(set) THEN CodeWeight ELSE 0
<1> DEFINE n == Len(set)
           w(i) == StringWeight(set[i])
<1>1. PICK sum : Sums(n, set, sum) /\ WeightSum(set) = sum[n]
  BY WeightSumIs
<1>2. /\ sum \in [0..n -> Int] /\ sum[0] = 0
      /\ \A i \in 1..n : sum[i] = sum[i - 1] + w(i)
  BY <1>1 DEF Sums
<1>3. n \in Nat /\ CodeWeight = 3041
      /\ \A i \in 1..n : w(i) \in Int /\ w(i) <= IF i = c THEN CodeWeight ELSE 0
  BY DEF CodeWeight
<1> HIDE DEF n, w
<1> DEFINE U == {m \in 0..n : sum[m] <= IF c \in 1..m THEN 3041 ELSE 0}
<1>4. 0 \in U
  BY <1>2, <1>3
<1>5. ASSUME NEW m \in Nat, m < n, m \in U PROVE m + 1 \in U
  <2> DEFINE i == m + 1
  <2>1. i \in 1..n /\ i \in 0..n /\ i - 1 = m /\ m \in 0..n
    BY <1>3, <1>5
  <2>2. c \in 1..i <=> c = i \/ c \in 1..m
    OBVIOUS
  <2>3. ~ (i \in 1..m)
    OBVIOUS
  <2> HIDE DEF i
  <2>4. sum[i] = sum[m] + w(i) /\ sum[m] \in Int /\ w(i) \in Int /\ w(i) <= IF i = c THEN 3041 ELSE 0
    BY <1>2, <1>3, <2>1
  <2>5. sum[m] <= IF c \in 1..m THEN 3041 ELSE 0
    BY <1>5
  <2> DEFINE x == sum[m]
             y == w(i)
             z == sum[i]
  <2>6. x \in Int /\ y \in Int /\ z = x + y
    BY <2>4
  <2> HIDE DEF x, y, z
  <2>7. CASE c = i
    <3>1. x <= 0 /\ y <= 3041
      BY <2>3, <2>4, <2>5, <2>7 DEF x, y
    <3>2. z <= 3041
      BY <2>6, <3>1
    <3> QED BY <2>1, <2>2, <2>7, <3>2 DEF z, i
  <2>8. CASE c # i
    <3>1. y <= 0
      BY <2>4, <2>8 DEF y
    <3>2. z <= x
      BY <2>6, <3>1
    <3>3. z <= IF c \in 1..m THEN 3041 ELSE 0
      BY <2>5, <2>6, <3>2 DEF x
    <3> QED BY <2>1, <2>2, <2>8, <3>3 DEF z, i
  <2> QED BY <2>7, <2>8
<1>6. 0..n \subseteq U
  <2>1. n \in Nat
    BY <1>3
  <2> HIDE DEF U
  <2> QED BY <2>1, <1>4, <1>5, BoundedInduction
<1>7. n \in U
  BY <1>3, <1>6
<1> QED BY <1>1, <1>2, <1>3, <1>7 DEF n

(***************************************************************************)
(* The weight of a string of the slice.                                    *)
(***************************************************************************)
Chosen(r) == r.docs[r.best]
CodeString(r) == HasMatched(r) /\ CodeMatches(r, Chosen(r))

LEMMA StringWeights ==
  ASSUME index \in Indexes, AllHaveBest(Found), NEW s, Hand(s), NEW p \in ToSet(Strings)
  PROVE  LET r == Weighed(Found)[p]
         IN  /\ HasMatched(r) => r.best \in 1..Len(r.docs)
             /\ StringWeight(r) \in Int
             /\ StringWeight(r) <= IF CodeString(r) THEN CodeWeight ELSE 0
<1> DEFINE r == Weighed(Found)[p]
           phrase == Text(p)
<1>1. /\ phrase \in Seq(Word) /\ ResultOf(phrase, r) /\ ResultOf(phrase, Found[p])
      /\ r.best = BestDocument(Found[p]) /\ BestDocument(r) = BestDocument(Found[p])
      /\ p \in DOMAIN Found
  BY FoundIs
<1>2. HasMatched(r) <=> HasMatched(Found[p])
  BY <1>1, DocsOfResult
<1> HIDE DEF r, phrase
<1>3. ASSUME HasMatched(r) PROVE r.best \in 1..Len(r.docs)
  <2>1. r.best # 0
    BY <1>1, <1>2, <1>3 DEF AllHaveBest
  <2>2. r.best \in 0..Len(r.docs) /\ Len(r.docs) \in Nat
    BY <1>1, BestIs, DocsOfResult
  <2> QED BY <2>1, <2>2
<1>4. CASE HasMatched(r)
  <2>1. StringWeight(r) = DocumentWeight(r, Chosen(r))
    BY <1>4 DEF StringWeight, Chosen
  <2> DEFINE i == r.best
  <2>2. i \in 1..Len(r.docs)
    BY <1>3, <1>4
  <2> HIDE DEF i
  <2>3. /\ DocumentWeight(r, r.docs[i]) \in Int
        /\ DocumentWeight(r, r.docs[i]) <= IF CodeMatches(r, r.docs[i]) THEN CodeWeight ELSE 0
    BY <1>1, <2>2, DocumentWeights
  <2> QED BY <1>3, <1>4, <2>1, <2>3 DEF CodeString, Chosen, i, r
<1>5. CASE ~ HasMatched(r)
  <2>1. StringWeight(r) = UnmatchedWeight(phrase)
    BY <1>1, <1>5 DEF StringWeight, ResultOf
  <2>2. Len(phrase) \in Nat
    BY <1>1
  <2>3. UnmatchedWeight(phrase) \in Int /\ UnmatchedWeight(phrase) <= 0
    <3> DEFINE n == Len(phrase)
    <3>1. UnmatchedWeight(phrase) = IF n = 1 /\ Keep(phrase) THEN 0 ELSE -3000 * n - 2000
      BY DEF UnmatchedWeight
    <3> HIDE DEF n
    <3>2. n \in Nat
      BY <2>2 DEF n
    <3>3. -3000 * n - 2000 \in Int /\ -3000 * n - 2000 <= 0
      BY <3>2
    <3> QED BY <3>1, <3>3
  <2> QED BY <1>5, <2>1, <2>3 DEF CodeString, r
<1> QED BY <1>4, <1>5

\* the Results of the strings of a set
ResultsOf(set) == [k \in DOMAIN set |-> Weighed(Found)[set[k]]]

LEMMA SetWeights ==
  ASSUME index \in Indexes, AllHaveBest(Found), NEW s, Hand(s), NEW set \in ToSet(Sets)
  PROVE  /\ Len(set) \in Nat \ {0} /\ DOMAIN set = 1..Len(set) /\ Len(ResultsOf(set)) = Len(set)
         /\ \A k \in 1..Len(set) :
               /\ set[k] \in ToSet(Strings) /\ set[k] \in ToSet(set)
               /\ ResultsOf(set)[k] = Weighed(Found)[set[k]]
               /\ StringWeight(ResultsOf(set)[k]) \in Int
               /\ StringWeight(ResultsOf(set)[k])
                     <= IF CodeString(ResultsOf(set)[k]) THEN CodeWeight ELSE 0
         /\ WeightSum(ResultsOf(set)) \in Int /\ SetWeight(ResultsOf(set)) \in Int
<1> DEFINE n == Len(set)
           list == ResultsOf(set)
<1>1. n \in Nat /\ n # 0 /\ DOMAIN set = 1..n
  <2> DEFINE P == Seq(s.from..s.to)
  <2>1. set \in Seq(P) /\ set # <<>>
    BY DEF Hand, SetOf
  <2> HIDE DEF P
  <2> QED BY <2>1, EmptySeq
<1>2. DOMAIN list = 1..n /\ \A k \in 1..n : list[k] = Weighed(Found)[set[k]]
  BY <1>1 DEF ResultsOf
<1>3. Len(list) = n
  <2>1. list = [k \in 1..n |-> Weighed(Found)[set[k]]]
    BY <1>1 DEF ResultsOf
  <2> HIDE DEF list, n
  <2> QED BY <1>1, <2>1
<1>4. \A k \in 1..n : set[k] \in ToSet(set) /\ set[k] \in ToSet(Strings)
  <2>1. \A k \in 1..n : set[k] \in ToSet(set)
    BY <1>1 DEF ToSet
  <2>2. ToSet(set) \subseteq ToSet(Strings)
    BY StringsInHand
  <2> QED BY <2>1, <2>2
<1> HIDE DEF n, list
<1>5. ASSUME NEW k \in 1..n
      PROVE  StringWeight(list[k]) \in Int
             /\ StringWeight(list[k]) <= IF CodeString(list[k]) THEN CodeWeight ELSE 0
  <2> DEFINE p == set[k]
  <2>1. p \in ToSet(Strings) /\ list[k] = Weighed(Found)[p]
    BY <1>2, <1>4
  <2> HIDE DEF p
  <2> QED BY <2>1, StringWeights
<1>6. WeightSum(list) \in Int
  <2>1. PICK sum : Sums(Len(list), list, sum) /\ WeightSum(list) = sum[Len(list)]
    BY <1>1, <1>3, <1>5, WeightSumIs
  <2>2. sum \in [0..n -> Int] /\ n \in 0..n
    BY <1>1, <1>3, <2>1 DEF Sums
  <2> QED BY <1>3, <2>1, <2>2
<1>7. SetWeight(list) \in Int
  <2> DEFINE x == WeightSum(list)
  <2>1. SetWeight(list) = x + (IF n > 1 THEN n * (-2929) ELSE 0)
    BY <1>3 DEF SetWeight, AttenuationWeight
  <2>2. x \in Int
    BY <1>6
  <2> HIDE DEF x
  <2> QED BY <1>1, <2>1, <2>2
<1> QED BY <1>1, <1>2, <1>3, <1>4, <1>5, <1>6, <1>7 DEF n, list

LEMMA ChosenSet ==
  ASSUME Frame, pc = "done", rpc = "places"
  PROVE  /\ Hand(slices[cur]) /\ cur \in 1..Len(slices) /\ AllHaveBest(Found)
         /\ results = Weighed(Found)
         /\ best \in 1..Len(Sets) /\ DOMAIN Sets = 1..Len(Sets) /\ Len(Sets) \in Nat
         /\ \A i \in 1..Len(Sets) :
               /\ Sets[i] \in ToSet(Sets) /\ SetOf(slices[cur], Sets[i])
               /\ SetWeight(ResultsOf(Sets[i])) <= SetWeight(ResultsOf(Sets[best]))
<1> DEFINE s == slices[cur]
           m == Len(Sets)
<1>1. /\ cur <= Len(slices) /\ AllHaveBest(Found) /\ results = Weighed(Found)
      /\ weights = WeightsOf(Weighed(Found)) /\ best = FirstBest(weights) /\ best # 0
      /\ index \in Indexes
  BY DEF Frame, Steps
<1>2. Hand(s)
  BY <1>1, HandIs
<1>3. cur \in 1..Len(slices)
  BY <1>2 DEF Hand
<1> HIDE DEF s
<1>4. DOMAIN Sets = 1..m /\ m \in Nat
  <2> DEFINE P == Seq(Seq(s.from..s.to))
  <2>1. Sets \in Seq(P)
    BY <1>2 DEF Hand, PartitionOf
  <2> HIDE DEF P
  <2> QED BY <2>1
<1>5. \A i \in 1..m : Sets[i] \in ToSet(Sets)
  BY <1>4 DEF ToSet
<1>6. weights = [i \in 1..m |-> SetWeight(ResultsOf(Sets[i]))]
  BY <1>1, <1>4 DEF WeightsOf, ResultsOf
<1>7. \A i \in 1..m : SetWeight(ResultsOf(Sets[i])) \in Int
  BY <1>1, <1>2, <1>5, SetWeights
<1> HIDE DEF m
<1>8. weights \in [1..m -> Int] /\ \A i \in 1..m : weights[i] = SetWeight(ResultsOf(Sets[i]))
  BY <1>6, <1>7
<1>9. FirstHighest(m, weights, best)
  BY <1>1, <1>4, <1>8, FirstBestIs
<1>10. best \in 0..m /\ \A i \in 1..m : weights[i] <= weights[best]
  BY <1>1, <1>9 DEF FirstHighest
<1>11. best \in 1..m
  BY <1>1, <1>4, <1>10
<1>12. \A i \in 1..m : SetWeight(ResultsOf(Sets[i])) <= SetWeight(ResultsOf(Sets[best]))
  BY <1>8, <1>10, <1>11
<1>13. \A i \in 1..m : SetOf(s, Sets[i])
  BY <1>2, <1>5 DEF Hand
<1> QED BY <1>1, <1>2, <1>3, <1>4, <1>5, <1>11, <1>12, <1>13 DEF s, m

-----------------------------------------------------------------------------
(***************************************************************************)
(* The locations made of one slice.                                        *)
(***************************************************************************)
Ids == {d.id : d \in ToSet(index)}
Places == [from : Nat, to : Nat, doc : Ids, as : {"code", "phrase"}]

Comes(l, m) ==
    \/ l.to < m.from
    \/ l.as = "code" /\ m.as = "code" /\ l.from = m.from /\ l.doc # m.doc
After == {z \in Places \X Places : Comes(z[1], z[2])}

LEMMA AfterIs ==
  ASSUME NEW l \in Places, NEW m \in Places
  PROVE  <<l, m>> \in After <=> Comes(l, m)
  BY DEF After

\* a location is some words of the query, and a phrase is one that is found
Genuine(l) ==
    /\ l.from # 0 /\ l.from <= l.to /\ l.to <= Len(query)
    /\ l.as = "phrase" => Matching(Searched(SubSeq(query, l.from, l.to))) # <<>>

AnswersOf(s, new) ==
    /\ new \in Seq(Places) /\ Ordered(After, new)
    /\ \A l \in ToSet(new) : Genuine(l) /\ s.from <= l.from /\ l.to <= s.to

\* where the location of a matched string comes from
PlaceOf(p) == Location(p, Chosen(results[p]), "phrase")

LEMMA PlacesAre ==
  ASSUME Frame, pc = "done", rpc = "places"
  PROVE  /\ AnswersOf(slices[cur], PlacesOf(Sets[best]))
         /\ \A p \in ToSet(Sets[best]) :
               HasMatched(results[p]) => PlaceOf(p) \in ToSet(PlacesOf(Sets[best]))
<1> DEFINE s == slices[cur]
           set == Sets[best]
           P == Seq(s.from..s.to)
           T == {p \in P : HasMatched(results[p])}
           Is(f) == f = [i \in 0..Len(set) |->
                            IF i = 0 THEN <<>>
                            ELSE IF HasMatched(results[set[i]])
                                 THEN Append(f[i - 1], set[i]) ELSE f[i - 1]]
           some == CHOOSE f : Is(f)
           matched == some[Len(set)]
<1>0. /\ Hand(s) /\ AllHaveBest(Found) /\ results = Weighed(Found)
      /\ set \in ToSet(Sets) /\ SetOf(s, set) /\ index \in Indexes
  BY ChosenSet DEF Frame
<1>1. set \in Seq(P) /\ set # <<>>
  BY <1>0 DEF SetOf
<1>2. /\ s.from \in Nat /\ s.from # 0 /\ s.to \in Nat /\ s.to <= Len(query)
      /\ query \in Seq(Word) /\ Len(query) \in Nat
  BY <1>0 DEF Hand, Bounds
<1>3. PlacesOf(set) = [i \in DOMAIN matched |-> PlaceOf(matched[i])]
  BY DEF PlacesOf, Picked, PlaceOf, Chosen
<1> HIDE DEF P, set, s
<1>4. Len(set) \in Nat /\ DOMAIN set = 1..Len(set) /\ \A i \in 1..Len(set) : set[i] \in P
  BY <1>1
<1>5. \A i \in 0..Len(set) : i # 0 => (HasMatched(results[set[i]]) <=> set[i] \in T)
  <2>1. \A i \in 0..Len(set) : i # 0 => i \in 1..Len(set)
    BY <1>4
  <2> QED BY <1>4, <2>1
<1>6. ASSUME NEW f PROVE Is(f) <=> PickedBy(set, T, f)
  <2> DEFINE a(i) == IF i = 0 THEN <<>>
                     ELSE IF HasMatched(results[set[i]]) THEN Append(f[i - 1], set[i]) ELSE f[i - 1]
             b(i) == IF i = 0 THEN <<>>
                     ELSE IF set[i] \in T THEN Append(f[i - 1], set[i]) ELSE f[i - 1]
  <2>1. \A i \in 0..Len(set) : a(i) = b(i)
    <3> HIDE DEF T
    <3> QED BY <1>5
  <2>2. (Is(f) <=> f = [i \in 0..Len(set) |-> a(i)])
        /\ (PickedBy(set, T, f) <=> f = [i \in 0..Len(set) |-> b(i)])
    BY DEF PickedBy
  <2> HIDE DEF a, b, Is, T
  <2>3. [i \in 0..Len(set) |-> a(i)] = [i \in 0..Len(set) |-> b(i)]
    BY <2>1
  <2> QED BY <2>2, <2>3
<1>7. matched \in Seq(P) /\ Selection(set, T, matched)
  <2> HIDE DEF Is, T
  <2>1. \E f : Is(f)
    BY <1>1, <1>6, PickedExists
  <2>2. Is(some)
    BY <2>1
  <2>3. PickedBy(set, T, some)
    BY <1>6, <2>2
  <2> HIDE DEF some
  <2> QED BY <1>1, <2>3, PickedSelects
<1> HIDE DEF some, matched
<1> DEFINE n == Len(matched)
           new == PlacesOf(set)
<1>8. DOMAIN matched = 1..n /\ n \in Nat
  BY <1>7
<1>9. \A i \in 1..n : matched[i] \in ToSet(set) /\ HasMatched(results[matched[i]])
  <2>1. ToSet(matched) = ToSet(set) \cap T
    BY <1>7 DEF Selection
  <2>2. \A i \in 1..n : matched[i] \in ToSet(matched)
    BY <1>8 DEF ToSet
  <2> QED BY <2>1, <2>2
<1> HIDE DEF n, T
<1>10. ASSUME NEW p \in ToSet(set), HasMatched(results[p])
       PROVE  /\ Run(s.from, s.to, p) /\ PlaceOf(p) \in Places /\ Genuine(PlaceOf(p))
              /\ PlaceOf(p).from = p[1] /\ PlaceOf(p).to = p[Len(p)]
              /\ p[1] \in s.from..s.to /\ p[Len(p)] \in s.from..s.to
              /\ p[1] \in ToSet(p) /\ p[Len(p)] \in ToSet(p)
  <2> DEFINE r == results[p]
             l == PlaceOf(p)
  <2>1. p \in ToSet(Strings)
    BY <1>0, StringsInHand
  <2>2. /\ Text(p) \in Seq(Word) /\ ResultOf(Text(p), r) /\ Len(Text(p)) = Len(p)
        /\ r.best \in 1..Len(r.docs)
    BY <1>0, <1>10, <2>1, FoundIs, StringWeights
  <2>3. Chosen(r) \in ToSet(index)
    BY <1>0, <2>2, DocsOfResult DEF Chosen
  <2>4. Keep(Text(p)) /\ Matching(Searched(Text(p))) # <<>>
    BY <1>0, <1>10, <2>2, DocsOfResult
  <2>5. p # <<>>
    <3> SUFFICES ASSUME p = <<>> PROVE FALSE
      OBVIOUS
    <3>1. Len(Text(p)) = 0
      BY <2>2
    <3> QED BY <2>4, <3>1 DEF Keep
  <2>6. Run(s.from, s.to, p)
    BY <1>0, <2>5 DEF SetOf
  <2>7. /\ p[1] \in s.from..s.to /\ p[Len(p)] \in s.from..s.to /\ p[1] <= p[Len(p)]
        /\ ToSet(p) = p[1]..p[Len(p)]
    BY <1>2, <2>6, RunIs
  <2>8. l = [from |-> p[1], to |-> p[Len(p)], doc |-> Chosen(r).id, as |-> "phrase"]
    BY DEF PlaceOf, Location
  <2>9. Text(p) = SubSeq(query, p[1], p[Len(p)])
    BY <1>2, <2>6, TextOfRun
  <2> HIDE DEF l, r
  <2> DEFINE a == p[1]
             b == p[Len(p)]
  <2>10. /\ a \in Nat /\ b \in Nat /\ a # 0 /\ a <= b /\ b <= Len(query)
         /\ a \in ToSet(p) /\ b \in ToSet(p)
    BY <1>2, <2>7
  <2> HIDE DEF a, b
  <2>11. l \in Places
    BY <2>3, <2>8, <2>10 DEF Places, Ids, a, b
  <2>12. l.from = a /\ l.to = b /\ l.as = "phrase"
    BY <2>8 DEF a, b
  <2>13. Matching(Searched(SubSeq(query, l.from, l.to))) # <<>>
    BY <2>4, <2>9, <2>12 DEF a, b
  <2>14. Genuine(l)
    BY <2>10, <2>12, <2>13 DEF Genuine
  <2> QED BY <2>6, <2>7, <2>10, <2>11, <2>12, <2>14 DEF l, a, b
<1>11. new = [i \in 1..n |-> PlaceOf(matched[i])]
  BY <1>3, <1>8
<1>12. new \in [1..n -> Places] /\ \A i \in 1..n : new[i] = PlaceOf(matched[i])
  BY <1>9, <1>10, <1>11
<1> HIDE DEF new
<1>13. new \in Seq(Places) /\ DOMAIN new = 1..n
  BY <1>8, <1>12 DEF n
<1>14. Ordered(After, new)
  <2> SUFFICES ASSUME NEW j \in 1..n, NEW k \in 1..n, j < k PROVE <<new[j], new[k]>> \in After
    BY <1>13 DEF Ordered
  <2>1. PICK e \in [DOMAIN matched -> DOMAIN set] :
            /\ \A i \in DOMAIN matched : matched[i] = set[e[i]]
            /\ \A i, l \in DOMAIN matched : i < l => e[i] < e[l]
    BY <1>7 DEF Selection
  <2>2. /\ e[j] \in DOMAIN set /\ e[k] \in DOMAIN set /\ e[j] < e[k]
        /\ matched[j] = set[e[j]] /\ matched[k] = set[e[k]]
    BY <1>8, <2>1
  <2> DEFINE p == matched[j]
             q == matched[k]
  <2>3. /\ p \in ToSet(set) /\ q \in ToSet(set) /\ HasMatched(results[p]) /\ HasMatched(results[q])
        /\ new[j] = PlaceOf(p) /\ new[k] = PlaceOf(q)
    BY <1>9, <1>12
  <2>4. \A x \in ToSet(p), y \in ToSet(q) : x < y
    BY <1>0, <2>2 DEF SetOf
  <2> HIDE DEF p, q
  <2>5. PlaceOf(p).to < PlaceOf(q).from /\ PlaceOf(p) \in Places /\ PlaceOf(q) \in Places
    BY <1>10, <2>3, <2>4
  <2> QED BY <2>3, <2>5, AfterIs DEF Comes
<1>15. \A l \in ToSet(new) : Genuine(l) /\ s.from <= l.from /\ l.to <= s.to
  <2> SUFFICES ASSUME NEW i \in 1..n PROVE Genuine(new[i]) /\ s.from <= new[i].from /\ new[i].to <= s.to
    BY <1>13 DEF ToSet
  <2> DEFINE p == matched[i]
  <2>1. p \in ToSet(set) /\ HasMatched(results[p]) /\ new[i] = PlaceOf(p)
    BY <1>9, <1>12
  <2> HIDE DEF p
  <2>2. /\ Genuine(new[i]) /\ new[i].from \in s.from..s.to /\ new[i].to \in s.from..s.to
    BY <1>10, <2>1
  <2> QED BY <1>2, <2>2
<1>16. AnswersOf(s, new)
  BY <1>13, <1>14, <1>15 DEF AnswersOf
<1>17. ASSUME NEW p \in ToSet(set), HasMatched(results[p]) PROVE PlaceOf(p) \in ToSet(new)
  <2>1. p \in P
    BY <1>1, <1>17, ElementsTyped
  <2>2. p \in ToSet(set) \cap T
    BY <1>17, <2>1 DEF T
  <2>3. p \in ToSet(matched)
    BY <1>7, <2>2 DEF Selection
  <2>4. PICK i \in 1..n : p = matched[i]
    BY <1>8, <2>3 DEF ToSet
  <2> QED BY <1>12, <1>13, <2>4 DEF ToSet
<1> QED BY <1>16, <1>17 DEF s, set, new

(***************************************************************************)
(* The locations of the codes: those of a code are of several PORs.        *)
(***************************************************************************)
OfSeveral(rows) ==
    /\ rows \in Seq(ToSet(index)) /\ DOMAIN rows = 1..Len(rows) /\ Len(rows) \in Nat
    /\ \A j, k \in 1..Len(rows) : j < k => rows[j].id # rows[k].id

LEMMA RowsAre ==
  ASSUME index \in Indexes, NEW w
  PROVE  OfSeveral(Rows(w))
<1> DEFINE S == ToSet(index)
           T == {d \in S : d.code[Kind[w]] = w}
           Is(f) == f = [i \in 0..Len(index) |->
                            IF i = 0 THEN <<>>
                            ELSE IF index[i].code[Kind[w]] = w THEN Append(f[i - 1], index[i]) ELSE f[i - 1]]
           some == CHOOSE f : Is(f)
           rows == some[Len(index)]
<1>1. index \in Seq(S)
  BY IndexIs
<1>2. Rows(w) = rows
  BY DEF Rows, Picked
<1>3. Len(index) \in Nat /\ DOMAIN index = 1..Len(index)
  BY <1>1
<1>4. \A i \in 0..Len(index) : i = 0 \/ (i \in 1..Len(index) /\ index[i] \in S)
  BY <1>3 DEF ToSet
<1>5. \A i \in 0..Len(index) : i # 0 => (index[i].code[Kind[w]] = w <=> index[i] \in T)
  BY <1>4
<1>6. ASSUME NEW f PROVE Is(f) <=> PickedBy(index, T, f)
  <2> DEFINE a(i) == IF i = 0 THEN <<>>
                     ELSE IF index[i].code[Kind[w]] = w THEN Append(f[i - 1], index[i]) ELSE f[i - 1]
             b(i) == IF i = 0 THEN <<>>
                     ELSE IF index[i] \in T THEN Append(f[i - 1], index[i]) ELSE f[i - 1]
  <2>1. \A i \in 0..Len(index) : a(i) = b(i)
    <3> HIDE DEF T, S
    <3> QED BY <1>5
  <2>2. (Is(f) <=> f = [i \in 0..Len(index) |-> a(i)])
        /\ (PickedBy(index, T, f) <=> f = [i \in 0..Len(index) |-> b(i)])
    BY DEF PickedBy
  <2> HIDE DEF a, b, Is, T, S
  <2>3. [i \in 0..Len(index) |-> a(i)] = [i \in 0..Len(index) |-> b(i)]
    BY <2>1
  <2> QED BY <2>2, <2>3
<1>7. rows \in Seq(S) /\ Selection(index, T, rows)
  <2> HIDE DEF Is, T, S
  <2>1. \E f : Is(f)
    BY <1>1, <1>6, PickedExists
  <2>2. Is(some)
    BY <2>1
  <2>3. PickedBy(index, T, some)
    BY <1>6, <2>2
  <2> HIDE DEF some
  <2> QED BY <1>1, <2>3, PickedSelects
<1> HIDE DEF some, rows
<1>8. DOMAIN rows = 1..Len(rows) /\ Len(rows) \in Nat
  BY <1>7
<1>9. PICK e \in [DOMAIN rows -> DOMAIN index] :
          /\ \A k \in DOMAIN rows : rows[k] = index[e[k]]
          /\ \A j, k \in DOMAIN rows : j < k => e[j] < e[k]
  BY <1>7 DEF Selection
<1>10. ASSUME NEW j \in 1..Len(rows), NEW k \in 1..Len(rows), j < k PROVE rows[j].id # rows[k].id
  <2>1. /\ e[j] \in DOMAIN index /\ e[k] \in DOMAIN index /\ e[j] < e[k]
        /\ rows[j] = index[e[j]] /\ rows[k] = index[e[k]]
    BY <1>8, <1>9, <1>10
  <2> QED BY <2>1, IndexIs
<1> QED BY <1>2, <1>7, <1>8, <1>10 DEF OfSeveral

LEMMA RowsKeptAre ==
  ASSUME index \in Indexes, NEW w
  PROVE  OfSeveral(RowsKept(w))
<1> DEFINE rows == Rows(w)
           ranks == [i \in DOMAIN rows |-> rows[i].rank]
           one == FirstBest(ranks)
           S == ToSet(index)
<1>1. OfSeveral(rows)
  BY RowsAre
<1>2. RowsKept(w) = IF Kind[w] # "iata" THEN rows ELSE IF one = 0 THEN <<>> ELSE <<rows[one]>>
  BY DEF RowsKept
<1> HIDE DEF rows
<1>3. /\ rows \in Seq(S) /\ DOMAIN rows = 1..Len(rows) /\ Len(rows) \in Nat
  BY <1>1 DEF OfSeveral
<1>4. \A i \in 1..Len(rows) : rows[i] \in S /\ rows[i].rank \in Int
  <2>1. \A i \in 1..Len(rows) : rows[i] \in S
    <3> HIDE DEF S
    <3> QED BY <1>3
  <2> QED BY <2>1, IndexIs, DocumentIs
<1>5. ranks \in [1..Len(rows) -> Int]
  BY <1>3, <1>4
<1> HIDE DEF ranks
<1>6. one \in 0..Len(rows)
  BY <1>3, <1>5, FirstBestIs DEF FirstHighest
<1> HIDE DEF one
<1>7. ASSUME one # 0 PROVE OfSeveral(<<rows[one]>>)
  <2> DEFINE d == rows[one]
             list == <<d>>
  <2>1. d \in S
    <3>1. one \in 1..Len(rows)
      BY <1>3, <1>6, <1>7
    <3> QED BY <1>4, <3>1
  <2> HIDE DEF d, S
  <2>2. list \in Seq(S) /\ DOMAIN list = 1..Len(list) /\ Len(list) \in Nat /\ Len(list) = 1
    BY <2>1
  <2> HIDE DEF list
  <2>3. \A j, k \in 1..Len(list) : ~ (j < k)
    BY <2>2
  <2>4. OfSeveral(list)
    BY <2>2, <2>3 DEF OfSeveral, S
  <2> QED BY <2>4 DEF list, d
<1>8. OfSeveral(<<>>)
  BY DEF OfSeveral
<1> QED BY <1>1, <1>2, <1>7, <1>8

LEMMA LocationsOfAre ==
  ASSUME index \in Indexes, NEW x \in Nat, x # 0, x <= Len(query)
  PROVE  /\ LocationsOf(x) \in Seq(Places) /\ Ordered(After, LocationsOf(x))
         /\ \A l \in ToSet(LocationsOf(x)) : Genuine(l) /\ l.from = x /\ l.to = x
<1> DEFINE rows == RowsKept(query[x])
           n == Len(rows)
           at(k) == [from |-> x, to |-> x, doc |-> rows[k].id, as |-> "code"]
           new == LocationsOf(x)
<1>1. OfSeveral(rows)
  BY RowsKeptAre
<1>2. new = [k \in DOMAIN rows |-> Location(<<x>>, rows[k], "code")]
  BY DEF LocationsOf
<1> HIDE DEF rows
<1>3. \A k : Location(<<x>>, rows[k], "code") = at(k)
  BY DEF Location
<1>4. /\ n \in Nat /\ DOMAIN rows = 1..n /\ \A k \in 1..n : rows[k] \in ToSet(index)
      /\ \A j, k \in 1..n : j < k => rows[j].id # rows[k].id
  <2> DEFINE S == ToSet(index)
  <2>1. rows \in Seq(S) /\ DOMAIN rows = 1..n /\ n \in Nat
    BY <1>1 DEF OfSeveral
  <2> HIDE DEF S
  <2>2. \A k \in 1..n : rows[k] \in S
    BY <2>1
  <2> QED BY <1>1, <2>1, <2>2 DEF OfSeveral, S
<1> HIDE DEF n
<1>5. \A k \in 1..n : at(k) \in Places
  BY <1>4 DEF Places, Ids
<1>6. new = [k \in 1..n |-> at(k)]
  BY <1>2, <1>3, <1>4
<1>7. \A k \in 1..n : at(k).from = x /\ at(k).to = x /\ at(k).as = "code" /\ at(k).doc = rows[k].id
  OBVIOUS
<1> HIDE DEF at, new
<1>8. new \in [1..n -> Places] /\ \A k \in 1..n : new[k] = at(k)
  BY <1>5, <1>6
<1>9. new \in Seq(Places) /\ DOMAIN new = 1..n
  BY <1>4, <1>8
<1>10. Ordered(After, new)
  <2> SUFFICES ASSUME NEW j \in 1..n, NEW k \in 1..n, j < k PROVE <<new[j], new[k]>> \in After
    BY <1>9 DEF Ordered
  <2>1. Comes(at(j), at(k))
    BY <1>4, <1>7 DEF Comes
  <2> QED BY <1>5, <1>8, <2>1, AfterIs
<1>11. \A k \in 1..n : Genuine(at(k))
  BY <1>7 DEF Genuine
<1>12. \A l \in ToSet(new) : Genuine(l) /\ l.from = x /\ l.to = x
  <2>1. \A l \in ToSet(new) : \E k \in 1..n : l = at(k)
    BY <1>8, <1>9 DEF ToSet
  <2> QED BY <1>7, <1>11, <2>1
<1> QED BY <1>9, <1>10, <1>12 DEF new

LEMMA CodeLocationsAre ==
  ASSUME index \in Indexes, NEW s, Hand(s)
  PROVE  AnswersOf(s, CodeLocations)
<1> DEFINE q == InHand
           n == Len(q)
           seqs == [i \in DOMAIN q |-> LocationsOf(q[i])]
           new == FlattenSeq(seqs)
           S == s.from..s.to
<1>1. new = CodeLocations
  BY DEF CodeLocations
<1>2. /\ s.from \in Nat /\ s.from # 0 /\ s.to \in Nat /\ s.to <= Len(query) /\ Len(query) \in Nat
      /\ q \in Seq(S) /\ \A i \in 1..n : q[i] = s.from + i - 1
  BY DEF Hand, Bounds, PositionsOf
<1> HIDE DEF q, S
<1>3. n \in Nat /\ DOMAIN q = 1..n /\ \A i \in 1..n : q[i] \in S
  BY <1>2
<1>4. \A x \in S : x \in Nat /\ x # 0 /\ x <= Len(query) /\ s.from <= x /\ x <= s.to
  BY <1>2 DEF S
<1> HIDE DEF n
<1>5. \A i \in 1..n :
          /\ LocationsOf(q[i]) \in Seq(Places) /\ Ordered(After, LocationsOf(q[i]))
          /\ \A l \in ToSet(LocationsOf(q[i])) : Genuine(l) /\ l.from = q[i] /\ l.to = q[i]
  BY <1>3, <1>4, LocationsOfAre
<1> DEFINE P == Seq(Places)
<1>6. seqs \in [1..n -> P] /\ \A i \in 1..n : seqs[i] = LocationsOf(q[i])
  <2> HIDE DEF P
  <2>1. \A i \in 1..n : LocationsOf(q[i]) \in P
    BY <1>5 DEF P
  <2> QED BY <1>3, <2>1
<1> HIDE DEF seqs
<1>7. seqs \in Seq(P) /\ DOMAIN seqs = 1..n
  <2> HIDE DEF P
  <2> QED BY <1>3, <1>6
<1>8. new \in Seq(Places) /\ ToSet(new) = UNION {ToSet(x) : x \in ToSet(seqs)}
  BY <1>7, FlattenElements
<1>9. \A i \in 1..n : \A l \in ToSet(seqs[i]) : l \in Places
  <2> SUFFICES ASSUME NEW i \in 1..n, NEW l \in ToSet(seqs[i]) PROVE l \in Places
    OBVIOUS
  <2>1. seqs[i] \in Seq(Places)
    BY <1>6
  <2> HIDE DEF P
  <2> QED BY <2>1, ElementsTyped
<1>10. OrderedParts(After, seqs)
  <2>1. \A k \in DOMAIN seqs : Ordered(After, seqs[k])
    BY <1>5, <1>6, <1>7
  <2>2. ASSUME NEW j \in 1..n, NEW k \in 1..n, j < k PROVE Ahead(After, seqs[j], seqs[k])
    <3> SUFFICES ASSUME NEW l \in ToSet(seqs[j]), NEW m \in ToSet(seqs[k]) PROVE <<l, m>> \in After
      BY DEF Ahead
    <3>1. l.to = q[j] /\ m.from = q[k]
      BY <1>5, <1>6
    <3>2. q[j] < q[k]
      BY <1>2, <1>3, <2>2
    <3>3. Comes(l, m)
      BY <3>1, <3>2 DEF Comes
    <3> QED BY <1>9, <3>3, AfterIs
  <2> QED BY <1>7, <2>1, <2>2 DEF OrderedParts
<1>11. Ordered(After, new)
  BY <1>7, <1>10, OrderedFlatten
<1>12. \A l \in ToSet(new) : Genuine(l) /\ s.from <= l.from /\ l.to <= s.to
  <2> SUFFICES ASSUME NEW l \in ToSet(new) PROVE Genuine(l) /\ s.from <= l.from /\ l.to <= s.to
    OBVIOUS
  <2>1. PICK i \in 1..n : l \in ToSet(seqs[i])
    <3> HIDE DEF new, P
    <3>1. PICK y \in ToSet(seqs) : l \in ToSet(y)
      BY <1>8
    <3>2. \E i \in 1..n : y = seqs[i]
      BY <1>7 DEF ToSet
    <3> QED BY <3>1, <3>2
  <2>2. Genuine(l) /\ l.from = q[i] /\ l.to = q[i]
    BY <1>5, <1>6, <2>1
  <2>3. s.from <= q[i] /\ q[i] <= s.to
    BY <1>3, <1>4
  <2> QED BY <2>2, <2>3
<1>13. AnswersOf(s, new)
  BY <1>8, <1>11, <1>12 DEF AnswersOf
<1> QED BY <1>1, <1>13

\* some of the locations only, when the database fails
LEMMA FirstAnswers ==
  ASSUME NEW s, NEW new, AnswersOf(s, new), NEW n \in 0..Len(new)
  PROVE  AnswersOf(s, SubSeq(new, 1, n))
<1> DEFINE some == SubSeq(new, 1, n)
<1>1. new \in Seq(Places) /\ Len(new) \in Nat /\ DOMAIN new = 1..Len(new)
  BY DEF AnswersOf
<1>2. some = [i \in 1..n |-> new[i]]
  <2>1. some = [i \in 1..(n - 1 + 1) |-> new[1 + i - 1]]
    BY <1>1 DEF SubSeq
  <2>2. n - 1 + 1 = n /\ \A i \in 1..n : 1 + i - 1 = i
    BY <1>1
  <2> HIDE DEF some
  <2> QED BY <2>1, <2>2
<1>3. \A i \in 1..n : i \in 1..Len(new) /\ new[i] \in Places
  BY <1>1
<1> HIDE DEF some
<1>4. some \in [1..n -> Places] /\ \A i \in 1..n : some[i] = new[i]
  BY <1>2, <1>3
<1>5. some \in Seq(Places) /\ DOMAIN some = 1..n
  BY <1>1, <1>4
<1>6. Ordered(After, some)
  BY <1>1, <1>3, <1>4, <1>5 DEF Ordered, AnswersOf
<1>7. ToSet(some) \subseteq ToSet(new)
  BY <1>1, <1>3, <1>4, <1>5 DEF ToSet
<1> QED BY <1>5, <1>6, <1>7 DEF AnswersOf, some

-----------------------------------------------------------------------------
(***************************************************************************)
(* The answers so far, and what is ahead of them.                          *)
(***************************************************************************)
AnswersTyped ==
    /\ locations \in Seq(Places) /\ Ordered(After, locations)
    /\ \A l \in ToSet(locations) : Genuine(l)

BeforeSlice(k) == \A l \in ToSet(locations) : l.to < slices[k].from

AnswersInv ==
    /\ AnswersTyped
    /\ rpc # "thrown" => \A k \in DOMAIN slices : cur <= k => BeforeSlice(k)

LEMMA StablePlaces ==
  ASSUME UNCHANGED <<query, index>>
  PROVE  Places' = Places /\ After' = After /\ \A l : Genuine(l)' <=> Genuine(l)
<1>1. Places' = Places
  BY DEF Places, Ids
<1>2. After' = After
  BY <1>1 DEF After
<1>3. ASSUME NEW l PROVE Genuine(l)' <=> Genuine(l)
  BY DEF Genuine, Searched, Matching, IsKnown, InDictionary, Correction, Picked, Holds
<1> QED BY <1>1, <1>2, <1>3

LEMMA StableAnswers ==
  ASSUME AnswersInv, UNCHANGED <<query, index, slices, cur, locations>>,
         rpc' # "thrown" => rpc # "thrown"
  PROVE  AnswersInv'
<1>1. AnswersTyped'
  BY StablePlaces DEF AnswersInv, AnswersTyped, Ordered
<1>2. \A k : BeforeSlice(k)' <=> BeforeSlice(k)
  BY DEF BeforeSlice
<1> QED BY <1>1, <1>2 DEF AnswersInv

LEMMA MoreAnswers ==
  ASSUME Frame, AnswersInv, Onwards, AtStep(rpc), rpc # "thrown",
         NEW new, AnswersOf(slices[cur], new), locations' = locations \o new
  PROVE  /\ AnswersTyped' /\ ToSet(locations') = ToSet(locations) \cup ToSet(new)
         /\ cur' = cur + 1 => AnswersInv'
<1> DEFINE s == slices[cur]
<1>1. /\ Hand(s) /\ cur \in 1..Len(slices) /\ Len(slices) \in Nat /\ DOMAIN slices = 1..Len(slices)
      /\ Inv /\ pc = "done" /\ UNCHANGED <<query, index, slices, pc>>
  BY HandIs, SlicesBounded DEF AtStep, Frame, Onwards, vars, Hand
<1>2. locations \in Seq(Places) /\ Ordered(After, locations) /\ \A l \in ToSet(locations) : Genuine(l) /\ l.to < s.from
  <2>1. locations \in Seq(Places) /\ Ordered(After, locations) /\ \A l \in ToSet(locations) : Genuine(l)
    BY DEF AnswersInv, AnswersTyped
  <2>2. cur <= cur /\ cur \in DOMAIN slices
    BY <1>1
  <2>3. BeforeSlice(cur)
    BY <2>2 DEF AnswersInv
  <2> QED BY <2>1, <2>3 DEF BeforeSlice
<1>3. new \in Seq(Places) /\ Ordered(After, new)
      /\ \A l \in ToSet(new) : Genuine(l) /\ s.from <= l.from /\ l.to <= s.to
  BY DEF AnswersOf
<1>4. s.from \in Nat /\ s.to \in Nat /\ s.from <= s.to + 1
  BY <1>1 DEF Hand, Bounds
<1>5. \A l \in Places : l.from \in Nat /\ l.to \in Nat
  BY DEF Places
<1> HIDE DEF s
<1>6. ToSet(locations') = ToSet(locations) \cup ToSet(new) /\ locations' \in Seq(Places)
  BY <1>2, <1>3, ToSetConcat
<1>7. Ahead(After, locations, new)
  <2> SUFFICES ASSUME NEW l \in ToSet(locations), NEW m \in ToSet(new) PROVE <<l, m>> \in After
    BY DEF Ahead
  <2>1. l \in Places /\ m \in Places
    BY <1>2, <1>3, ElementsTyped
  <2>2. l.to < m.from
    BY <1>2, <1>3, <1>4, <1>5, <2>1
  <2> QED BY <2>1, <2>2, AfterIs DEF Comes
<1>8. Ordered(After, locations')
  BY <1>2, <1>3, <1>7, OrderedConcat
<1>9. AnswersTyped'
  <2>1. Places' = Places /\ After' = After /\ \A l : Genuine(l)' <=> Genuine(l)
    BY <1>1, StablePlaces
  <2>2. \A l \in ToSet(locations') : Genuine(l)
    BY <1>2, <1>3, <1>6
  <2> QED BY <1>6, <1>8, <2>1, <2>2 DEF AnswersTyped, Ordered
<1>10. ASSUME cur' = cur + 1 PROVE AnswersInv'
  <2>1. ASSUME NEW k \in 1..Len(slices), cur + 1 <= k, NEW l \in ToSet(locations')
        PROVE  l.to < slices[k].from
    <3>1. cur < k
      BY <1>1, <2>1
    <3>2. s.to < slices[k].from /\ slices[k].from \in Nat
      BY <1>1, <3>1, SlicesFollow, SlicesBounded DEF s, Bounds
    <3>3. l \in Places
      BY <1>6, <2>1, ElementsTyped
    <3>4. CASE l \in ToSet(locations)
      <4>1. cur <= k /\ k \in DOMAIN slices
        BY <1>1, <3>1
      <4> QED BY <3>4, <4>1 DEF AnswersInv, BeforeSlice
    <3>5. CASE l \in ToSet(new)
      BY <1>3, <1>4, <1>5, <3>2, <3>3, <3>5
    <3> QED BY <1>6, <2>1, <3>4, <3>5
  <2>2. \A k \in DOMAIN slices' : cur' <= k => BeforeSlice(k)'
    BY <1>1, <1>10, <2>1 DEF BeforeSlice
  <2> QED BY <1>9, <2>2 DEF AnswersInv
<1> QED BY <1>6, <1>9, <1>10

LEMMA InitAnswers == InitRequest => AnswersInv
<1> SUFFICES ASSUME InitRequest PROVE AnswersInv
  OBVIOUS
<1>1. locations = <<>> /\ slices = <<>>
  BY DEF InitRequest, Init
<1>2. locations \in Seq(Places) /\ ToSet(locations) = {} /\ DOMAIN locations = {}
  BY <1>1, ToSetEmpty
<1> QED BY <1>2 DEF AnswersInv, AnswersTyped, BeforeSlice, Ordered

LEMMA NextAnswers == Frame /\ AnswersInv /\ [NextRequest]_<<vars, request>> => AnswersInv'
<1> SUFFICES ASSUME Frame, AnswersInv, [NextRequest]_<<vars, request>> PROVE AnswersInv'
  OBVIOUS
<1>1. ASSUME Next /\ UNCHANGED request PROVE AnswersInv'
  <2>1. pc # "done" /\ UNCHANGED <<locations, rpc>>
    BY <1>1 DEF Next, SingleWord, SeveralWords, Join, Cut, LastWord, Throw, AtPair, request
  <2>2. locations' = <<>>
    BY <2>1 DEF Frame, Steps
  <2>3. locations' \in Seq(Places') /\ ToSet(locations') = {} /\ DOMAIN locations' = {}
    BY <2>2, ToSetEmpty
  <2> QED BY <2>3 DEF AnswersInv, AnswersTyped, BeforeSlice, Ordered
<1>2. CASE CodesFound
  <2>1. Onwards /\ AtStep(rpc) /\ rpc # "thrown" /\ locations' = locations \o CodeLocations /\ cur' = cur + 1
    BY <1>2, StepsOnwards DEF CodesFound, AtStep, NextSlice
  <2>2. AnswersOf(slices[cur], CodeLocations)
    BY <2>1, HandIs, CodeLocationsAre DEF AtStep, Frame
  <2> QED BY <2>1, <2>2, MoreAnswers
<1>3. CASE CreatePlaces
  <2>1. /\ Onwards /\ AtStep(rpc) /\ rpc # "thrown" /\ rpc = "places" /\ pc = "done"
        /\ locations' = locations \o PlacesOf(Sets[best]) /\ cur' = cur + 1
    BY <1>3, StepsOnwards DEF CreatePlaces, AtStep, NextSlice
  <2>2. AnswersOf(slices[cur], PlacesOf(Sets[best]))
    BY <2>1, PlacesAre
  <2> QED BY <2>1, <2>2, MoreAnswers
<1>4. CASE DatabaseFails
  <2>1. Onwards /\ AtStep(rpc) /\ rpc # "thrown" /\ rpc' = "thrown"
    BY <1>4, StepsOnwards DEF DatabaseFails, AtStep
  <2>2. PICK n \in 0..Len(CodeLocations) : locations' = locations \o SubSeq(CodeLocations, 1, n)
    BY <1>4 DEF DatabaseFails
  <2>3. AnswersOf(slices[cur], CodeLocations)
    BY <2>1, HandIs, CodeLocationsAre DEF AtStep, Frame
  <2>4. AnswersOf(slices[cur], SubSeq(CodeLocations, 1, n))
    BY <2>3, FirstAnswers
  <2>5. AnswersTyped'
    BY <2>1, <2>2, <2>4, MoreAnswers
  <2> QED BY <2>1, <2>5 DEF AnswersInv
<1>5. CASE \/ SearchIndex \/ SearchString \/ SearchFails \/ CalculateAllWeights \/ AssertionFails
           \/ ChooseBest \/ Return
  <2>1. UNCHANGED <<query, index, slices, cur, locations>> /\ rpc # "thrown"
    BY <1>5 DEF SearchIndex, SearchString, SearchFails, CalculateAllWeights, AssertionFails,
                ChooseBest, Return, AtStep, vars
  <2> QED BY <2>1, StableAnswers
<1>6. CASE UNCHANGED <<vars, request>>
  <2>1. UNCHANGED <<query, index, slices, cur, locations, rpc>>
    BY <1>6 DEF vars, request
  <2> QED BY <2>1, StableAnswers
<1> QED BY <1>1, <1>2, <1>3, <1>4, <1>5, <1>6 DEF NextRequest

LEMMA AnswersInvariance == SpecRequest => [](Frame /\ AnswersInv)
<1>1. InitRequest => Frame /\ AnswersInv
  BY InitFrame, InitAnswers
<1>2. (Frame /\ AnswersInv) /\ [NextRequest]_<<vars, request>> => (Frame /\ AnswersInv)'
  BY NextFrame, NextAnswers
<1> QED BY <1>1, <1>2, PTL DEF SpecRequest

(***************************************************************************)
(* Whatever the query, the index and the rows of the database, the         *)
(* locations come in the order of the query, and no word counts for two of *)
(* them, but for a code that several PORs have: even those left behind by  *)
(* a request that fails.                                                   *)
(***************************************************************************)
THEOREM AnswersAlwaysInOrder == SpecRequest => []AnswersInOrder
<1>1. AnswersInv => AnswersInOrder
  <2> SUFFICES ASSUME AnswersInv, NEW j \in DOMAIN locations, NEW k \in DOMAIN locations, j < k
               PROVE  Comes(locations[j], locations[k])
    BY DEF AnswersInOrder, Comes
  <2>1. <<locations[j], locations[k]>> \in After
    BY DEF AnswersInv, AnswersTyped, Ordered
  <2> QED BY <2>1 DEF After
<1> QED BY <1>1, AnswersInvariance, PTL

-----------------------------------------------------------------------------
(***************************************************************************)
(* The words reported for the slice in hand: those of the strings of one   *)
(* word, browsed in the order of the query before any other.               *)
(***************************************************************************)
Unfound(w) == Matching(Searched(<<w>>)) = <<>>

ReportsOf(s, n, words) ==
    /\ words \in Seq(Word)
    /\ \E g \in [1..Len(words) -> s.from..s.to] :
          /\ \A k \in 1..Len(words) : words[k] = query[g[k]] /\ g[k] < s.from + n
          /\ \A j, k \in 1..Len(words) : j < k => g[j] < g[k]
    /\ \A j, k \in 1..Len(words) : words[j] = words[k] => j = k
    /\ \A w \in ToSet(words) : Unfound(w)
    /\ \A i \in 1..n : IsUnknown(Found[Strings[i]]) => Found[Strings[i]].query[1] \in ToSet(words)

LEMMA UnknownIs ==
  ASSUME index \in Indexes, NEW s, Hand(s), NEW i \in 1..Len(Strings)
  PROVE  LET r == Found[Strings[i]]
         IN  IsUnknown(r) => \E x \in s.from..s.to :
                /\ Strings[i] = <<x>> /\ r.query = <<query[x]>> /\ query[x] \in Word
                /\ Unfound(query[x])
<1> DEFINE p == Strings[i]
           r == Found[p]
<1> SUFFICES ASSUME IsUnknown(r)
             PROVE  \E x \in s.from..s.to : /\ p = <<x>> /\ r.query = <<query[x]>> /\ query[x] \in Word
                                            /\ Unfound(query[x])
  OBVIOUS
<1>1. p \in ToSet(Strings) /\ p \in Seq(s.from..s.to) /\ (p # <<>> => Run(s.from, s.to, p))
  <2>1. p \in ToSet(Strings)
    BY StringsInHand DEF ToSet
  <2> QED BY <2>1, StringsInHand
<1>2. Text(p) \in Seq(Word) /\ Len(Text(p)) = Len(p) /\ ResultOf(Text(p), r)
  BY <1>1, FoundIs
<1>3. r.query = Text(p) /\ Len(r.query) = 1 /\ Keep(r.query) /\ ~ HasMatched(r)
  BY <1>2 DEF ResultOf, IsUnknown
<1>4. Len(p) = 1 /\ p # <<>>
  <2>1. Len(p) = 1
    BY <1>2, <1>3
  <2>2. Len(<<>>) = 0
    OBVIOUS
  <2> HIDE DEF p
  <2> QED BY <2>1, <2>2
<1> DEFINE S == s.from..s.to
<1>5. p[1] \in S /\ p = <<p[1]>>
  <2>1. p \in Seq(S)
    BY <1>1
  <2> HIDE DEF S, p
  <2> QED BY <1>4, <2>1
<1>6. Text(p) = <<query[p[1]]>>
  <2>1. Text(p) = [k \in 1..1 |-> query[p[k]]]
    BY <1>4, <1>5 DEF Text
  <2> QED BY <2>1
<1>7. query[p[1]] \in Word
  <2>1. s.from \in Nat \ {0} /\ s.to \in Nat /\ s.to <= Len(query) /\ query \in Seq(Word)
    BY DEF Hand, Bounds
  <2>2. p[1] \in 1..Len(query)
    BY <1>5, <2>1
  <2> QED BY <2>1, <2>2
<1>8. Unfound(query[p[1]])
  <2>1. Matching(Searched(Text(p))) = <<>>
    BY <1>2, <1>3, DocsOfResult
  <2> QED BY <1>6, <2>1 DEF Unfound
<1> QED BY <1>3, <1>5, <1>6, <1>7, <1>8

\* one string more
LEMMA AddedWord ==
  ASSUME index \in Indexes, NEW s, Hand(s), NEW n \in 0..(Len(Strings) - 1),
         NEW words, ReportsOf(s, n, words)
  PROVE  ReportsOf(s, n + 1, AddUnmatchedWord(words, Found[Strings[n + 1]]))
<1> DEFINE r == Found[Strings[n + 1]]
           new == AddUnmatchedWord(words, r)
           l == Len(words)
           a == s.from
           b == s.to
           w == r.query[1]
<1>1. Len(Strings) \in Nat /\ n \in Nat /\ n + 1 \in 1..Len(Strings) /\ a \in Nat /\ b \in Nat /\ a <= b + 1
  BY StringsInHand DEF Hand, Bounds
<1>2. words \in Seq(Word) /\ l \in Nat /\ DOMAIN words = 1..l
  BY DEF ReportsOf
<1>3. PICK g \in [1..l -> a..b] :
        /\ \A k \in 1..l : words[k] = query[g[k]] /\ g[k] < a + n
        /\ \A j, k \in 1..l : j < k => g[j] < g[k]
  BY DEF ReportsOf
<1>4. /\ \A j, k \in 1..l : words[j] = words[k] => j = k
      /\ \A v \in ToSet(words) : Unfound(v)
  BY DEF ReportsOf
<1>5. \A i \in 1..n : IsUnknown(Found[Strings[i]]) => Found[Strings[i]].query[1] \in ToSet(words)
  BY DEF ReportsOf
<1>6. \A i \in 1..(n + 1) : i \in 1..n \/ i = n + 1
  BY <1>1
<1>7. \A k \in 1..l : g[k] < a + n => g[k] < a + (n + 1)
  BY <1>1, <1>3
<1>8. CASE ~ IsUnknown(r) \/ w \in ToSet(words)
  <2>1. new = words
    BY <1>8 DEF AddUnmatchedWord
  <2>2. \A i \in 1..(n + 1) : IsUnknown(Found[Strings[i]]) => Found[Strings[i]].query[1] \in ToSet(words)
    BY <1>5, <1>6, <1>8
  <2>3. \A k \in 1..l : words[k] = query[g[k]] /\ g[k] < a + (n + 1)
    BY <1>3, <1>7
  <2> HIDE DEF new
  <2>4. ReportsOf(s, n + 1, words)
    BY <1>2, <1>3, <1>4, <2>2, <2>3 DEF ReportsOf
  <2> QED BY <2>1, <2>4 DEF new
<1>9. CASE IsUnknown(r) /\ w \notin ToSet(words)
  <2>1. new = Append(words, w)
    BY <1>9 DEF AddUnmatchedWord
  <2>2. PICK x \in a..b : /\ Strings[n + 1] = <<x>> /\ r.query = <<query[x]>> /\ query[x] \in Word
                          /\ Unfound(query[x])
    BY <1>1, <1>9, UnknownIs
  <2>3. w = query[x]
    BY <2>2
  <2>4. x = a + n
    <3>1. Len(InHand) = b + 1 - a /\ \A i \in 1..Len(InHand) : InHand[i] = a + i - 1
      BY DEF Hand, PositionsOf
    <3>2. \A k \in 1..Len(InHand) : Strings[k] = <<InHand[k]>>
      BY StringsInHand
    <3> DEFINE i == x - a + 1
    <3>3. i \in 1..Len(InHand) /\ a + i - 1 = x
      BY <1>1, <3>1
    <3>4. Strings[i] = <<x>>
      BY <3>1, <3>2, <3>3
    <3>5. ~ (i <= n)
      <4>1. SUFFICES ASSUME i \in 1..n PROVE FALSE
        <5> HIDE DEF i
        <5> QED BY <1>1, <3>1, <3>3, <4>1
      <4>2. Strings[i] = Strings[n + 1]
        BY <2>2, <3>4
      <4>3. IsUnknown(Found[Strings[i]]) /\ Found[Strings[i]].query[1] = w
        BY <1>9, <4>2
      <4> HIDE DEF i
      <4> QED BY <1>5, <1>9, <4>1, <4>3
    <3>6. i = n + 1
      <4>1. n + 1 \in 1..Len(InHand)
        <5> HIDE DEF i
        <5> QED BY <1>1, <3>1, <3>3, <3>5
      <4>2. Strings[n + 1] = <<a + (n + 1) - 1>>
        BY <3>1, <3>2, <4>1
      <4>3. x = a + (n + 1) - 1
        BY <2>2, <4>2
      <4> QED BY <1>1, <4>3
    <3> QED BY <1>1, <3>3, <3>6
  <2>5. new \in Seq(Word) /\ Len(new) = l + 1 /\ new[l + 1] = w /\ \A k \in 1..l : new[k] = words[k]
    BY <1>2, <2>1, <2>2, <2>3
  <2> DEFINE h == [k \in 1..(l + 1) |-> IF k = l + 1 THEN x ELSE g[k]]
  <2>6. \A k \in 1..(l + 1) : k = l + 1 \/ k \in 1..l
    BY <1>2
  <2>7. l + 1 \in 1..(l + 1) /\ \A k \in 1..l : k # l + 1 /\ k \in 1..(l + 1) /\ g[k] \in a..b
    BY <1>2, <1>3
  <2>8. h[l + 1] = x /\ \A k \in 1..l : h[k] = g[k]
    BY <2>7
  <2>9. h \in [1..(l + 1) -> a..b]
    <3> DEFINE S == a..b
    <3>1. \A k \in 1..l : g[k] \in S
      BY <2>7
    <3>2. x \in S
      BY <2>2
    <3> HIDE DEF S
    <3> QED BY <2>6, <3>1, <3>2
  <2> HIDE DEF h
  <2>10. \A k \in 1..(l + 1) : new[k] = query[h[k]] /\ h[k] < a + (n + 1)
    <3>1. new[l + 1] = query[h[l + 1]] /\ h[l + 1] < a + (n + 1)
      BY <1>1, <2>3, <2>4, <2>5, <2>8
    <3>2. \A k \in 1..l : new[k] = query[h[k]] /\ h[k] < a + (n + 1)
      BY <1>3, <1>7, <2>5, <2>8
    <3> QED BY <2>6, <3>1, <3>2
  <2>11. \A j, k \in 1..(l + 1) : j < k => h[j] < h[k]
    <3> SUFFICES ASSUME NEW j \in 1..(l + 1), NEW k \in 1..(l + 1), j < k PROVE h[j] < h[k]
      OBVIOUS
    <3>1. j \in 1..l
      BY <1>2
    <3>2. CASE k \in 1..l
      BY <1>3, <2>8, <3>1, <3>2
    <3>3. CASE k = l + 1
      BY <1>3, <2>4, <2>8, <3>1, <3>3
    <3> QED BY <2>6, <3>2, <3>3
  <2>12. \A j, k \in 1..(l + 1) : new[j] = new[k] => j = k
    <3>1. \A k \in 1..l : words[k] # w
      BY <1>2, <1>9 DEF ToSet
    <3> HIDE DEF new
    <3> QED BY <1>4, <2>5, <2>6, <3>1
  <2>13. ToSet(new) = ToSet(words) \cup {w}
    BY <1>2, <2>1, <2>2, <2>3, ToSetAppend
  <2>14. \A v \in ToSet(new) : Unfound(v)
    BY <1>4, <2>2, <2>3, <2>13
  <2>15. \A i \in 1..(n + 1) : IsUnknown(Found[Strings[i]]) => Found[Strings[i]].query[1] \in ToSet(new)
    BY <1>5, <1>6, <2>13
  <2> HIDE DEF new
  <2>16. ReportsOf(s, n + 1, new)
    BY <2>5, <2>9, <2>10, <2>11, <2>12, <2>14, <2>15 DEF ReportsOf
  <2> QED BY <2>16 DEF new
<1> QED BY <1>8, <1>9

LEMMA UnmatchedIs ==
  ASSUME index \in Indexes, NEW s, Hand(s), NEW n \in 0..Len(Strings)
  PROVE  ReportsOf(s, n, UnmatchedWords(n))
<1> DEFINE D == Seq(Word)
           found(i) == Found[Strings[i]]
           Is(f) == f = [i \in 0..n |-> IF i = 0 THEN <<>> ELSE AddUnmatchedWord(f[i - 1], found(i))]
           words == CHOOSE f : Is(f)
           step == [z \in (1..n) \X D |-> AddUnmatchedWord(z[2], found(z[1]))]
<1>1. UnmatchedWords(n) = words[n]
  BY DEF UnmatchedWords
<1>2. n \in Nat /\ Len(Strings) \in Nat /\ \A i \in 1..n : i \in 1..Len(Strings)
  BY StringsInHand
<1>3. ASSUME NEW i \in 1..n, NEW ws \in D PROVE AddUnmatchedWord(ws, found(i)) \in D
  <2>1. IsUnknown(found(i)) => found(i).query[1] \in Word
    <3> SUFFICES ASSUME IsUnknown(found(i)) PROVE found(i).query[1] \in Word
      OBVIOUS
    <3>1. PICK x \in s.from..s.to : found(i).query = <<query[x]>> /\ query[x] \in Word
      BY <1>2, UnknownIs
    <3> QED BY <3>1
  <2>2. \A w \in Word : Append(ws, w) \in D
    BY <1>3
  <2> HIDE DEF D, found
  <2> QED BY <1>3, <2>1, <2>2 DEF AddUnmatchedWord
<1> HIDE DEF found
<1>4. step \in [(1..n) \X D -> D] /\ \A i \in 1..n, ws \in D : step[<<i, ws>>] = AddUnmatchedWord(ws, found(i))
  <2> HIDE DEF D
  <2> QED BY <1>3
<1> HIDE DEF step
<1>5. PICK f : Unfolds(D, n, <<>>, step, f)
  <2>1. <<>> \in D
    OBVIOUS
  <2> HIDE DEF D
  <2>2. \E f : Recursion(n, <<>>, step, f)
    BY <1>2, <1>4, <2>1, RecursionExists
  <2>3. \A f : Recursion(n, <<>>, step, f) => Unfolds(D, n, <<>>, step, f)
    BY <1>2, <1>4, <2>1, RecursionExists
  <2> QED BY <2>2, <2>3
<1>6. Is(f)
  <2>1. f \in [0..n -> D] /\ f[0] = <<>> /\ \A i \in 1..n : f[i] = step[<<i, f[i - 1]>>]
    BY <1>5 DEF Unfolds
  <2> HIDE DEF D
  <2>2. \A i \in 0..n : f[i] = IF i = 0 THEN <<>> ELSE AddUnmatchedWord(f[i - 1], found(i))
    <3> SUFFICES ASSUME NEW i \in 0..n, i # 0 PROVE f[i] = AddUnmatchedWord(f[i - 1], found(i))
      BY <2>1
    <3>1. i \in 1..n /\ i - 1 \in 0..n
      BY <1>2
    <3> QED BY <1>4, <2>1, <3>1
  <2> QED BY <2>1, <2>2
<1>7. Is(words)
  <2> HIDE DEF Is
  <2> QED BY <1>6
<1> DEFINE val(i) == IF i = 0 THEN <<>> ELSE AddUnmatchedWord(words[i - 1], found(i))
<1>8. words = [i \in 0..n |-> val(i)]
  BY <1>7
<1>9. val(0) = <<>> /\ \A i \in 1..n : val(i) = AddUnmatchedWord(words[i - 1], found(i))
  OBVIOUS
<1> HIDE DEF val, Is, words, D
<1>10. 0 \in 0..n /\ n \in 0..n /\ \A i \in 1..n : i \in 0..n
  BY <1>2
<1>11. words[0] = <<>> /\ \A i \in 1..n : words[i] = AddUnmatchedWord(words[i - 1], found(i))
  BY <1>8, <1>9, <1>10
<1> DEFINE U == {i \in 0..n : ReportsOf(s, i, words[i])}
<1>12. 0 \in U
  <2>1. ReportsOf(s, 0, <<>>)
    <3> DEFINE S == s.from..s.to
               none == [k \in 1..0 |-> 0]
    <3>1. <<>> \in Seq(Word) /\ Len(<<>>) = 0 /\ ToSet(<<>>) = {} /\ 1..0 = {}
      BY ToSetEmpty
    <3> HIDE DEF S
    <3>2. none \in [1..0 -> S]
      BY <3>1
    <3> HIDE DEF none
    <3> QED BY <3>1, <3>2 DEF ReportsOf, S
  <2> QED BY <1>10, <1>11, <2>1
<1>13. ASSUME NEW m \in Nat, m < n, m \in U PROVE m + 1 \in U
  <2>1. m + 1 \in 1..n /\ m + 1 \in 0..n /\ (m + 1) - 1 = m /\ m \in 0..(Len(Strings) - 1)
    BY <1>2, <1>13
  <2>2. words[m + 1] = AddUnmatchedWord(words[m], found(m + 1))
    BY <1>11, <2>1
  <2>3. ReportsOf(s, m, words[m])
    BY <1>13
  <2>4. ReportsOf(s, m + 1, words[m + 1])
    BY <2>1, <2>2, <2>3, AddedWord DEF found
  <2> QED BY <2>1, <2>4
<1>14. 0..n \subseteq U
  <2> HIDE DEF U
  <2> QED BY <1>2, <1>12, <1>13, BoundedInduction
<1>15. ReportsOf(s, n, words[n])
  BY <1>10, <1>14
<1> QED BY <1>1, <1>15

(***************************************************************************)
(* The words reported so far.  Coming are the slices whose words are still *)
(* to be looked for.                                                       *)
(***************************************************************************)
Coming == {k \in DOMAIN slices : cur < k \/ (cur = k /\ rpc \in {"slice", "search"})}

InTurn(f) ==
    /\ f \in [DOMAIN unmatched -> DOMAIN query]
    /\ \A j \in DOMAIN unmatched :
          /\ query[f[j]] = unmatched[j]
          /\ \E c \in DOMAIN slices : At(slices[c], f[j])
          /\ \A k \in Coming : f[j] < slices[k].from
    /\ \A j, k \in DOMAIN unmatched : j < k =>
          /\ f[j] < f[k]
          /\ unmatched[j] = unmatched[k] =>
                \A c \in DOMAIN slices : ~ (At(slices[c], f[j]) /\ At(slices[c], f[k]))

ReportedInv ==
    /\ unmatched \in Seq(Word)
    /\ \A w \in ToSet(unmatched) : Unfound(w)
    /\ \E f : InTurn(f)

LEMMA StableUnfound ==
  ASSUME UNCHANGED index, NEW w
  PROVE  Unfound(w)' <=> Unfound(w)
  BY DEF Unfound, Searched, Matching, IsKnown, InDictionary, Correction, Picked, Holds

\* a step that reports nothing
LEMMA StableReports ==
  ASSUME ReportedInv, UNCHANGED <<query, index, slices, unmatched>>, Coming' \subseteq Coming
  PROVE  ReportedInv'
<1>1. unmatched' \in Seq(Word) /\ \A w \in ToSet(unmatched') : Unfound(w)
  BY DEF ReportedInv
<1>2. \A w : Unfound(w)' <=> Unfound(w)
  BY StableUnfound
<1>3. PICK f : InTurn(f)
  BY DEF ReportedInv
<1>4. InTurn(f)'
  BY <1>3 DEF InTurn, At
<1> QED BY <1>1, <1>2, <1>4 DEF ReportedInv

LEMMA MoreReports ==
  ASSUME Frame, pc = "done", ReportedInv, AtStep("search"),
         UNCHANGED <<query, index, slices, cur>>, rpc' \notin {"slice", "search"},
         NEW n \in 0..Len(Strings), NEW new, ReportsOf(slices[cur], n, new),
         unmatched' = unmatched \o new
  PROVE  ReportedInv' /\ ToSet(unmatched') = ToSet(unmatched) \cup ToSet(new)
<1> DEFINE s == slices[cur]
           m == Len(unmatched)
           l == Len(new)
           a == s.from
           b == s.to
<1>1. /\ Bounds(s) /\ query \in Seq(Word) /\ cur \in 1..Len(slices) /\ DOMAIN slices = 1..Len(slices)
      /\ Inv /\ Len(slices) \in Nat
  BY HandIs, SlicesBounded DEF AtStep, Frame, Hand
<1>2. \A c \in 1..Len(slices) : Bounds(slices[c])
  BY <1>1, SlicesBounded
<1>3. /\ unmatched \in Seq(Word) /\ m \in Nat /\ DOMAIN unmatched = 1..m
      /\ \A w \in ToSet(unmatched) : Unfound(w)
  BY DEF ReportedInv
<1>4. PICK f : InTurn(f)
  BY DEF ReportedInv
<1>5. /\ new \in Seq(Word) /\ l \in Nat /\ \A w \in ToSet(new) : Unfound(w)
      /\ \A j, k \in 1..l : new[j] = new[k] => j = k
  BY DEF ReportsOf
<1>6. PICK g \in [1..l -> a..b] :
        /\ \A k \in 1..l : new[k] = query[g[k]] /\ g[k] < a + n
        /\ \A j, k \in 1..l : j < k => g[j] < g[k]
  BY DEF ReportsOf
<1>7. a \in Nat \ {0} /\ b \in Nat /\ a <= b + 1 /\ b <= Len(query) /\ Len(query) \in Nat
      /\ DOMAIN query = 1..Len(query)
  BY <1>1 DEF Bounds
<1>8. \A c \in 1..Len(slices) : /\ slices[c].from \in Nat /\ slices[c].to \in Nat
                                /\ c < cur => slices[c].to < a
                                /\ cur < c => b < slices[c].from
  BY <1>1, <1>2, SlicesFollow DEF Bounds
<1>9. cur \in Coming
  BY <1>1 DEF AtStep, Coming
<1>10. \A j \in 1..m : /\ f[j] \in 1..Len(query) /\ f[j] < a /\ query[f[j]] = unmatched[j]
                       /\ \E c \in DOMAIN slices : At(slices[c], f[j])
  BY <1>3, <1>4, <1>7, <1>9 DEF InTurn
<1>11. \A k \in 1..l : g[k] \in 1..Len(query) /\ a <= g[k] /\ g[k] <= b
  <2>1. \A k \in 1..l : g[k] \in a..b
    BY <1>6
  <2>2. \A x \in a..b : x \in 1..Len(query) /\ a <= x /\ x <= b
    <3> HIDE DEF a, b
    <3> QED BY <1>7
  <2> HIDE DEF a, b, l
  <2> QED BY <2>1, <2>2
<1>12. \A j, k \in 1..m : j < k =>
          /\ f[j] < f[k]
          /\ unmatched[j] = unmatched[k] =>
                \A c \in DOMAIN slices : ~ (At(slices[c], f[j]) /\ At(slices[c], f[k]))
  BY <1>3, <1>4 DEF InTurn
<1> HIDE DEF s, m, l, a, b
<1> DEFINE all == unmatched'
           made == [j \in 1..(m + l) |-> IF j <= m THEN f[j] ELSE g[j - m]]
<1>13. /\ all \in Seq(Word) /\ Len(all) = m + l /\ DOMAIN all = 1..(m + l)
       /\ \A j \in 1..m : all[j] = unmatched[j]
       /\ \A j \in 1..(m + l) : m < j => all[j] = new[j - m]
  BY <1>3, <1>5 DEF m, l
<1>14. ToSet(all) = ToSet(unmatched) \cup ToSet(new)
  BY <1>3, <1>5, ToSetConcat
<1>15. \A j \in 1..(m + l) : (j \in 1..m /\ j <= m) \/ (m < j /\ ~ (j <= m) /\ j - m \in 1..l)
  BY <1>3, <1>5
<1>0. PICK h : h = made
  OBVIOUS
<1>16. \A j \in 1..(m + l) : /\ j <= m => h[j] = f[j] /\ all[j] = unmatched[j] /\ j \in 1..m
                             /\ m < j => h[j] = g[j - m] /\ all[j] = new[j - m] /\ j - m \in 1..l
  <2>1. \A j \in 1..(m + l) : (j <= m => h[j] = f[j]) /\ (~ (j <= m) => h[j] = g[j - m])
    BY <1>0
  <2> HIDE DEF all, made
  <2>2. \A j \in 1..(m + l) : (j <= m => j \in 1..m) /\ (m < j => ~ (j <= m) /\ j - m \in 1..l)
    BY <1>3, <1>5, <1>15
  <2> QED BY <1>13, <2>1, <2>2
<1>17. h \in [1..(m + l) -> 1..Len(query)]
  <2>1. \A j \in 1..(m + l) : h[j] \in 1..Len(query)
    BY <1>10, <1>11, <1>15, <1>16
  <2> DEFINE S == 1..Len(query)
             J == 1..(m + l)
             val(j) == IF j <= m THEN f[j] ELSE g[j - m]
  <2>2. h = [j \in J |-> val(j)] /\ \A j \in J : h[j] \in S
    BY <1>0, <2>1
  <2> HIDE DEF S, J, val
  <2>3. h \in [J -> S]
    BY <2>2
  <2> QED BY <2>3 DEF S, J
<1> HIDE DEF made, all
<1>18. \A j \in 1..(m + l) : query[h[j]] = all[j] /\ h[j] <= b
  BY <1>6, <1>7, <1>10, <1>11, <1>15, <1>16
<1>19. ASSUME NEW j \in 1..(m + l) PROVE \E c \in DOMAIN slices : At(slices[c], h[j])
  <2>1. CASE j <= m
    BY <1>10, <1>16, <2>1
  <2>2. CASE m < j
    <3>1. h[j] = g[j - m] /\ j - m \in 1..l
      BY <1>16, <2>2
    <3>2. At(slices[cur], h[j])
      BY <1>11, <3>1 DEF At, a, b, s
    <3> QED BY <1>1, <3>2
  <2> QED BY <1>15, <2>1, <2>2
<1>20. ASSUME NEW j \in 1..(m + l), NEW k \in 1..(m + l), j < k
       PROVE  /\ h[j] < h[k]
              /\ all[j] = all[k] =>
                    \A c \in DOMAIN slices : ~ (At(slices[c], h[j]) /\ At(slices[c], h[k]))
  <2>1. CASE k <= m
    <3>1. j <= m
      BY <1>3, <1>20, <2>1
    <3>2. h[j] = f[j] /\ h[k] = f[k] /\ all[j] = unmatched[j] /\ all[k] = unmatched[k]
          /\ j \in 1..m /\ k \in 1..m
      BY <1>16, <2>1, <3>1
    <3> QED BY <1>12, <1>20, <3>2
  <2>2. CASE m < j
    <3>1. m < k
      BY <1>3, <1>20, <2>2
    <3>2. /\ h[j] = g[j - m] /\ h[k] = g[k - m] /\ all[j] = new[j - m] /\ all[k] = new[k - m]
          /\ j - m \in 1..l /\ k - m \in 1..l
      BY <1>16, <2>2, <3>1
    <3>3. j - m < k - m /\ j - m # k - m
      BY <1>3, <1>5, <1>20
    <3>4. h[j] < h[k]
      BY <1>6, <3>2, <3>3
    <3>5. all[j] # all[k]
      BY <1>5, <3>2, <3>3 DEF l
    <3> QED BY <3>4, <3>5
  <2>3. CASE j <= m /\ m < k
    <3>1. h[j] = f[j] /\ h[k] = g[k - m] /\ j \in 1..m /\ k - m \in 1..l
      BY <1>16, <2>3
    <3>2. h[j] \in Nat /\ h[k] \in Nat /\ h[j] < a /\ a <= h[k] /\ h[k] <= b
      BY <1>10, <1>11, <3>1
    <3>3. h[j] < h[k]
      BY <1>7, <3>2
    <3>4. ASSUME NEW c \in DOMAIN slices, At(slices[c], h[j]), At(slices[c], h[k]) PROVE FALSE
      <4>1. slices[c].from <= h[j] /\ h[k] <= slices[c].to
        BY <3>4 DEF At
      <4>2. c \in 1..Len(slices)
        BY <1>1
      <4>3. CASE c = cur
        <5>1. slices[c].from = a
          BY <4>3 DEF a, s
        <5> QED BY <1>7, <3>2, <4>1, <5>1
      <4>4. CASE c < cur
        BY <1>7, <1>8, <3>2, <4>1, <4>2, <4>4
      <4>5. CASE cur < c
        BY <1>7, <1>8, <3>2, <4>1, <4>2, <4>5
      <4> QED BY <1>1, <4>2, <4>3, <4>4, <4>5
    <3> QED BY <3>3, <3>4
  <2> QED BY <1>15, <2>1, <2>2, <2>3
<1>21. ASSUME NEW k \in Coming', NEW j \in 1..(m + l) PROVE h[j] < slices[k].from
  <2>1. k \in 1..Len(slices) /\ cur < k
    BY <1>1 DEF Coming
  <2>2. b < slices[k].from /\ slices[k].from \in Nat
    BY <1>8, <2>1
  <2>3. h[j] \in Nat /\ h[j] <= b
    BY <1>17, <1>18
  <2> QED BY <1>7, <2>2, <2>3
<1>22. InTurn(h)'
  <2>1. h \in [DOMAIN all -> DOMAIN query]
    BY <1>7, <1>13, <1>17
  <2>2. \A j \in DOMAIN all : /\ query[h[j]] = all[j]
                              /\ \E c \in DOMAIN slices : At(slices[c], h[j])
                              /\ \A k \in Coming' : h[j] < slices[k].from
    BY <1>13, <1>18, <1>19, <1>21
  <2>3. \A j, k \in DOMAIN all : j < k =>
          /\ h[j] < h[k]
          /\ all[j] = all[k] =>
                \A c \in DOMAIN slices : ~ (At(slices[c], h[j]) /\ At(slices[c], h[k]))
    BY <1>13, <1>20
  <2>4. query' = query /\ slices' = slices /\ unmatched' = all
    BY DEF all
  <2> HIDE DEF all
  <2>5. (h \in [DOMAIN unmatched -> DOMAIN query])'
    BY ONLY <2>1, <2>4
  <2>6. (\A j \in DOMAIN unmatched : /\ query[h[j]] = unmatched[j]
                                     /\ \E c \in DOMAIN slices : At(slices[c], h[j])
                                     /\ \A k \in Coming : h[j] < slices[k].from)'
    BY ONLY <2>2, <2>4 DEF At
  <2>7. (\A j, k \in DOMAIN unmatched : j < k =>
          /\ h[j] < h[k]
          /\ unmatched[j] = unmatched[k] =>
                \A c \in DOMAIN slices : ~ (At(slices[c], h[j]) /\ At(slices[c], h[k])))'
    BY ONLY <2>3, <2>4 DEF At
  <2> QED BY ONLY <2>5, <2>6, <2>7 DEF InTurn
<1>23. ReportedInv'
  <2>1. \A w : Unfound(w)' <=> Unfound(w)
    BY StableUnfound
  <2>2. \A w \in ToSet(unmatched') : Unfound(w)
    BY <1>3, <1>5, <1>14 DEF all
  <2>3. unmatched' \in Seq(Word)
    BY <1>13 DEF all
  <2> QED BY <1>22, <2>1, <2>2, <2>3 DEF ReportedInv
<1> QED BY <1>14, <1>23 DEF all

LEMMA InitReports == InitRequest => ReportedInv
<1> SUFFICES ASSUME InitRequest PROVE ReportedInv
  OBVIOUS
<1>1. unmatched = <<>>
  BY DEF InitRequest
<1>2. unmatched \in Seq(Word) /\ ToSet(unmatched) = {} /\ DOMAIN unmatched = {}
  BY <1>1, ToSetEmpty
<1>3. InTurn([j \in {} |-> 0])
  BY <1>2 DEF InTurn
<1> QED BY <1>2, <1>3 DEF ReportedInv

LEMMA NextReports == Frame /\ ReportedInv /\ [NextRequest]_<<vars, request>> => ReportedInv'
<1> SUFFICES ASSUME Frame, ReportedInv, [NextRequest]_<<vars, request>> PROVE ReportedInv'
  OBVIOUS
<1>1. ASSUME Next /\ UNCHANGED request PROVE ReportedInv'
  <2>1. pc # "done" /\ unmatched' = unmatched
    BY <1>1 DEF Next, SingleWord, SeveralWords, Join, Cut, LastWord, Throw, AtPair, request
  <2>2. unmatched' = <<>>
    BY <2>1 DEF Frame, Steps
  <2>3. unmatched' \in Seq(Word) /\ ToSet(unmatched') = {} /\ DOMAIN unmatched' = {}
    BY <2>2, ToSetEmpty
  <2>4. InTurn([j \in {} |-> 0])'
    BY <2>3 DEF InTurn
  <2> QED BY <2>3, <2>4 DEF ReportedInv
<1>2. ASSUME NEW n \in 0..Len(Strings), unmatched' = unmatched \o UnmatchedWords(n),
             AtStep("search"), UNCHANGED <<vars, index, cur>>, rpc' \notin {"slice", "search"}
      PROVE  ReportedInv'
  <2>1. pc = "done" /\ cur <= Len(slices) /\ UNCHANGED <<query, slices>> /\ index \in Indexes
    BY <1>2 DEF AtStep, vars, Frame
  <2>2. ReportsOf(slices[cur], n, UnmatchedWords(n))
    BY <2>1, HandIs, UnmatchedIs
  <2> QED BY <1>2, <2>1, <2>2, MoreReports
<1>3. CASE SearchString
  <2>1. Len(Strings) \in 0..Len(Strings)
    <3>1. pc = "done" /\ cur <= Len(slices)
      BY <1>3 DEF SearchString, AtStep
    <3>2. Len(Strings) \in Nat
      BY <3>1, HandIs, StringsInHand
    <3> QED BY <3>2
  <2>2. /\ unmatched' = unmatched \o UnmatchedWords(Len(Strings)) /\ AtStep("search")
        /\ UNCHANGED <<vars, index, cur>> /\ rpc' \notin {"slice", "search"}
    BY <1>3 DEF SearchString
  <2> QED BY <1>2, <2>1, <2>2
<1>4. CASE SearchFails
  <2>1. PICK n \in 0..(Len(Strings) - 1) : unmatched' = unmatched \o UnmatchedWords(n)
    BY <1>4 DEF SearchFails
  <2>2. n \in 0..Len(Strings)
    <3>1. pc = "done" /\ cur <= Len(slices)
      BY <1>4 DEF SearchFails, AtStep
    <3>2. Len(Strings) \in Nat
      BY <3>1, HandIs, StringsInHand
    <3> QED BY <3>2
  <2>3. AtStep("search") /\ UNCHANGED <<vars, index, cur>> /\ rpc' \notin {"slice", "search"}
    BY <1>4 DEF SearchFails
  <2> QED BY <1>2, <2>1, <2>2, <2>3
<1>5. CASE \/ CodesFound \/ SearchIndex \/ DatabaseFails \/ CalculateAllWeights \/ AssertionFails
           \/ ChooseBest \/ CreatePlaces \/ Return
  <2>1. UNCHANGED <<vars, index, unmatched>>
    BY <1>5 DEF CodesFound, SearchIndex, DatabaseFails, CalculateAllWeights, AssertionFails,
                ChooseBest, CreatePlaces, Return, NextSlice
  <2>2. /\ cur' = cur + 1 \/ (cur' = cur /\ (rpc' \in {"slice", "search"} => rpc = "slice"))
    BY <1>5 DEF CodesFound, SearchIndex, DatabaseFails, CalculateAllWeights, AssertionFails,
                ChooseBest, CreatePlaces, Return, NextSlice, AtStep
  <2>3. slices' = slices /\ query' = query /\ Len(slices) \in Nat /\ cur \in Nat
        /\ DOMAIN slices = 1..Len(slices)
    <3>1. pc = "done"
      BY <1>5, StepsOnwards DEF Onwards
    <3>2. Len(slices) \in Nat /\ DOMAIN slices = 1..Len(slices)
      BY <3>1, SlicesBounded DEF Frame
    <3> QED BY <2>1, <3>2 DEF vars, Frame
  <2>4. Coming' \subseteq Coming
    <3> SUFFICES ASSUME NEW k \in Coming' PROVE k \in Coming
      OBVIOUS
    <3>1. k \in 1..Len(slices) /\ (cur' < k \/ (cur' = k /\ rpc' \in {"slice", "search"}))
      BY <2>3 DEF Coming
    <3>2. cur < k \/ (cur = k /\ rpc = "slice")
      BY <2>2, <2>3, <3>1
    <3> QED BY <2>3, <3>1, <3>2 DEF Coming
  <2> QED BY <2>1, <2>3, <2>4, StableReports
<1>6. CASE UNCHANGED <<vars, request>>
  <2>1. UNCHANGED <<query, index, slices, unmatched, cur, rpc>>
    BY <1>6 DEF vars, request
  <2>2. Coming' = Coming
    BY <2>1 DEF Coming
  <2> QED BY <2>1, <2>2, StableReports
<1> QED BY <1>1, <1>3, <1>4, <1>5, <1>6 DEF NextRequest

LEMMA ReportsInvariance == SpecRequest => [](Frame /\ ReportedInv)
<1>1. InitRequest => Frame /\ ReportedInv
  BY InitFrame, InitReports
<1>2. (Frame /\ ReportedInv) /\ [NextRequest]_<<vars, request>> => (Frame /\ ReportedInv)'
  BY NextFrame, NextReports
<1> QED BY <1>1, <1>2, PTL DEF SpecRequest

(***************************************************************************)
(* Whatever the query and the index, the words are reported in the order   *)
(* of the query, and once for each slice at most, though a word is in many *)
(* of the strings that are looked for.                                     *)
(***************************************************************************)
THEOREM ReportedAlwaysInOrder == SpecRequest => []ReportedInOrder
<1>1. ReportedInv => ReportedInOrder
  <2> SUFFICES ASSUME ReportedInv PROVE ReportedInOrder
    OBVIOUS
  <2>1. PICK f : InTurn(f)
    BY DEF ReportedInv
  <2>2. f \in [DOMAIN unmatched -> DOMAIN query] /\ \A j \in DOMAIN unmatched : query[f[j]] = unmatched[j]
    BY <2>1 DEF InTurn
  <2>3. ASSUME NEW j \in DOMAIN unmatched, NEW k \in DOMAIN unmatched, j < k
        PROVE  f[j] < f[k] /\ (unmatched[j] = unmatched[k] => SliceOf(f[j]) # SliceOf(f[k]))
    <3>1. \E c \in DOMAIN slices : At(slices[c], f[j])
      BY <2>1 DEF InTurn
    <3>2. \E c \in DOMAIN slices : At(slices[c], f[k])
      BY <2>1 DEF InTurn
    <3>3. SliceOf(f[j]) \in DOMAIN slices /\ At(slices[SliceOf(f[j])], f[j])
      BY <3>1 DEF SliceOf
    <3>4. SliceOf(f[k]) \in DOMAIN slices /\ At(slices[SliceOf(f[k])], f[k])
      BY <3>2 DEF SliceOf
    <3>5. f[j] < f[k]
      BY <2>1, <2>3 DEF InTurn
    <3>6. unmatched[j] = unmatched[k] =>
              \A c \in DOMAIN slices : ~ (At(slices[c], f[j]) /\ At(slices[c], f[k]))
      BY <2>1, <2>3 DEF InTurn
    <3> QED BY <3>3, <3>4, <3>5, <3>6
  <2> QED BY <2>2, <2>3 DEF ReportedInOrder
<1> QED BY <1>1, ReportsInvariance, PTL

(***************************************************************************)
(* A word cannot be both reported as unmatched and in a phrase found as it *)
(* is spelled, be it in another slice: what holds a phrase holds its words.*)
(***************************************************************************)
THEOREM ReportedNeverAnswered == SpecRequest => []ReportedNotAnswered
<1>1. Frame /\ AnswersInv /\ ReportedInv => ReportedNotAnswered
  <2> SUFFICES ASSUME Frame, AnswersInv, ReportedInv, NEW l \in ToSet(locations), NEW i \in l.from..l.to,
                      l.as = "phrase", Reported(i)
               PROVE  Searched(SubSeq(query, l.from, l.to)) # SubSeq(query, l.from, l.to)
    BY DEF ReportedNotAnswered
  <2> DEFINE a == l.from
             b == l.to
             phrase == SubSeq(query, a, b)
  <2>1. Genuine(l)
    BY DEF AnswersInv, AnswersTyped
  <2>2. query \in Seq(Word) /\ Len(query) \in Nat
    BY QueryType DEF Frame, Inv, TypeOK
  <2>3. l \in Places
    BY ElementsTyped DEF AnswersInv, AnswersTyped
  <2>4. a \in Nat \ {0} /\ b \in Nat /\ a <= b /\ b <= Len(query) /\ Matching(Searched(phrase)) # <<>>
    BY <2>1, <2>3 DEF Genuine, Places
  <2>5. Unfound(query[i])
    BY DEF Reported, ReportedInv
  <2> HIDE DEF a, b
  <2>6. phrase \in Seq(Word) /\ Len(phrase) = b - a + 1 /\ i - a + 1 \in 1..(b - a + 1)
        /\ phrase[i - a + 1] = query[i]
    <3>1. i \in a..b
      BY DEF a, b
    <3> DEFINE j == i - a + 1
    <3>2. j \in 1..(b - a + 1) /\ a + j - 1 = i
      BY <2>4, <3>1
    <3>3. phrase = [k \in 1..(b - a + 1) |-> query[a + k - 1]]
      BY <2>4 DEF SubSeq
    <3>4. \A k \in 1..(b - a + 1) : query[a + k - 1] \in Word
      <4>1. \A k \in 1..(b - a + 1) : a + k - 1 \in 1..Len(query)
        BY <2>2, <2>4
      <4> QED BY <2>2, <4>1
    <3> HIDE DEF j, phrase
    <3>5. phrase \in [1..(b - a + 1) -> Word] /\ phrase[j] = query[i]
      BY <3>2, <3>3, <3>4
    <3>6. phrase \in Seq(Word) /\ Len(phrase) = b - a + 1
      <4>1. b - a + 1 \in Nat
        BY <2>4
      <4> QED BY <3>5, <4>1
    <3> QED BY <3>2, <3>5, <3>6 DEF j
  <2> HIDE DEF phrase
  <2>7. i - a + 1 \in DOMAIN phrase
    BY <2>6
  <2>8. Searched(phrase) # phrase
    <3>1. ASSUME Searched(phrase) = phrase PROVE FALSE
      <4>1. Matching(Searched(<<query[i]>>)) # <<>>
        BY <2>4, <2>6, <2>7, <3>1, WordsAreKnown DEF Frame
      <4> QED BY <2>5, <4>1 DEF Unfound
    <3> QED BY <3>1
  <2> QED BY <2>8 DEF phrase, a, b
<1> QED BY <1>1, AnswersInvariance, ReportsInvariance, PTL

-----------------------------------------------------------------------------
(***************************************************************************)
(* What becomes of a slice, one after the other.                           *)
(***************************************************************************)
CoveredSlice(s) ==
    s.to <= s.from + 1 /\ ~ CodesWithRow(s) => \A i \in s.from..s.to : Accounted(i)

AnsweredAsWhole(s) ==
    /\ ~ CodesWithRow(s) /\ Keep(Phrase(s))
    /\ \A i \in s.from..s.to : ~ IsCode(query[i])
    /\ \E d \in ToSet(Matching(Phrase(s))) :
          ~ d.expired /\ OwnWeight(d, Matching(Phrase(s))) > 2 * AttenuationWeight
    => \E l \in ToSet(locations) : AnsweredWith(s, l)

AnsweredByCode(s) ==
    /\ Keep(Phrase(s))
    /\ \E d \in ToSet(Matching(Phrase(s))) :
          /\ Trim(Phrase(s)) = <<d.code.iata>>
          /\ ~ d.expired /\ OwnWeight(d, Matching(Phrase(s))) + CodeWeight > 0
    /\ ~ CodesWithRow(s)
    => \E l \in ToSet(locations) :
          /\ AnsweredWith(s, l)
          /\ \E d \in ToSet(index) : d.id = l.doc /\ Trim(Phrase(s)) = <<d.code.iata>>

Served(s) == CoveredSlice(s) /\ AnsweredAsWhole(s) /\ AnsweredByCode(s)

ToReport(i) == Keep(<<query[i]>>) /\ Unfound(query[i])

CoveredInv ==
    /\ \A k \in DOMAIN slices : k < cur => Served(slices[k])
    /\ rpc \in {"weigh", "choose", "places"} =>
          \A i \in slices[cur].from..slices[cur].to : ToReport(i) => Reported(i)

LEMMA StableCovered ==
  ASSUME UNCHANGED <<query, index, db>>,
         ToSet(locations) \subseteq ToSet(locations'), ToSet(unmatched) \subseteq ToSet(unmatched'),
         NEW s, Served(s)
  PROVE  Served(s)'
<1>1. CodesWithRow(s)' <=> CodesWithRow(s)
  BY DEF CodesWithRow, AllCodes, Positions, Rows, Picked
<1>2. ASSUME NEW i, Accounted(i) PROVE Accounted(i)'
  BY <1>2 DEF Accounted, Answered, Reported, At
<1>3. CoveredSlice(s)'
  BY <1>1, <1>2 DEF Served, CoveredSlice
<1>4. Phrase(s)' = Phrase(s) /\ query' = query /\ index' = index
  BY DEF Phrase
<1>5. Matching(Phrase(s))' = Matching(Phrase(s))
  BY DEF Matching, Phrase, Picked, Holds
<1>6. AnsweredAsWhole(s)'
  BY <1>1, <1>4, <1>5 DEF Served, AnsweredAsWhole, Keep, IsCode, OwnWeight, AnsweredWith
<1>7. AnsweredByCode(s)'
  BY <1>1, <1>4, <1>5 DEF Served, AnsweredByCode, Keep, Trim, OwnWeight, AnsweredWith
<1> QED BY <1>3, <1>6, <1>7 DEF Served

LEMMA StableToReport ==
  ASSUME UNCHANGED <<query, index>>, NEW i
  PROVE  ToReport(i)' <=> ToReport(i)
<1>1. Unfound(query[i])' <=> Unfound(query[i])
  BY DEF Unfound, Searched, Matching, IsKnown, InDictionary, Correction, Picked, Holds
<1> QED BY <1>1 DEF ToReport, Keep

\* the words of the slice in hand, once it is searched
LEMMA AllReported ==
  ASSUME index \in Indexes, NEW s, Hand(s), NEW i \in s.from..s.to, ToReport(i)
  PROVE  query[i] \in ToSet(UnmatchedWords(Len(Strings)))
<1> DEFINE j == i - s.from + 1
           n == Len(Strings)
           p == <<i>>
           r == Found[p]
<1>1. /\ Len(InHand) = s.to + 1 - s.from /\ \A k \in 1..Len(InHand) : InHand[k] = s.from + k - 1
      /\ s.from \in Nat /\ s.to \in Nat
  BY DEF Hand, PositionsOf, Bounds
<1>2. j \in 1..Len(InHand) /\ s.from + j - 1 = i
  BY <1>1
<1>3. j \in 1..n /\ Strings[j] = p /\ p \in ToSet(Strings) /\ n \in Nat
  <2> HIDE DEF j
  <2>1. j \in DOMAIN Strings /\ Strings[j] = <<InHand[j]>> /\ DOMAIN Strings = 1..n /\ n \in Nat
    BY <1>2, StringsInHand
  <2>2. InHand[j] = i
    BY <1>1, <1>2
  <2> QED BY <2>1, <2>2 DEF ToSet
<1>4. Text(p) = <<query[i]>>
  <2>1. DOMAIN p = 1..1 /\ p[1] = i
    OBVIOUS
  <2>2. Text(p) = [k \in 1..1 |-> query[p[k]]]
    BY <2>1 DEF Text
  <2> QED BY <2>1, <2>2
<1>5. Text(p) \in Seq(Word) /\ ResultOf(Text(p), r)
  BY <1>3, FoundIs
<1>6. r.query = <<query[i]>> /\ ~ HasMatched(r)
  <2>1. Matching(Searched(Text(p))) = <<>>
    BY <1>4 DEF ToReport, Unfound
  <2>2. ~ HasMatched(r)
    BY <1>5, <2>1, DocsOfResult
  <2> QED BY <1>4, <1>5, <2>2 DEF ResultOf
<1>7. IsUnknown(r)
  <2>1. Len(<<query[i]>>) = 1
    OBVIOUS
  <2> QED BY <1>6, <2>1 DEF IsUnknown, ToReport
<1>8. ReportsOf(s, n, UnmatchedWords(n))
  <2>1. n \in 0..n
    BY <1>3
  <2> QED BY <2>1, UnmatchedIs
<1>9. Found[Strings[j]].query[1] \in ToSet(UnmatchedWords(n))
  <2> HIDE DEF j, n, p
  <2> QED BY <1>3, <1>7, <1>8 DEF ReportsOf
<1>10. r.query[1] = query[i]
  BY <1>6
<1> HIDE DEF j, n, p
<1> QED BY <1>3, <1>9, <1>10 DEF n

\* the words of the slice in hand, once it is answered
LEMMA AllAccounted ==
  ASSUME Frame, pc = "done", rpc = "places", CoveredInv,
         NEW i \in slices[cur].from..slices[cur].to, slices[cur].to <= slices[cur].from + 1
  PROVE  \/ \E l \in ToSet(PlacesOf(Sets[best])) : At(l, i)
         \/ Reported(i) \/ query[i] \in Filtered
<1> DEFINE s == slices[cur]
           set == Sets[best]
<1>1. /\ Hand(s) /\ results = Weighed(Found) /\ set \in ToSet(Sets) /\ SetOf(s, set)
      /\ index \in Indexes /\ matching = KnownPairs /\ cur \in DOMAIN slices
      /\ s.from \in Nat \ {0} /\ s.to \in Nat /\ s.to <= Len(query)
  <2>1. /\ Hand(s) /\ results = Weighed(Found) /\ set \in ToSet(Sets) /\ SetOf(s, set)
        /\ cur \in DOMAIN slices
    BY ChosenSet, SlicesBounded DEF Frame
  <2> QED BY <2>1 DEF Frame, Hand, Bounds
<1> HIDE DEF set
<1>2. PICK p \in ToSet(set) : i \in ToSet(p)
  BY <1>1 DEF SetOf
<1>3. p \in ToSet(Strings) /\ Run(s.from, s.to, p)
  <2>1. p # <<>>
    BY <1>2, ToSetEmpty
  <2> QED BY <1>1, <1>2, <2>1, StringsInHand DEF SetOf
<1> DEFINE n == Len(p)
           f == p[1]
           l == p[n]
           r == results[p]
<1>4. /\ n \in Nat \ {0} /\ f \in s.from..s.to /\ l \in s.from..s.to /\ l = f + n - 1
      /\ ToSet(p) = f..l
  BY <1>1, <1>3, RunIs
<1>5. /\ Text(p) \in Seq(Word) /\ Len(Text(p)) = n /\ \A k \in 1..n : Text(p)[k] = query[f + k - 1]
  BY <1>1, <1>3, TextOfRun DEF Hand
<1>6. HasMatched(r) <=> Keep(Text(p)) /\ Matching(Searched(Text(p))) # <<>>
  <2>1. ResultOf(Text(p), r)
    BY <1>1, <1>3, FoundIs
  <2> QED BY <1>1, <1>5, <2>1, DocsOfResult
<1>7. CASE HasMatched(r)
  <2>1. PlaceOf(p) \in ToSet(PlacesOf(set))
    BY <1>2, <1>7, PlacesAre DEF set
  <2>2. PlaceOf(p).from = f /\ PlaceOf(p).to = l
    BY DEF PlaceOf, Location
  <2>3. f <= i /\ i <= l
    <3> HIDE DEF f, l
    <3> QED BY <1>1, <1>2, <1>4
  <2>4. At(PlaceOf(p), i)
    BY <2>2, <2>3 DEF At
  <2> QED BY <2>1, <2>4 DEF set
<1>8. CASE ~ HasMatched(r)
  <2> HIDE DEF f, l, n
  <2>1. n = 1 \/ n = 2
    <3>1. s.to <= s.from + 1
      OBVIOUS
    <3> QED BY <1>1, <1>4, <3>1
  <2>2. CASE n = 1
    <3>1. f = i
      BY <1>1, <1>2, <1>4, <2>2
    <3>2. Text(p) = <<query[i]>>
      <4>1. Text(p)[1] = query[f + 1 - 1] /\ f + 1 - 1 = f
        BY <1>1, <1>4, <1>5, <2>2
      <4> QED BY <1>5, <2>2, <3>1, <4>1
    <3>3. CASE Keep(<<query[i]>>)
      <4>1. Unfound(query[i])
        BY <1>6, <1>8, <3>2, <3>3 DEF Unfound
      <4>2. ToReport(i)
        BY <3>3, <4>1 DEF ToReport
      <4> QED BY <4>2 DEF CoveredInv
    <3>4. CASE ~ Keep(<<query[i]>>)
      BY <3>4 DEF Keep
    <3> QED BY <3>3, <3>4
  <2>3. CASE n = 2
    <3>1. f = s.from /\ f < s.to
      BY <1>1, <1>4, <2>3
    <3>2. Together(f)
      <4>1. Linked(s)
        BY <1>1 DEF Frame, Inv, SlicesInv
      <4> QED BY <1>1, <3>1, <4>1 DEF Linked
    <3>3. Text(p) = <<query[f], query[f + 1]>>
      <4>1. Text(p)[1] = query[f + 1 - 1] /\ Text(p)[2] = query[f + 2 - 1] /\ f + 1 - 1 = f /\ f + 2 - 1 = f + 1
        BY <1>1, <1>4, <1>5, <2>3
      <4> QED BY <1>5, <2>3, <4>1
    <3>4. Matching(Searched(Text(p))) # <<>>
      BY <1>1, <3>2, <3>3 DEF Together, KnownPairs
    <3>5. Keep(Text(p))
      BY <1>5, <2>3 DEF Keep
    <3> QED BY <1>6, <1>8, <3>4, <3>5
  <2> QED BY <2>1, <2>2, <2>3
<1> QED BY <1>7, <1>8

-----------------------------------------------------------------------------
(***************************************************************************)
(* A phrase that is trimmed to one word holds only one that is kept.       *)
(***************************************************************************)
LEMMA GreatestIs ==
  ASSUME NEW n \in Nat, NEW T \in SUBSET (1..n), T # {}
  PROVE  Max(T) \in T /\ \A m \in T : m <= Max(T)
<1> DEFINE R == {n - m : m \in T}
<1>1. R \in SUBSET Nat /\ R # {}
  <2>1. \A m \in T : n - m \in Nat
    <3>1. \A m \in 1..n : n - m \in Nat
      OBVIOUS
    <3> QED BY <3>1
  <2>2. R \in SUBSET Nat
    BY <2>1
  <2> QED BY <2>2
<1>2. PICK r \in R : \A m \in R : r <= m
  <2> HIDE DEF R
  <2> QED BY <1>1, LeastNumber
<1>3. PICK x \in T : r = n - x
  BY <1>2
<1>4. \A y \in T : x >= y
  <2> SUFFICES ASSUME NEW y \in T PROVE x >= y
    OBVIOUS
  <2>1. n - y \in R /\ n - x <= n - y
    BY <1>2, <1>3
  <2> QED BY <2>1
<1>5. Max(T) \in T /\ \A y \in T : Max(T) >= y
  <2> HIDE DEF R
  <2> QED BY <1>4 DEF Max
<1> QED BY <1>5

KeptAlone(phrase, a, w) ==
    /\ a \in 1..Len(phrase) /\ phrase[a] = w /\ w \notin Filtered
    /\ \A k \in 1..Len(phrase) : k # a => phrase[k] \in Filtered

LEMMA TrimIs ==
  ASSUME NEW phrase \in Seq(Word), NEW w, Trim(phrase) = <<w>>
  PROVE  \E a : KeptAlone(phrase, a, w)
<1> DEFINE n == Len(phrase)
           kept == {i \in DOMAIN phrase : phrase[i] \notin Filtered}
           a == Min(kept)
           b == Max(kept)
<1>1. n \in Nat /\ DOMAIN phrase = 1..n
  OBVIOUS
<1>2. Trim(phrase) = IF kept = {} THEN <<>> ELSE SubSeq(phrase, a, b)
  BY DEF Trim
<1>3. <<w>> # <<>> /\ Len(<<w>>) = 1 /\ <<w>>[1] = w
  OBVIOUS
<1>4. kept # {} /\ SubSeq(phrase, a, b) = <<w>>
  <2> HIDE DEF kept, a, b
  <2> QED BY <1>2, <1>3
<1>5. kept \in SUBSET (1..n) /\ kept \in SUBSET Nat
  BY <1>1
<1>6. \A i \in 1..n : i \in kept <=> phrase[i] \notin Filtered
  BY <1>1
<1> HIDE DEF kept
<1>7. a \in kept /\ b \in kept /\ \A m \in kept : a <= m /\ m <= b
  BY <1>1, <1>4, <1>5, LeastIs, GreatestIs
<1> HIDE DEF a, b
<1>8. a \in 1..n /\ b \in 1..n /\ a <= b
  BY <1>5, <1>7
<1>9. a = b /\ phrase[a] = w
  <2>1. SubSeq(phrase, a, b) = [i \in 1..(b - a + 1) |-> phrase[a + i - 1]]
    BY <1>8 DEF SubSeq
  <2>2. Len(SubSeq(phrase, a, b)) = b - a + 1
    <3> DEFINE l == b - a + 1
               f == [i \in 1..l |-> phrase[a + i - 1]]
    <3>1. l \in Nat /\ SubSeq(phrase, a, b) = f
      BY <1>1, <1>8, <2>1
    <3>2. \A i \in 1..l : a + i - 1 \in 1..n
      BY <1>1, <1>8
    <3>3. \A i \in 1..l : phrase[a + i - 1] \in Word
      BY <3>2
    <3> HIDE DEF l
    <3>4. f \in [1..l -> Word]
      BY <3>3
    <3> HIDE DEF f
    <3>5. Len(f) = l
      BY <3>1, <3>4
    <3> QED BY <3>1, <3>5 DEF l
  <2>3. a = b
    BY <1>1, <1>3, <1>4, <1>8, <2>2
  <2>4. SubSeq(phrase, a, b)[1] = phrase[a + 1 - 1] /\ a + 1 - 1 = a
    BY <1>1, <1>8, <2>1, <2>3
  <2> QED BY <1>3, <1>4, <2>3, <2>4
<1>10. \A k \in 1..n : k # a => phrase[k] \in Filtered
  <2> SUFFICES ASSUME NEW k \in 1..n, k \in kept PROVE k = a
    BY <1>6
  <2> QED BY <1>1, <1>7, <1>8, <1>9
<1>11. KeptAlone(phrase, a, w)
  BY <1>6, <1>7, <1>8, <1>9, <1>10 DEF KeptAlone
<1> QED BY <1>11

\* the code a string is matched by is one of its words
LEMMA CodeInString ==
  ASSUME index \in Indexes, AllHaveBest(Found), NEW s, Hand(s), NEW p \in ToSet(Strings),
         CodeString(Weighed(Found)[p])
  PROVE  \E i \in ToSet(p) : /\ i \in s.from..s.to /\ query[i] \notin Filtered
                             /\ \E d \in ToSet(index) : d.code.iata = query[i]
<1> DEFINE r == Weighed(Found)[p]
           d == Chosen(r)
           w == d.code.iata
<1>1. Text(p) \in Seq(Word) /\ Len(Text(p)) = Len(p) /\ ResultOf(Text(p), r)
  BY FoundIs
<1>2. HasMatched(r) /\ CodeMatches(r, d)
  BY DEF CodeString
<1>3. d \in ToSet(index)
  <2>1. r.best \in 1..Len(r.docs)
    BY <1>2, StringWeights
  <2> QED BY <1>1, <2>1, DocsOfResult DEF Chosen
<1>4. Trim(Text(p)) = <<w>>
  BY <1>1, <1>2 DEF CodeMatches, ResultOf
<1> HIDE DEF r, d
<1>5. PICK a : KeptAlone(Text(p), a, w)
  BY <1>1, <1>4, TrimIs
<1>6. a \in 1..Len(p) /\ Text(p)[a] = w /\ w \notin Filtered
  BY <1>1, <1>5 DEF KeptAlone
<1>7. Run(s.from, s.to, p) /\ s.from \in Nat \ {0} /\ s.to \in Nat
  <2>1. p # <<>>
    <3>1. Len(<<>>) = 0 /\ 1..0 = {}
      OBVIOUS
    <3> QED BY <1>6, <3>1
  <2> QED BY <2>1, StringsInHand DEF Hand, Bounds
<1>8. p[a] \in ToSet(p) /\ p[a] \in s.from..s.to /\ Text(p)[a] = query[p[a]]
  <2>1. DOMAIN p = 1..Len(p) /\ p[1] \in s.from..s.to /\ p[Len(p)] \in s.from..s.to
        /\ ToSet(p) = p[1]..p[Len(p)]
    BY <1>7, RunIs
  <2>2. p[a] \in ToSet(p)
    BY <1>6, <2>1 DEF ToSet
  <2>3. p[a] \in s.from..s.to
    BY <1>7, <2>1, <2>2
  <2>4. Text(p)[a] = query[p[a]]
    BY <1>6, <2>1 DEF Text
  <2> QED BY <2>2, <2>3, <2>4
<1> QED BY <1>3, <1>6, <1>8

(***************************************************************************)
(* The whole of the slice, against its splits: each of their strings takes *)
(* the attenuation off, and one of them at most, at place c, is a code.    *)
(***************************************************************************)
LEMMA SplitsWeighLess ==
  ASSUME index \in Indexes, AllHaveBest(Found), NEW s, Hand(s), NEW set \in ToSet(Sets), Len(set) > 1,
         NEW c \in Nat, \A k \in 1..Len(set) : k # c => ~ CodeString(ResultsOf(set)[k])
  PROVE  SetWeight(ResultsOf(set)) <= 2 * AttenuationWeight + (IF c = 0 THEN 0 ELSE CodeWeight)
<1> DEFINE n == Len(set)
           list == ResultsOf(set)
<1>1. /\ n \in Nat /\ Len(list) = n
      /\ \A k \in 1..n : /\ StringWeight(list[k]) \in Int
                         /\ StringWeight(list[k]) <= IF CodeString(list[k]) THEN CodeWeight ELSE 0
  BY SetWeights
<1>2. CodeWeight = 3041 /\ AttenuationWeight = -2929
  BY DEF CodeWeight, AttenuationWeight
<1> HIDE DEF list
<1>3. \A k \in 1..n : StringWeight(list[k]) <= IF k = c THEN CodeWeight ELSE 0
  <2> SUFFICES ASSUME NEW k \in 1..n PROVE StringWeight(list[k]) <= IF k = c THEN CodeWeight ELSE 0
    OBVIOUS
  <2>1. CASE k = c
    BY <1>1, <1>2, <2>1
  <2>2. CASE k # c
    BY <1>1, <2>2 DEF list
  <2> QED BY <2>1, <2>2
<1> DEFINE sum == WeightSum(list)
<1>4. sum \in Int /\ sum <= IF c \in 1..n THEN CodeWeight ELSE 0
  BY <1>1, <1>3, WeightSumBounded
<1>5. sum <= IF c = 0 THEN 0 ELSE CodeWeight
  BY <1>2, <1>4
<1>6. SetWeight(list) = sum + n * AttenuationWeight
  BY <1>1 DEF SetWeight
<1>7. n * AttenuationWeight \in Int /\ n * AttenuationWeight <= 2 * AttenuationWeight
  <2>1. n > 1
    OBVIOUS
  <2> HIDE DEF n
  <2> QED BY <1>1, <1>2, <2>1
<1> HIDE DEF sum, n
<1>8. SetWeight(list) <= 2 * AttenuationWeight + (IF c = 0 THEN 0 ELSE CodeWeight)
  <2> DEFINE x == n * AttenuationWeight
             e == IF c = 0 THEN 0 ELSE CodeWeight
  <2>1. x \in Int /\ x <= -5858 /\ SetWeight(list) = sum + x /\ sum <= e /\ e \in Int
    BY <1>2, <1>5, <1>6, <1>7
  <2> HIDE DEF x, e
  <2>2. SetWeight(list) <= -5858 + e
    BY <1>4, <2>1
  <2> QED BY <1>2, <2>2 DEF e
<1> QED BY <1>8 DEF list

LEMMA OneOf ==
  ASSUME NEW T, NEW t \in Seq(T), Len(t) = 1
  PROVE  t[1] \in T /\ t = <<t[1]>>
  OBVIOUS

LEMMA WholeIs ==
  ASSUME NEW s, Hand(s), s.from <= s.to
  PROVE  /\ <<InHand>> \in ToSet(Sets) /\ InHand \in ToSet(Strings)
         /\ \A set \in ToSet(Sets) : Len(set) = 1 => set = <<InHand>>
         /\ InHand[1] = s.from /\ InHand[Len(InHand)] = s.to
         /\ Text(InHand) = Phrase(s) /\ Phrase(s) \in Seq(Word)
<1> DEFINE q == InHand
           S == s.from..s.to
           P == Seq(S)
<1>1. /\ s.from \in Nat \ {0} /\ s.to \in Nat /\ s.to <= Len(query) /\ query \in Seq(Word)
      /\ q \in P /\ Len(q) = s.to + 1 - s.from /\ \A i \in 1..Len(q) : q[i] = s.from + i - 1
      /\ PartitionOf(S, q, Sets)
  BY DEF Hand, Bounds, PositionsOf
<1>2. q # <<>>
  <2>1. Len(<<>>) = 0
    OBVIOUS
  <2> HIDE DEF q
  <2> QED BY <1>1, <2>1
<1>3. <<q>> \in ToSet(Sets)
  <2>1. Sets \in Seq(Seq(P)) /\ Sets # <<>> /\ Sets[Len(Sets)] = <<q>>
    BY <1>1, <1>2 DEF PartitionOf
  <2> DEFINE R == Seq(P)
  <2>2. Sets \in Seq(R)
    BY <2>1
  <2> HIDE DEF R, q
  <2>3. Len(Sets) \in DOMAIN Sets
    BY <2>1, <2>2, EmptySeq
  <2> QED BY <2>1, <2>3 DEF ToSet
<1>4. q \in ToSet(Strings)
  <2>1. ToSet(<<q>>) \subseteq ToSet(Strings)
    BY <1>3, StringsInHand
  <2>2. q \in ToSet(<<q>>)
    BY DEF ToSet
  <2> QED BY <2>1, <2>2
<1>5. ASSUME NEW set \in ToSet(Sets), Len(set) = 1 PROVE set = <<q>>
  <2>1. set \in Seq(P) /\ FlattenSeq(set) = q
    BY <1>5 DEF Hand, SetOf
  <2> HIDE DEF P, q
  <2>2. set[1] \in P /\ set = <<set[1]>>
    <3>1. set \in Seq(P) /\ Len(set) = 1
      BY <1>5, <2>1
    <3> QED BY <3>1, OneOf
  <2>3. FlattenSeq(<<set[1]>>) = set[1]
    <3>1. set[1] \in Seq(S)
      BY <2>2 DEF P
    <3> QED BY <3>1, FlattenOne
  <2> QED BY <2>1, <2>2, <2>3
<1>6. q[1] = s.from /\ q[Len(q)] = s.to
  <2>1. 1 \in 1..Len(q) /\ Len(q) \in 1..Len(q)
    BY <1>1
  <2>2. q[1] = s.from + 1 - 1 /\ q[Len(q)] = s.from + Len(q) - 1
    BY <1>1, <2>1
  <2> QED BY <1>1, <2>2
<1>7. Run(s.from, s.to, q)
  BY <1>2, <1>4, StringsInHand
<1>8. Text(q) = Phrase(s) /\ Text(q) \in Seq(Word)
  BY <1>1, <1>6, <1>7, TextOfRun DEF Phrase
<1> QED BY <1>3, <1>4, <1>5, <1>6, <1>8

\* the whole is as heavy as any of the documents that hold it
WholeOf(phrase, r) ==
    /\ ResultOf(phrase, r) /\ r.query = phrase /\ r.as = phrase /\ r.docs = Matching(phrase)
    /\ HasMatched(r) /\ r.best \in 1..Len(r.docs) /\ StringWeight(r) \in Int
    /\ StringWeight(r) = DocumentWeight(r, Chosen(r))

LEMMA WholeWeight ==
  ASSUME index \in Indexes, AllHaveBest(Found), NEW s, Hand(s), s.from <= s.to, Keep(Phrase(s)),
         NEW d \in ToSet(Matching(Phrase(s))), ~ d.expired,
         OwnWeight(d, Matching(Phrase(s))) > 2 * AttenuationWeight
  PROVE  LET r == Weighed(Found)[InHand]
         IN  /\ WholeOf(Phrase(s), r)
             /\ OwnWeight(d, Matching(Phrase(s))) \in Int
             /\ StringWeight(r) >= OwnWeight(d, Matching(Phrase(s)))
                                   + (IF CodeMatches(r, d) THEN CodeWeight ELSE 0)
<1> DEFINE phrase == Phrase(s)
           found == Matching(phrase)
           r == Weighed(Found)[InHand]
           own == OwnWeight(d, found)
           bonus == IF CodeMatches(r, d) THEN CodeWeight ELSE 0
<1>1. InHand \in ToSet(Strings) /\ Text(InHand) = phrase /\ phrase \in Seq(Word)
  BY WholeIs
<1>2. /\ ResultOf(phrase, r) /\ ResultOf(phrase, Found[InHand])
      /\ r.best = BestDocument(Found[InHand]) /\ BestDocument(r) = BestDocument(Found[InHand])
  BY <1>1, FoundIs
<1>3. found # <<>> /\ Searched(phrase) = phrase
  <2>1. found # <<>>
    BY ToSetEmpty
  <2>2. IsKnown(phrase)
    BY <2>1, MatchingIs DEF MatchingOf
  <2> QED BY <2>1, <2>2 DEF Searched
<1>4. r.query = phrase /\ r.as = phrase /\ r.docs = found /\ HasMatched(r)
  BY <1>2, <1>3 DEF ResultOf, HasMatched
<1>5. r.best \in 1..Len(r.docs) /\ StringWeight(r) \in Int
  BY <1>1, <1>4, StringWeights
<1>6. StringWeight(r) = DocumentWeight(r, Chosen(r))
  BY <1>4 DEF StringWeight, Chosen
<1>7. WholeOf(phrase, r)
  BY <1>2, <1>4, <1>5, <1>6 DEF WholeOf
<1>8. PICK i \in 1..Len(r.docs) : d = r.docs[i]
  <2>1. DOMAIN r.docs = 1..Len(r.docs)
    BY <1>1, <1>2, DocsOfResult
  <2> QED BY <1>4, <2>1 DEF ToSet
<1>9. Document(d) /\ Document(r.docs[1]) /\ d.relevance <= r.docs[1].relevance
  <2>1. 1 \in 1..Len(r.docs)
    BY <1>1, <1>2, <1>8, DocsOfResult
  <2> QED BY <1>1, <1>2, <1>8, <2>1, DocsOfResult
<1>10. own \in Int /\ own > -5858 /\ d.rank > Zero /\ own = d.rank + (d.relevance - r.docs[1].relevance)
  <2> DEFINE rank == d.rank
             rel == d.relevance
             first == r.docs[1].relevance
  <2>1. rank \in Int /\ rel \in Int /\ first \in Int /\ rel <= first
    BY <1>9, DocumentIs
  <2>2. own = rank + (rel - first)
    BY <1>4 DEF OwnWeight
  <2>3. own > 2 * (-2929) /\ Zero = -1000000
    BY DEF AttenuationWeight, Zero
  <2> HIDE DEF rank, rel, first, own
  <2>4. own \in Int /\ own > -5858 /\ rank > Zero
    BY <2>1, <2>2, <2>3
  <2> QED BY <2>2, <2>4 DEF rank, rel, first
<1>11. DocumentWeight(r, r.docs[i]) = own + bonus
  <2>1. r.as = r.query
    BY <1>4
  <2> QED BY <1>1, <1>2, <1>8, <1>10, <2>1, DocumentWeights
<1>12. DocumentWeight(r, r.docs[i]) <= DocumentWeight(r, Chosen(r))
  <2>1. r.best = BestDocument(r) /\ r.best # 0
    <3>1. DOMAIN r.docs = 1..Len(r.docs) /\ Len(r.docs) \in Nat
      BY <1>1, <1>2, DocsOfResult
    <3> HIDE DEF r
    <3> QED BY <1>2, <1>5, <3>1 DEF r
  <2>2. DocumentWeight(r, r.docs[i]) <= DocumentWeight(r, r.docs[BestDocument(r)])
    BY <1>1, <1>2, <1>8, <2>1, BestIs
  <2> QED BY <2>1, <2>2 DEF Chosen
<1>13. bonus \in Int
  BY DEF CodeWeight
<1> HIDE DEF own, bonus
<1>14. StringWeight(r) >= own + bonus
  BY <1>5, <1>6, <1>10, <1>11, <1>12, <1>13
<1> QED BY <1>7, <1>10, <1>14 DEF own, bonus

\* a set of one string weighs what the string does
LEMMA WeightOfOne ==
  ASSUME NEW r, StringWeight(r) \in Int
  PROVE  SetWeight(<<r>>) = StringWeight(r)
<1> DEFINE set == <<r>>
           w == StringWeight(r)
<1>1. Len(set) = 1 /\ set[1] = r
  OBVIOUS
<1>2. \A i \in 1..Len(set) : i = 1 /\ StringWeight(set[i]) \in Int
  BY <1>1
<1> HIDE DEF set
<1>3. PICK sum : Sums(Len(set), set, sum) /\ WeightSum(set) = sum[Len(set)]
  BY <1>1, <1>2, WeightSumIs
<1>4. sum[0] = 0 /\ sum[1] = sum[1 - 1] + StringWeight(set[1])
  <2>1. 1 \in 1..Len(set)
    BY <1>1
  <2> QED BY <1>3, <2>1 DEF Sums
<1>5. WeightSum(set) = w
  <2>1. WeightSum(set) = sum[1] /\ sum[1] = sum[0] + w /\ 1 - 1 = 0
    BY <1>1, <1>3, <1>4
  <2> HIDE DEF w
  <2>2. w \in Int
    BY DEF w
  <2>3. sum[0] + w = w
    BY <1>4, <2>2
  <2> QED BY <2>1, <2>3
<1>6. SetWeight(set) = w
  <2>1. SetWeight(set) = w + (IF Len(set) > 1 THEN Len(set) * AttenuationWeight ELSE 0)
    BY <1>5 DEF SetWeight
  <2>2. ~ (Len(set) > 1)
    BY <1>1
  <2> HIDE DEF w
  <2>3. w \in Int
    BY DEF w
  <2> QED BY <2>1, <2>2, <2>3
<1> QED BY <1>6 DEF set

\* the whole is chosen when it is heavier than any split can be
LEMMA WholeWins ==
  ASSUME Frame, pc = "done", rpc = "places", slices[cur].from <= slices[cur].to,
         NEW b \in Int, StringWeight(Weighed(Found)[InHand]) > b,
         \A set \in ToSet(Sets) : Len(set) > 1 => SetWeight(ResultsOf(set)) <= b
  PROVE  Sets[best] = <<InHand>>
<1> DEFINE s == slices[cur]
           whole == <<InHand>>
           set == Sets[best]
           w == StringWeight(Weighed(Found)[InHand])
<1>1. /\ Hand(s) /\ AllHaveBest(Found) /\ index \in Indexes
      /\ best \in 1..Len(Sets) /\ DOMAIN Sets = 1..Len(Sets)
      /\ \A i \in 1..Len(Sets) : /\ Sets[i] \in ToSet(Sets)
                                 /\ SetWeight(ResultsOf(Sets[i])) <= SetWeight(ResultsOf(set))
  BY ChosenSet DEF Frame
<1>2. whole \in ToSet(Sets) /\ InHand \in ToSet(Strings)
  BY <1>1, WholeIs
<1>3. PICK i \in 1..Len(Sets) : Sets[i] = whole
  BY <1>1, <1>2 DEF ToSet
<1>4. SetWeight(ResultsOf(whole)) = w /\ w \in Int
  <2>1. w \in Int
    BY <1>1, <1>2, StringWeights
  <2>2. ResultsOf(whole) = <<Weighed(Found)[InHand]>>
    <3>1. DOMAIN whole = 1..1 /\ whole[1] = InHand
      OBVIOUS
    <3> QED BY <3>1 DEF ResultsOf
  <2> QED BY <2>1, <2>2, WeightOfOne
<1>5. set \in ToSet(Sets) /\ Len(set) \in Nat \ {0} /\ SetWeight(ResultsOf(set)) \in Int
  BY <1>1, SetWeights
<1>6. w <= SetWeight(ResultsOf(set)) /\ w > b
  BY <1>1, <1>3, <1>4
<1> HIDE DEF w, set, whole
<1>7. ~ (Len(set) > 1)
  BY <1>4, <1>5, <1>6
<1>8. Len(set) = 1
  <2> DEFINE n == Len(set)
  <2>1. n \in Nat \ {0} /\ ~ (n > 1)
    BY <1>5, <1>7
  <2> HIDE DEF n
  <2>2. n = 1
    BY <2>1
  <2> QED BY <2>2 DEF n
<1> QED BY <1>1, <1>5, <1>8, WholeIs DEF set, whole

LEMMA WholeAnswers ==
  ASSUME Frame, pc = "done", rpc = "places", slices[cur].from <= slices[cur].to,
         Sets[best] = <<InHand>>, HasMatched(Weighed(Found)[InHand])
  PROVE  \E l \in ToSet(PlacesOf(Sets[best])) :
            /\ AnsweredWith(slices[cur], l) /\ l.doc = Chosen(Weighed(Found)[InHand]).id
<1> DEFINE l == PlaceOf(InHand)
<1>1. Hand(slices[cur]) /\ results = Weighed(Found)
  BY ChosenSet
<1>2. l \in ToSet(PlacesOf(Sets[best]))
  <2>1. InHand \in ToSet(<<InHand>>)
    BY DEF ToSet
  <2> QED BY <1>1, <2>1, PlacesAre
<1>3. l.from = slices[cur].from /\ l.to = slices[cur].to /\ l.doc = Chosen(results[InHand]).id
  BY <1>1, WholeIs DEF PlaceOf, Location
<1> HIDE DEF l
<1> QED BY <1>1, <1>2, <1>3 DEF AnsweredWith

\* nothing is searched for, nor answered, when there is no word
LEMMA KeptWords ==
  ASSUME NEW s, Bounds(s), query \in Seq(Word), Keep(Phrase(s))
  PROVE  s.from <= s.to
<1> DEFINE i == s.from - 1
           j == s.to
<1>1. i \in Nat /\ j \in Nat /\ i <= j /\ j <= Len(query) /\ s.from = i + 1 /\ Len(query) \in Nat
  BY DEF Bounds
<1> HIDE DEF i, j
<1>2. i \in 0..Len(query) /\ j \in i..Len(query)
  BY <1>1
<1>3. Len(SubSeq(query, i + 1, j)) = j - i
  BY <1>2, SubSeqLen
<1>4. Len(Phrase(s)) = j - i
  BY <1>1, <1>3 DEF Phrase, j
<1>5. j - i >= 1
  <2>1. Len(Phrase(s)) > 1 \/ Len(Phrase(s)) = 1
    BY DEF Keep
  <2> QED BY <1>1, <1>4, <2>1
<1>6. i + 1 <= j
  BY <1>1, <1>5
<1> QED BY <1>1, <1>6 DEF j

LEMMA WholeChosen ==
  ASSUME Frame, pc = "done", rpc = "places", Keep(Phrase(slices[cur])),
         \A i \in slices[cur].from..slices[cur].to : ~ IsCode(query[i]),
         NEW d \in ToSet(Matching(Phrase(slices[cur]))), ~ d.expired,
         OwnWeight(d, Matching(Phrase(slices[cur]))) > 2 * AttenuationWeight
  PROVE  \E l \in ToSet(PlacesOf(Sets[best])) : AnsweredWith(slices[cur], l)
<1> DEFINE s == slices[cur]
           r == Weighed(Found)[InHand]
           own == OwnWeight(d, Matching(Phrase(s)))
           b == 2 * AttenuationWeight
           bonus == IF CodeMatches(r, d) THEN CodeWeight ELSE 0
<1>1. Hand(s) /\ AllHaveBest(Found) /\ index \in Indexes
  BY ChosenSet DEF Frame
<1>2. s.from <= s.to
  BY <1>1, KeptWords DEF Hand
<1>3. WholeOf(Phrase(s), r) /\ own \in Int /\ StringWeight(r) >= own + bonus
  BY <1>1, <1>2, WholeWeight
<1>4. b \in Int /\ bonus \in Int /\ bonus >= 0 /\ own > b
  BY DEF AttenuationWeight, CodeWeight
<1>5. StringWeight(r) \in Int /\ HasMatched(r)
  BY <1>3 DEF WholeOf
<1>6. StringWeight(r) > b
  <2> HIDE DEF r, own, b, bonus
  <2> QED BY <1>3, <1>4, <1>5
<1>7. ASSUME NEW set \in ToSet(Sets), Len(set) > 1 PROVE SetWeight(ResultsOf(set)) <= b
  <2>1. ASSUME NEW k \in 1..Len(set) PROVE ~ CodeString(ResultsOf(set)[k])
    <3>1. set[k] \in ToSet(Strings) /\ ResultsOf(set)[k] = Weighed(Found)[set[k]]
      BY <1>1, <2>1, SetWeights
    <3>2. ASSUME CodeString(Weighed(Found)[set[k]]) PROVE FALSE
      <4>1. \E i \in s.from..s.to : \E c \in ToSet(index) : c.code.iata = query[i]
        BY <1>1, <3>1, <3>2, CodeInString
      <4> QED BY <4>1 DEF IsCode
    <3> QED BY <3>1, <3>2
  <2>2. SetWeight(ResultsOf(set)) <= 2 * AttenuationWeight + (IF 0 = 0 THEN 0 ELSE CodeWeight)
    BY <1>1, <1>7, <2>1, SplitsWeighLess
  <2> QED BY <2>2 DEF AttenuationWeight
<1> HIDE DEF b
<1>8. Sets[best] = <<InHand>>
  BY <1>2, <1>4, <1>6, <1>7, WholeWins
<1> QED BY <1>2, <1>5, <1>8, WholeAnswers

LEMMA CodeChosen ==
  ASSUME Frame, pc = "done", rpc = "places", Keep(Phrase(slices[cur])),
         NEW d \in ToSet(Matching(Phrase(slices[cur]))), ~ d.expired,
         Trim(Phrase(slices[cur])) = <<d.code.iata>>,
         OwnWeight(d, Matching(Phrase(slices[cur]))) + CodeWeight > 0
  PROVE  \E l \in ToSet(PlacesOf(Sets[best])) :
            /\ AnsweredWith(slices[cur], l)
            /\ \E e \in ToSet(index) : e.id = l.doc /\ Trim(Phrase(slices[cur])) = <<e.code.iata>>
<1> DEFINE s == slices[cur]
           phrase == Phrase(s)
           r == Weighed(Found)[InHand]
           own == OwnWeight(d, Matching(phrase))
           b == 2 * AttenuationWeight + CodeWeight
<1>1. Hand(s) /\ AllHaveBest(Found) /\ index \in Indexes
  BY ChosenSet DEF Frame
<1>2. s.from <= s.to
  BY <1>1, KeptWords DEF Hand
<1>3. OwnWeight(d, Matching(phrase)) > 2 * AttenuationWeight
  <2>1. d \in ToSet(index) /\ Matching(phrase)[1] \in ToSet(index)
    <3> DEFINE found == Matching(phrase)
    <3>1. found \in Seq(ToSet(index)) /\ found # <<>>
      BY <1>1, MatchingIs, ToSetEmpty DEF MatchingOf
    <3> HIDE DEF found
    <3>2. 1 \in DOMAIN found
      BY <3>1, EmptySeq
    <3>3. found[1] \in ToSet(index)
      BY <3>1, <3>2
    <3>4. d \in ToSet(index)
      <4>1. d \in ToSet(found)
        BY DEF found
      <4> QED BY <3>1, <4>1, ElementsTyped
    <3> QED BY <3>3, <3>4 DEF found
  <2>2. Document(d) /\ Document(Matching(phrase)[1])
    BY <1>1, <2>1, IndexIs
  <2> DEFINE x == d.rank
             y == d.relevance
             z == Matching(phrase)[1].relevance
  <2>3. x \in Int /\ y \in Int /\ z \in Int
    BY <2>2, DocumentIs
  <2>4. own = x + (y - z) /\ own + 3041 > 0
    BY DEF OwnWeight, CodeWeight
  <2> HIDE DEF x, y, z, own
  <2>5. own > 2 * (-2929)
    BY <2>3, <2>4
  <2> QED BY <2>5 DEF own, AttenuationWeight
<1>4. WholeOf(phrase, r) /\ own \in Int
      /\ StringWeight(r) >= own + (IF CodeMatches(r, d) THEN CodeWeight ELSE 0)
  BY <1>1, <1>2, <1>3, WholeWeight
<1>5. CodeMatches(r, d)
  BY <1>4 DEF WholeOf, CodeMatches
<1>6. StringWeight(r) > 0 /\ StringWeight(r) \in Int /\ HasMatched(r)
  <2>1. StringWeight(r) \in Int /\ HasMatched(r) /\ StringWeight(r) >= own + 3041 /\ own + 3041 > 0
    BY <1>4, <1>5 DEF WholeOf, CodeWeight
  <2> HIDE DEF r, own
  <2> QED BY <1>4, <2>1
<1>7. phrase \in Seq(Word) /\ Len(phrase) = s.to + 1 - s.from
      /\ \A k \in 1..Len(phrase) : phrase[k] = query[s.from + k - 1]
  <2>1. InHand \in ToSet(Strings) /\ InHand # <<>> /\ Text(InHand) = phrase /\ InHand[1] = s.from
        /\ Len(InHand) = s.to + 1 - s.from
    <3>1. Len(InHand) = s.to + 1 - s.from /\ s.from \in Nat /\ s.to \in Nat
      BY <1>1 DEF Hand, PositionsOf, Bounds
    <3>2. Len(InHand) # 0
      BY <1>2, <3>1
    <3>3. Len(<<>>) = 0
      OBVIOUS
    <3> QED BY <1>1, <1>2, <3>1, <3>2, <3>3, WholeIs
  <2>2. Run(s.from, s.to, InHand)
    BY <1>1, <2>1, StringsInHand
  <2>3. s.from \in Nat \ {0} /\ s.to \in Nat /\ s.to <= Len(query) /\ query \in Seq(Word)
    BY <1>1 DEF Hand, Bounds
  <2>4. /\ Text(InHand) \in Seq(Word) /\ Len(Text(InHand)) = Len(InHand)
        /\ \A k \in 1..Len(InHand) : Text(InHand)[k] = query[InHand[1] + k - 1]
    BY <2>2, <2>3, TextOfRun
  <2> HIDE DEF phrase
  <2> QED BY <2>1, <2>4
<1>8. PICK a : KeptAlone(phrase, a, d.code.iata)
  BY <1>7, TrimIs
<1> DEFINE i0 == s.from + a - 1
<1>9. i0 \in s.from..s.to /\ \A i \in s.from..s.to : i # i0 => query[i] \in Filtered
  <2>1. s.from \in Nat /\ s.to \in Nat
    BY <1>1 DEF Hand, Bounds
  <2>2. a \in 1..Len(phrase) /\ \A k \in 1..Len(phrase) : k # a => phrase[k] \in Filtered
    BY <1>8 DEF KeptAlone
  <2>3. i0 \in s.from..s.to
    BY <1>7, <2>1, <2>2
  <2>4. ASSUME NEW i \in s.from..s.to, i # i0 PROVE query[i] \in Filtered
    <3> DEFINE k == i - s.from + 1
               n == Len(phrase)
               f == s.from
               t == s.to
    <3>1. k \in 1..Len(phrase) /\ s.from + k - 1 = i /\ k # a
      <4>1. n = t + 1 - f /\ a \in 1..n /\ i # f + a - 1 /\ f \in Nat /\ t \in Nat /\ i \in f..t
        BY <1>7, <2>1, <2>2, <2>4
      <4>2. k = i - f + 1
        OBVIOUS
      <4> HIDE DEF n, k, f, t
      <4>3. k \in 1..n /\ f + k - 1 = i /\ k # a
        BY <4>1, <4>2
      <4> QED BY <4>3 DEF n, f
    <3> HIDE DEF k, i0, phrase
    <3>2. phrase[k] = query[i] /\ phrase[k] \in Filtered
      BY <1>7, <2>2, <3>1
    <3> QED BY <3>2
  <2> QED BY <2>3, <2>4
<1> HIDE DEF i0
<1>10. b \in Int /\ StringWeight(r) > b
  <2>1. b = -2817
    BY DEF AttenuationWeight, CodeWeight
  <2> HIDE DEF b, r
  <2> QED BY <1>6, <2>1
<1>11. ASSUME NEW set \in ToSet(Sets), Len(set) > 1 PROVE SetWeight(ResultsOf(set)) <= b
  <2>1. SetOf(s, set) /\ DOMAIN set = 1..Len(set) /\ Len(set) \in Nat
    BY <1>1, SetWeights DEF Hand
  <2>2. PICK c \in 1..Len(set) : i0 \in ToSet(set[c])
    <3>1. PICK p \in ToSet(set) : i0 \in ToSet(p)
      BY <1>9, <2>1 DEF SetOf
    <3> QED BY <2>1, <3>1 DEF ToSet
  <2>3. ASSUME NEW k \in 1..Len(set), k # c PROVE ~ CodeString(ResultsOf(set)[k])
    <3>1. set[k] \in ToSet(Strings) /\ ResultsOf(set)[k] = Weighed(Found)[set[k]]
      BY <1>1, SetWeights
    <3>2. ASSUME CodeString(Weighed(Found)[set[k]]) PROVE FALSE
      <4>1. PICK i \in ToSet(set[k]) : i \in s.from..s.to /\ query[i] \notin Filtered
        BY <1>1, <3>1, <3>2, CodeInString
      <4>2. i = i0
        BY <1>9, <4>1
      <4>3. k < c \/ c < k
        BY <2>1, <2>3
      <4>4. i0 < i0
        BY <2>1, <2>2, <4>1, <4>2, <4>3 DEF SetOf
      <4>5. i0 \in Nat
        <5>1. s.from \in Nat /\ s.to \in Nat
          BY <1>1 DEF Hand, Bounds
        <5> QED BY <1>9, <5>1
      <4> QED BY <4>4, <4>5
    <3> QED BY <3>1, <3>2
  <2>4. SetWeight(ResultsOf(set)) <= 2 * AttenuationWeight + (IF c = 0 THEN 0 ELSE CodeWeight)
    <3>1. c \in Nat
      BY <2>1
    <3> QED BY <1>1, <1>11, <2>3, <3>1, SplitsWeighLess
  <2>5. c # 0
    BY <2>1
  <2> QED BY <2>4, <2>5
<1> HIDE DEF b
<1>12. Sets[best] = <<InHand>>
  BY <1>2, <1>10, <1>11, WholeWins
<1>13. Chosen(r) \in ToSet(index) /\ Trim(phrase) = <<Chosen(r).code.iata>>
  <2>1. /\ ResultOf(phrase, r) /\ r.query = phrase /\ r.best \in 1..Len(r.docs)
        /\ StringWeight(r) = DocumentWeight(r, Chosen(r)) /\ Chosen(r) = r.docs[r.best]
    BY <1>4 DEF WholeOf, Chosen
  <2>2. Chosen(r) \in ToSet(index)
    BY <1>1, <1>7, <2>1, DocsOfResult
  <2>3. DocumentWeight(r, r.docs[r.best]) <= IF CodeMatches(r, r.docs[r.best]) THEN CodeWeight ELSE 0
    BY <1>1, <1>7, <2>1, DocumentWeights
  <2>4. CodeMatches(r, Chosen(r))
    <3>1. ~ (StringWeight(r) <= 0)
      <4> HIDE DEF r
      <4> QED BY <1>6
    <3> QED BY <2>1, <2>3, <3>1
  <2> QED BY <2>1, <2>2, <2>4 DEF CodeMatches
<1>14. PICK l \in ToSet(PlacesOf(Sets[best])) : AnsweredWith(s, l) /\ l.doc = Chosen(r).id
  BY <1>2, <1>6, <1>12, WholeAnswers
<1> QED BY <1>13, <1>14

-----------------------------------------------------------------------------
CoveredAll == Frame /\ AnswersInv /\ ReportedInv /\ CoveredInv

LEMMA NextCovered == CoveredAll /\ [NextRequest]_<<vars, request>> => CoveredInv'
<1> SUFFICES ASSUME CoveredAll, [NextRequest]_<<vars, request>> PROVE CoveredInv'
  OBVIOUS
<1>a. Frame /\ AnswersInv /\ ReportedInv /\ CoveredInv
  BY DEF CoveredAll
<1>b. locations \in Seq(Places) /\ unmatched \in Seq(Word)
  BY <1>a DEF AnswersInv, AnswersTyped, ReportedInv
<1>c. Frame'
  BY <1>a, NextFrame
<1>1. ASSUME Next /\ UNCHANGED request PROVE CoveredInv'
  <2>1. pc # "done" /\ UNCHANGED <<cur, rpc>>
    BY <1>1 DEF Next, SingleWord, SeveralWords, Join, Cut, LastWord, Throw, AtPair, request
  <2>2. cur' = 1 /\ rpc' = "slice"
    BY <1>a, <2>1 DEF Frame, Steps
  <2>3. \A k \in DOMAIN slices' : ~ (k < 1)
    <3>1. slices' \in Seq(Slice)
      BY <1>c DEF Frame, Inv, TypeOK
    <3>2. DOMAIN slices' = 1..Len(slices') /\ Len(slices') \in Nat
      BY <3>1
    <3> QED BY <3>2
  <2> QED BY <2>2, <2>3 DEF CoveredInv
<1>2. ASSUME pc = "done"
      PROVE  /\ DOMAIN slices = 1..Len(slices) /\ Len(slices) \in Nat /\ cur \in Nat
             /\ cur <= Len(slices) => Hand(slices[cur]) /\ cur \in DOMAIN slices
  BY <1>a, <1>2, HandIs, SlicesBounded DEF Frame
\* the slices before
<1>3. ASSUME UNCHANGED <<vars, index, db>>,
             ToSet(locations) \subseteq ToSet(locations'), ToSet(unmatched) \subseteq ToSet(unmatched')
      PROVE  \A k \in DOMAIN slices' : k < cur => Served(slices[k])'
  <2> SUFFICES ASSUME NEW k \in DOMAIN slices, k < cur PROVE Served(slices[k])'
    BY <1>3 DEF vars
  <2>1. PICK s : s = slices[k]
    OBVIOUS
  <2>2. Served(s)
    BY <1>a, <2>1 DEF CoveredInv
  <2>3. Served(s)'
    BY <1>3, <2>2, StableCovered DEF vars
  <2>4. slices'[k] = s
    BY <1>3, <2>1 DEF vars
  <2> QED BY <2>3, <2>4 DEF Served, CodesWithRow, Accounted, Answered, Reported
\* one more
<1>4. ASSUME UNCHANGED <<vars, index, db>>, cur' = cur + 1, rpc' = "slice", pc = "done", cur <= Len(slices),
             ToSet(locations) \subseteq ToSet(locations'), ToSet(unmatched) \subseteq ToSet(unmatched'),
             NEW s, s = slices[cur], Served(s)'
      PROVE  CoveredInv'
  <2>1. \A k \in DOMAIN slices' : k < cur => Served(slices[k])'
    BY <1>3, <1>4
  <2>2. \A k \in DOMAIN slices' : k < cur' => k < cur \/ k = cur
    <3>1. DOMAIN slices' = 1..Len(slices) /\ cur \in Nat
      BY <1>2, <1>4 DEF vars
    <3> QED BY <1>4, <3>1
  <2>3. ASSUME NEW k \in DOMAIN slices', k = cur PROVE Served(slices[k])'
    <3>1. slices'[k] = s
      BY <1>4, <2>3 DEF vars
    <3> QED BY <1>4, <3>1 DEF Served, CodesWithRow, Accounted, Answered, Reported
  <2> QED BY <1>4, <2>1, <2>2, <2>3 DEF CoveredInv
<1>5. CASE SearchString /\ UNCHANGED db
  <2> DEFINE s == slices[cur]
  <2>1. /\ pc = "done" /\ cur <= Len(slices) /\ UNCHANGED <<vars, index, cur, locations, db>>
        /\ unmatched' = unmatched \o UnmatchedWords(Len(Strings))
    BY <1>5 DEF SearchString, AtStep
  <2>2. Hand(s) /\ index \in Indexes
    BY <1>2, <1>a, <2>1 DEF Frame
  <2>3. UnmatchedWords(Len(Strings)) \in Seq(Word)
    <3>1. Len(Strings) \in 0..Len(Strings)
      <4>1. Len(Strings) \in Nat
        BY <2>2, StringsInHand
      <4> QED BY <4>1
    <3> QED BY <2>2, <3>1, UnmatchedIs DEF ReportsOf
  <2>4. ToSet(unmatched') = ToSet(unmatched) \cup ToSet(UnmatchedWords(Len(Strings)))
    BY <1>b, <2>1, <2>3, ToSetConcat
  <2>5. ASSUME NEW i \in s.from..s.to, ToReport(i) PROVE Reported(i)'
    <3>1. query[i] \in ToSet(UnmatchedWords(Len(Strings)))
      BY <2>2, <2>5, AllReported
    <3>2. query' = query
      BY <2>1 DEF vars
    <3> QED BY <2>4, <3>1, <3>2 DEF Reported
  <2>6. \A i : ToReport(i)' <=> ToReport(i)
    BY <2>1, StableToReport DEF vars
  <2>7. slices'[cur'] = s
    BY <2>1 DEF vars
  <2>8. \A k \in DOMAIN slices' : k < cur => Served(slices[k])'
    BY <1>3, <2>1, <2>4
  <2> QED BY <2>1, <2>5, <2>6, <2>7, <2>8 DEF CoveredInv
<1>6. CASE CodesFound /\ UNCHANGED db
  <2>1. /\ Onwards /\ AtStep(rpc) /\ rpc # "thrown" /\ locations' = locations \o CodeLocations
        /\ cur' = cur + 1 /\ rpc' = "slice" /\ UNCHANGED <<vars, index, db, unmatched>>
        /\ pc = "done" /\ cur <= Len(slices) /\ ByDatabase(InHand)
    BY <1>6, StepsOnwards DEF CodesFound, AtStep, NextSlice
  <2>2. AnswersOf(slices[cur], CodeLocations)
    BY <1>a, <2>1, HandIs, CodeLocationsAre DEF Frame
  <2>3. ToSet(locations') = ToSet(locations) \cup ToSet(CodeLocations)
    BY <1>a, <2>1, <2>2, MoreAnswers
  <2>4. PICK s : s = slices[cur]
    OBVIOUS
  <2>5. CodesWithRow(s)
    <3>1. Hand(s)
      BY <1>2, <2>1, <2>4
    <3>2. InHand = Positions(s) /\ ToSet(InHand) = s.from..s.to
      BY <3>1 DEF Hand, PositionsOf
    <3> QED BY <2>1, <3>2 DEF ByDatabase, CodesWithRow
  <2>6. Served(s)
    BY <2>5 DEF Served, CoveredSlice, AnsweredAsWhole, AnsweredByCode
  <2>7. Served(s)'
    BY <2>1, <2>3, <2>6, StableCovered DEF vars
  <2> QED BY <1>4, <2>1, <2>3, <2>4, <2>7
<1>7. CASE CreatePlaces /\ UNCHANGED db
  <2>1. /\ Onwards /\ AtStep(rpc) /\ rpc # "thrown" /\ rpc = "places" /\ pc = "done"
        /\ locations' = locations \o PlacesOf(Sets[best])
        /\ cur' = cur + 1 /\ rpc' = "slice" /\ UNCHANGED <<vars, index, db, unmatched>>
        /\ cur <= Len(slices)
    BY <1>7, StepsOnwards DEF CreatePlaces, AtStep, NextSlice
  <2>2. AnswersOf(slices[cur], PlacesOf(Sets[best]))
    BY <1>a, <2>1, PlacesAre
  <2>3. ToSet(locations') = ToSet(locations) \cup ToSet(PlacesOf(Sets[best]))
    BY <1>a, <2>1, <2>2, MoreAnswers
  <2>4. PICK s : s = slices[cur]
    OBVIOUS
  <2>5. ASSUME s.to <= s.from + 1, NEW i \in s.from..s.to PROVE Accounted(i)'
    <3>1. \/ \E l \in ToSet(PlacesOf(Sets[best])) : At(l, i)
          \/ Reported(i) \/ query[i] \in Filtered
      BY <1>a, <2>1, <2>4, <2>5, AllAccounted
    <3>2. query' = query /\ unmatched' = unmatched
      BY <2>1 DEF vars
    <3>3. CASE \E l \in ToSet(PlacesOf(Sets[best])) : At(l, i)
      BY <2>3, <3>3 DEF Accounted, Answered, At
    <3>4. CASE Reported(i) \/ query[i] \in Filtered
      BY <3>2, <3>4 DEF Accounted, Reported
    <3> QED BY <3>1, <3>3, <3>4
  <2>6. CoveredSlice(s)'
    BY <2>5 DEF CoveredSlice
  <2>a. /\ query' = query /\ index' = index /\ Phrase(s)' = Phrase(s)
        /\ Matching(Phrase(s))' = Matching(Phrase(s))
    <3>1. query' = query /\ index' = index
      BY <2>1 DEF vars
    <3> QED BY <3>1 DEF Matching, Phrase, Picked, Holds
  <2>b. ToSet(PlacesOf(Sets[best])) \subseteq ToSet(locations')
    BY <2>3
  <2>7. AnsweredAsWhole(s)'
    <3>1. ASSUME Keep(Phrase(s)), \A i \in s.from..s.to : ~ IsCode(query[i]),
                 NEW d \in ToSet(Matching(Phrase(s))), ~ d.expired,
                 OwnWeight(d, Matching(Phrase(s))) > 2 * AttenuationWeight
          PROVE  \E l \in ToSet(locations') : AnsweredWith(s, l)
      <4>1. \E l \in ToSet(PlacesOf(Sets[best])) : AnsweredWith(s, l)
        BY <1>a, <2>1, <2>4, <3>1, WholeChosen
      <4> QED BY <2>b, <4>1
    <3> QED BY <2>a, <3>1 DEF AnsweredAsWhole, Keep, IsCode, OwnWeight, AnsweredWith
  <2>8. AnsweredByCode(s)'
    <3>1. ASSUME Keep(Phrase(s)),
                 NEW d \in ToSet(Matching(Phrase(s))), Trim(Phrase(s)) = <<d.code.iata>>, ~ d.expired,
                 OwnWeight(d, Matching(Phrase(s))) + CodeWeight > 0
          PROVE  \E l \in ToSet(locations') :
                    /\ AnsweredWith(s, l)
                    /\ \E e \in ToSet(index) : e.id = l.doc /\ Trim(Phrase(s)) = <<e.code.iata>>
      <4>1. \E l \in ToSet(PlacesOf(Sets[best])) :
                    /\ AnsweredWith(s, l)
                    /\ \E e \in ToSet(index) : e.id = l.doc /\ Trim(Phrase(s)) = <<e.code.iata>>
        BY <1>a, <2>1, <2>4, <3>1, CodeChosen
      <4> QED BY <2>b, <4>1
    <3> QED BY <2>a, <3>1 DEF AnsweredByCode, Keep, Trim, OwnWeight, AnsweredWith
  <2>9. Served(s)'
    BY <2>6, <2>7, <2>8 DEF Served
  <2> QED BY <1>4, <2>1, <2>3, <2>4, <2>9
\* the steps that move on within the slice, or end the request
<1>8. ASSUME UNCHANGED <<vars, index, db, cur>>,
             ToSet(locations) \subseteq ToSet(locations'), ToSet(unmatched) \subseteq ToSet(unmatched'),
             rpc' \in {"weigh", "choose", "places"} => rpc \in {"weigh", "choose", "places"}
      PROVE  CoveredInv'
  <2>1. \A k \in DOMAIN slices' : k < cur => Served(slices[k])'
    BY <1>3, <1>8
  <2>2. \A i : (ToReport(i)' <=> ToReport(i)) /\ (Reported(i) => Reported(i)')
    BY <1>8, StableToReport DEF vars, Reported
  <2>3. slices'[cur'] = slices[cur]
    BY <1>8 DEF vars
  <2> QED BY <1>8, <1>a, <2>1, <2>2, <2>3 DEF CoveredInv
<1>9. CASE SearchFails /\ UNCHANGED db
  <2>1. PICK n \in 0..(Len(Strings) - 1) : unmatched' = unmatched \o UnmatchedWords(n)
    BY <1>9 DEF SearchFails
  <2>2. /\ pc = "done" /\ cur <= Len(slices) /\ UNCHANGED <<vars, index, cur, locations, db>>
        /\ rpc' = "thrown"
    BY <1>9 DEF SearchFails, AtStep
  <2>3. Hand(slices[cur]) /\ index \in Indexes
    BY <1>2, <1>a, <2>2 DEF Frame
  <2>4. n \in 0..Len(Strings)
    <3>1. Len(Strings) \in Nat
      BY <2>3, StringsInHand
    <3> QED BY <3>1
  <2>5. UnmatchedWords(n) \in Seq(Word)
    BY <2>3, <2>4, UnmatchedIs DEF ReportsOf
  <2>6. ToSet(unmatched) \subseteq ToSet(unmatched')
    BY <1>b, <2>1, <2>5, ToSetConcat
  <2> QED BY <1>8, <2>2, <2>6
<1>10. CASE DatabaseFails /\ UNCHANGED db
  <2>1. Onwards /\ AtStep(rpc) /\ rpc # "thrown" /\ rpc' = "thrown" /\ UNCHANGED <<vars, index, cur, unmatched>>
    BY <1>10, StepsOnwards DEF DatabaseFails, AtStep
  <2>2. PICK n \in 0..Len(CodeLocations) : locations' = locations \o SubSeq(CodeLocations, 1, n)
    BY <1>10 DEF DatabaseFails
  <2>3. AnswersOf(slices[cur], CodeLocations)
    BY <1>a, <2>1, HandIs, CodeLocationsAre DEF AtStep, Frame
  <2>4. AnswersOf(slices[cur], SubSeq(CodeLocations, 1, n))
    BY <2>3, FirstAnswers
  <2>5. ToSet(locations) \subseteq ToSet(locations')
    BY <1>a, <2>1, <2>2, <2>4, MoreAnswers
  <2> QED BY <1>10, <1>8, <2>1, <2>5
<1>11. CASE (SearchIndex \/ CalculateAllWeights \/ AssertionFails \/ ChooseBest \/ Return) /\ UNCHANGED db
  <2>1. UNCHANGED <<vars, index, db, cur, locations, unmatched>>
        /\ (rpc' \in {"weigh", "choose", "places"} => rpc \in {"weigh", "choose", "places"})
    BY <1>11 DEF SearchIndex, CalculateAllWeights, AssertionFails, ChooseBest, Return, AtStep
  <2> QED BY <1>8, <2>1
<1>12. CASE UNCHANGED <<vars, request>>
  BY <1>8, <1>12 DEF request
<1> QED BY <1>1, <1>5, <1>6, <1>7, <1>9, <1>10, <1>11, <1>12 DEF NextRequest

LEMMA CoveredInvariance == SpecRequest => []CoveredAll
<1>1. InitRequest => CoveredAll
  <2> SUFFICES ASSUME InitRequest PROVE CoveredAll
    OBVIOUS
  <2>1. slices = <<>> /\ rpc = "slice"
    BY DEF InitRequest, Init
  <2>2. DOMAIN slices = {}
    BY <2>1
  <2>3. CoveredInv
    BY <2>1, <2>2 DEF CoveredInv
  <2> QED BY <2>3, InitFrame, InitAnswers, InitReports DEF CoveredAll
<1>2. CoveredAll /\ [NextRequest]_<<vars, request>> => CoveredAll'
  BY NextFrame, NextAnswers, NextReports, NextCovered DEF CoveredAll
<1> QED BY <1>1, <1>2, PTL DEF SpecRequest

LEMMA AllServed ==
  ASSUME CoveredAll, Returned, NEW s \in ToSet(slices)
  PROVE  Served(s)
<1>1. cur = Len(slices) + 1 /\ slices \in Seq(Slice)
  BY DEF CoveredAll, Frame, Steps, Returned, Inv, TypeOK
<1>2. DOMAIN slices = 1..Len(slices) /\ Len(slices) \in Nat
  BY <1>1
<1>3. PICK k \in 1..Len(slices) : s = slices[k]
  BY <1>2 DEF ToSet
<1>4. k \in DOMAIN slices /\ k < cur
  BY <1>1, <1>2
<1> QED BY <1>3, <1>4 DEF CoveredAll, CoveredInv

(***************************************************************************)
(* Whatever the index, a slice of one or two words loses none of them: two *)
(* words make a slice only if the index knows them together, and then the  *)
(* whole is matched; a word on its own that is not is reported.            *)
(***************************************************************************)
THEOREM ShortSlicesAlwaysCovered == SpecRequest => []ShortSlicesCovered
<1>1. CoveredAll => ShortSlicesCovered
  <2> SUFFICES ASSUME CoveredAll, Returned, NEW s \in ToSet(slices), s.to <= s.from + 1, ~ CodesWithRow(s)
               PROVE  \A i \in s.from..s.to : Accounted(i)
    BY DEF ShortSlicesCovered
  <2> QED BY AllServed DEF Served, CoveredSlice
<1> QED BY <1>1, CoveredInvariance, PTL

(***************************************************************************)
(* Whatever the query and the index, a slice without any code is answered  *)
(* as a whole by a document whose PageRank and relevance take less off     *)
(* than the attenuation of two strings: no split of it weighs as much.     *)
(***************************************************************************)
THEOREM WholeAlwaysFirst == SpecRequest => []WholeFirst
<1>1. CoveredAll => WholeFirst
  <2> SUFFICES ASSUME CoveredAll, Returned, NEW s \in ToSet(slices) PROVE AnsweredAsWhole(s)
    BY DEF WholeFirst, AnsweredAsWhole
  <2> QED BY AllServed DEF Served
<1> QED BY <1>1, CoveredInvariance, PTL

(***************************************************************************)
(* Whatever the query and the index, the code of a POR is answered by a    *)
(* POR with that code: its bonus outweighs all the documents without the   *)
(* code, and the attenuation of its splits takes more off than the bonus.  *)
(***************************************************************************)
THEOREM CodeAlwaysAnswers == SpecRequest => []CodeAnswersItself
<1>1. CoveredAll => CodeAnswersItself
  <2> SUFFICES ASSUME CoveredAll, Returned, NEW s \in ToSet(slices) PROVE AnsweredByCode(s)
    BY DEF CodeAnswersItself, AnsweredByCode
  <2> QED BY AllServed DEF Served
<1> QED BY <1>1, CoveredInvariance, PTL

-----------------------------------------------------------------------------
(***************************************************************************)
(* Types.  The best set of strings is one of those that were weighed: the  *)
(* weights and the best one of a slice do not outlive it.                  *)
(***************************************************************************)
RequestStep == {"slice", "search", "weigh", "choose", "places", "returned", "thrown", "aborted"}

BestInv ==
    /\ db \in DBs /\ rpc \in RequestStep
    /\ Len(weights) \in Nat /\ best \in 0..Len(weights)
    /\ rpc \in {"slice", "search", "weigh", "choose"} => best = 0

LEMMA SetsAreCounted ==
  ASSUME NEW s, Hand(s)
  PROVE  DOMAIN Sets = 1..Len(Sets) /\ Len(Sets) \in Nat
<1> DEFINE P == Seq(Seq(s.from..s.to))
<1>1. Sets \in Seq(P)
  BY DEF Hand, PartitionOf
<1> HIDE DEF P
<1> QED BY <1>1

LEMMA WeightsOfSets ==
  ASSUME Frame, pc = "done", rpc \in {"choose", "places"}
  PROVE  /\ Len(weights) = Len(Sets) /\ Len(Sets) \in Nat
         /\ FirstBest(weights) \in 0..Len(Sets)
<1> DEFINE s == slices[cur]
           m == Len(Sets)
<1>1. cur <= Len(slices) /\ weights = WeightsOf(Weighed(Found)) /\ results = Weighed(Found)
      /\ AllHaveBest(Found) /\ index \in Indexes
  BY DEF Frame, Steps
<1>2. Hand(s)
  BY <1>1, HandIs
<1>3. DOMAIN Sets = 1..m /\ m \in Nat
  BY <1>2, SetsAreCounted
<1> HIDE DEF s
<1>4. \A i \in 1..m : Sets[i] \in ToSet(Sets)
  BY <1>3 DEF ToSet
<1>5. weights = [i \in 1..m |-> SetWeight(ResultsOf(Sets[i]))]
  BY <1>1, <1>3 DEF WeightsOf, ResultsOf
<1>6. \A i \in 1..m : SetWeight(ResultsOf(Sets[i])) \in Int
  BY <1>1, <1>2, <1>4, SetWeights
<1> HIDE DEF m
<1>7. weights \in [1..m -> Int]
  BY <1>5, <1>6
<1>8. FirstHighest(m, weights, FirstBest(weights))
  BY <1>3, <1>7, FirstBestIs
<1>9. Len(weights) = m
  BY <1>3, <1>7
<1> QED BY <1>3, <1>8, <1>9 DEF FirstHighest, m

LEMMA InitBest == InitRequest => BestInv
<1> SUFFICES ASSUME InitRequest PROVE BestInv
  OBVIOUS
<1>1. db \in DBs /\ rpc = "slice" /\ weights = <<>> /\ best = 0
  BY DEF InitRequest
<1>2. Len(weights) = 0
  BY <1>1
<1> QED BY <1>1, <1>2 DEF BestInv, RequestStep

LEMMA NextBest == Frame /\ Frame' /\ BestInv /\ [NextRequest]_<<vars, request>> => BestInv'
<1> SUFFICES ASSUME Frame, Frame', BestInv, [NextRequest]_<<vars, request>> PROVE BestInv'
  OBVIOUS
<1>0. db' = db /\ db' \in DBs
  BY DEF NextRequest, request, BestInv
<1>1. CASE UNCHANGED request
  <2>1. UNCHANGED <<db, rpc, weights, best>>
    BY <1>1 DEF request
  <2> QED BY <2>1 DEF BestInv
<1>2. CASE CodesFound \/ CreatePlaces
  <2>1. rpc' = "slice" /\ weights' = <<>> /\ best' = 0
    BY <1>2 DEF CodesFound, CreatePlaces, NextSlice
  <2>2. Len(weights') = 0
    BY <2>1
  <2> QED BY <1>0, <2>1, <2>2 DEF BestInv, RequestStep
<1>3. CASE \/ SearchIndex \/ DatabaseFails \/ SearchString \/ SearchFails
           \/ AssertionFails \/ Return
  <2>1. /\ UNCHANGED <<weights, best>> /\ rpc \in {"slice", "search", "weigh"}
        /\ rpc' \in {"search", "thrown", "weigh", "aborted", "returned"}
    BY <1>3 DEF SearchIndex, DatabaseFails, SearchString, SearchFails, AssertionFails, Return,
                AtStep
  <2> QED BY <1>0, <2>1 DEF BestInv, RequestStep
<1>4. CASE CalculateAllWeights
  <2>1. rpc = "weigh" /\ rpc' = "choose" /\ best' = best /\ pc' = "done"
    BY <1>4 DEF CalculateAllWeights, AtStep, vars
  <2>2. Len(weights') \in Nat
    <3>1. pc = "done" /\ cur <= Len(slices)
      BY <1>4 DEF CalculateAllWeights, AtStep
    <3>2. DOMAIN Sets = 1..Len(Sets) /\ Len(Sets) \in Nat
      BY <3>1, HandIs, SetsAreCounted
    <3> DEFINE weight(i) == SetWeight([k \in DOMAIN Sets[i] |-> results'[Sets[i][k]]])
    <3>3. weights' = [i \in 1..Len(Sets) |-> weight(i)]
      BY <1>4, <3>2 DEF CalculateAllWeights
    <3> HIDE DEF weight
    <3> QED BY <3>2, <3>3
  <2>3. best' = 0
    BY <2>1 DEF BestInv
  <2> QED BY <1>0, <2>1, <2>2, <2>3 DEF BestInv, RequestStep
<1>5. CASE ChooseBest
  <2>1. /\ pc = "done" /\ rpc = "choose" /\ rpc' \in {"thrown", "places"}
        /\ best' = FirstBest(weights) /\ weights' = weights
    BY <1>5 DEF ChooseBest, AtStep
  <2>2. Len(weights) \in Nat /\ FirstBest(weights) \in 0..Len(weights)
    <3>1. Len(weights) = Len(Sets) /\ Len(Sets) \in Nat /\ FirstBest(weights) \in 0..Len(Sets)
      BY <2>1, WeightsOfSets
    <3> QED BY <3>1
  <2> QED BY <1>0, <2>1, <2>2 DEF BestInv, RequestStep
<1>6. UNCHANGED <<vars, request>> => UNCHANGED request
  OBVIOUS
<1> QED BY <1>1, <1>2, <1>3, <1>4, <1>5, <1>6 DEF NextRequest

(***************************************************************************)
(* Every state of a request has its type, whatever the query, the index    *)
(* and the kind of database: the set of strings that the places are made   *)
(* of exists, and there is one weight for each set of the slice in hand.   *)
(***************************************************************************)
THEOREM RequestTyped == SpecRequest => []TypeOKRequest
<1>1. InitRequest => Frame /\ ReportedInv /\ BestInv
  BY InitFrame, InitReports, InitBest
<1>2. Frame /\ ReportedInv /\ [NextRequest]_<<vars, request>> => Frame' /\ ReportedInv'
  BY NextFrame, NextReports
<1>3. Frame /\ Frame' /\ BestInv /\ [NextRequest]_<<vars, request>> => BestInv'
  BY NextBest
<1>4. Frame /\ ReportedInv /\ BestInv => TypeOKRequest
  <2> SUFFICES ASSUME Frame, ReportedInv, BestInv PROVE TypeOKRequest
    OBVIOUS
  <2>1. rpc = "places" => best > 0 /\ Len(weights) = Len(Sets)
    <3> SUFFICES ASSUME rpc = "places" PROVE best > 0 /\ Len(weights) = Len(Sets)
      OBVIOUS
    <3>1. pc = "done" /\ best # 0
      BY DEF Frame, Steps
    <3>2. Len(weights) = Len(Sets)
      BY <3>1, WeightsOfSets
    <3>3. best \in Nat
      BY DEF BestInv
    <3> QED BY <3>1, <3>2, <3>3
  <2>2. /\ db \in DBs /\ index \in Indexes /\ rpc \in RequestStep
        /\ cur \in 1..(Len(slices) + 1) /\ best \in 0..Len(weights) /\ unmatched \in Seq(Word)
    BY DEF Frame, ReportedInv, BestInv
  <2> QED BY <2>1, <2>2 DEF TypeOKRequest, RequestStep
<1> QED BY <1>1, <1>2, <1>3, <1>4, PTL DEF SpecRequest

-----------------------------------------------------------------------------
(***************************************************************************)
(* The steps left to the answer of the slices, at most: six for each of    *)
(* them, those the slice in hand has taken apart.                          *)
(***************************************************************************)
StepsOfSlice ==
    CASE rpc = "slice"  -> 5
      [] rpc = "search" -> 4
      [] rpc = "weigh"  -> 3
      [] rpc = "choose" -> 2
      [] rpc = "places" -> 1
      [] OTHER          -> 0

StepsLeft == 6 * (Len(slices) + 1 - cur) + StepsOfSlice

LEMMA StepsAreCounted ==
  ASSUME Frame
  PROVE  StepsLeft \in Nat
<1>1. Len(slices) \in Nat /\ cur \in 1..(Len(slices) + 1)
  BY DEF Frame, Inv, TypeOK
<1>2. StepsOfSlice \in 0..5
  BY DEF StepsOfSlice
<1> QED BY <1>1, <1>2 DEF StepsLeft

LEMMA StepsFall ==
  ASSUME Frame, NextRequest, ~ Next
  PROVE  TurnsLeft' = TurnsLeft /\ StepsLeft' < StepsLeft
<1>1. Len(slices) \in Nat /\ cur \in 1..(Len(slices) + 1)
  BY DEF Frame, Inv, TypeOK
<1>2. UNCHANGED <<query, pc, left, slices>>
  BY DEF NextRequest, CodesFound, SearchIndex, DatabaseFails, SearchString, SearchFails,
         CalculateAllWeights, AssertionFails, ChooseBest, CreatePlaces, Return, vars
<1>3. TurnsLeft' = TurnsLeft
  BY <1>2 DEF TurnsLeft
<1>4. CASE CodesFound \/ CreatePlaces
  <2>1. /\ cur <= Len(slices) /\ cur' = cur + 1
        /\ rpc \in {"slice", "places"} /\ rpc' = "slice"
    BY <1>4 DEF CodesFound, CreatePlaces, AtStep, NextSlice
  <2>2. StepsOfSlice' = 5 /\ StepsOfSlice \in 1..5
    BY <2>1 DEF StepsOfSlice
  <2> QED BY <1>1, <1>2, <1>3, <2>1, <2>2 DEF StepsLeft
<1>5. CASE \/ SearchIndex \/ DatabaseFails \/ SearchString \/ SearchFails
           \/ CalculateAllWeights \/ AssertionFails \/ ChooseBest \/ Return
  <2>1. /\ cur' = cur
        /\ \/ rpc = "slice" /\ rpc' \in {"search", "thrown", "returned"}
           \/ rpc = "search" /\ rpc' \in {"weigh", "thrown"}
           \/ rpc = "weigh" /\ rpc' \in {"choose", "aborted"}
           \/ rpc = "choose" /\ rpc' \in {"places", "thrown"}
    BY <1>5 DEF SearchIndex, DatabaseFails, SearchString, SearchFails, CalculateAllWeights,
                AssertionFails, ChooseBest, Return, AtStep
  <2>2. StepsOfSlice' < StepsOfSlice /\ StepsOfSlice \in 0..5 /\ StepsOfSlice' \in 0..5
    BY <2>1 DEF StepsOfSlice
  <2> QED BY <1>1, <1>2, <1>3, <2>1, <2>2 DEF StepsLeft
<1> QED BY <1>4, <1>5 DEF NextRequest

(***************************************************************************)
(* The service of a request never turns in circles: each of its steps      *)
(* lowers a pair of natural numbers, the turns left to the cutting of the  *)
(* query first, then the steps left to the slices, whatever the index and  *)
(* the database answer, failures included.  With the fairness of           *)
(* SpecRequest, it ends as RequestIsServed says.                           *)
(***************************************************************************)
RequestAdvances ==
    [][/\ TurnsLeft' \in Nat /\ StepsLeft' \in Nat
       /\ \/ TurnsLeft' < TurnsLeft
          \/ TurnsLeft' = TurnsLeft /\ StepsLeft' < StepsLeft]_<<vars, request>>

THEOREM RequestNeverCircles == SpecRequest => RequestAdvances
<1>1. InitRequest => Frame
  BY InitFrame
<1>2. Frame /\ [NextRequest]_<<vars, request>> => Frame'
  BY NextFrame
<1>3. Frame => TurnsLeft \in Nat /\ StepsLeft \in Nat
  BY TurnsAreCounted, StepsAreCounted DEF Frame
<1>4. Frame /\ (TurnsLeft \in Nat /\ StepsLeft \in Nat)' /\ [NextRequest]_<<vars, request>>
        => [/\ TurnsLeft' \in Nat /\ StepsLeft' \in Nat
            /\ \/ TurnsLeft' < TurnsLeft
               \/ TurnsLeft' = TurnsLeft /\ StepsLeft' < StepsLeft]_<<vars, request>>
  <2>1. ASSUME Frame, TurnsLeft' \in Nat, Next PROVE TurnsLeft' < TurnsLeft
    BY <2>1, TurnsFall DEF Frame
  <2> QED BY <2>1, StepsFall
<1> QED BY <1>1, <1>2, <1>3, <1>4, PTL DEF SpecRequest, RequestAdvances
=============================================================================
