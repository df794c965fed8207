------------------------- MODULE QuerySlices_proofs -------------------------
(***************************************************************************)
(* Proofs about QuerySlices, for queries of any length and every set of    *)
(* matching pairs; about the query as a phrase (module Words); and about   *)
(* the edit distance, for any two strings.                                 *)
(***************************************************************************)
EXTENDS Words, EditDistance, StringPartition_proofs, TLAPS

LEMMA QueryType == ASSUME NEW q \in Queries PROVE q \in Seq(Word) /\ Len(q) \in Nat
  BY QueriesAssumption

(***************************************************************************)
(* The position of the last word sliced so far.                            *)
(***************************************************************************)
Sliced == IF slices = <<>> THEN 0 ELSE slices[Len(slices)].to

(***************************************************************************)
(* A slice in the making: words that match two by two, all separated, and  *)
(* starting where the former slice ended.                                  *)
(***************************************************************************)
Linked(s) == \A i \in Nat : s.from <= i /\ i < s.to => Together(i)

SlicesInv ==
    /\ \A k \in DOMAIN slices : Follows(k)
    /\ \A k \in DOMAIN slices :
        /\ Linked(slices[k]) /\ Separated(slices[k])
        /\ slices[k].to <= Len(query)
        /\ Len(query) > 0 => ~ IsEmpty(slices[k])
        /\ slices[k].to < Len(query) => ~ Together(slices[k].to)
    /\ \A i \in 1..Sliced : \E k \in DOMAIN slices :
            slices[k].from <= i /\ i <= slices[k].to

StagingInv ==
    /\ pc \notin {"start", "done"} => left <= Len(query) /\ Len(query) > 1
    /\ pc = "start" => slices = <<>> /\ left = 1 /\ idxRel = 1 /\ staging = Empty
    /\ pc = "pairs" =>
        /\ IsEmpty(staging) => staging.seps = 0 /\ Sliced = left - 1 /\ idxRel = 1
        /\ ~ IsEmpty(staging) => /\ staging.from = Sliced + 1
                                 /\ staging.to = left - 1
                                 /\ Together(left - 1)
                                 /\ idxRel >= 2
        /\ Linked(staging) /\ Separated(staging)
    /\ pc = "done" => slices # <<>> /\ Sliced = Len(query)

Inv == TypeOK /\ SlicesInv /\ StagingInv

(***************************************************************************)
(* A slice that starts where the former one ended can be appended.         *)
(***************************************************************************)
LEMMA AppendSlice ==
    ASSUME TypeOK, SlicesInv, UNCHANGED <<query, matching>>, NEW s \in Slice,
           slices' = Append(slices, s), ~ IsEmpty(s), s.from = Sliced + 1,
           s.to <= Len(query), Linked(s), Separated(s),
           s.to < Len(query) => ~ Together(s.to)
    PROVE  SlicesInv' /\ Sliced' = s.to /\ slices' # <<>> /\ slices' \in Seq(Slice)
<1> DEFINE m == Len(slices)
<1>1. /\ slices \in Seq(Slice) /\ m \in Nat /\ DOMAIN slices = 1..m
      /\ slices' \in Seq(Slice) /\ Len(slices') = m + 1
      /\ DOMAIN slices' = 1..(m + 1) /\ slices'[m + 1] = s
      /\ \A k \in 1..m : slices'[k] = slices[k]
  BY DEF TypeOK
<1>2. \A k \in 1..m : slices[k] \in Slice
  BY <1>1
<1>3. Sliced' = s.to /\ slices' # <<>>
  BY <1>1 DEF Sliced
<1>4. Sliced = IF m = 0 THEN 0 ELSE slices[m].to
  BY <1>1 DEF Sliced
<1>5. ASSUME NEW k \in 1..(m + 1) PROVE Follows(k)'
  <2>1. CASE k = m + 1
    <3>1. m # 0 => slices'[k - 1] = slices[m]
      <4>1. k - 1 = m
        BY <1>1, <2>1
      <4>2. m # 0 => m \in 1..m
        BY <1>1
      <4>3. m # 0 => slices'[m] = slices[m]
        BY <1>1, <4>2
      <4> HIDE DEF m
      <4> QED
        BY <4>1, <4>3
    <3>2. slices'[k].from = IF m = 0 THEN 1 ELSE slices[m].to + 1
      BY <1>1, <1>2, <1>4, <2>1
    <3>3. k = 1 <=> m = 0
      BY <1>1, <2>1
    <3> QED
      BY <3>1, <3>2, <3>3 DEF Follows
  <2>2. CASE k \in 1..m
    BY <1>1, <2>2 DEF SlicesInv, Follows
  <2> QED
    BY <1>1, <2>1, <2>2
<1>6. ASSUME NEW t \in Slice, Linked(t) PROVE Linked(t)'
  BY <1>6 DEF Linked, Together
<1>7. ASSUME NEW k \in 1..(m + 1)
      PROVE  (/\ Linked(slices[k]) /\ Separated(slices[k])
              /\ slices[k].to <= Len(query)
              /\ Len(query) > 0 => ~ IsEmpty(slices[k])
              /\ slices[k].to < Len(query) => ~ Together(slices[k].to))'
  <2>1. CASE k = m + 1
    BY <1>1, <1>6, <2>1 DEF Linked, Separated, IsEmpty, Together
  <2>2. CASE k \in 1..m
    BY <1>1, <1>2, <1>6, <2>2 DEF SlicesInv, Linked, Separated, IsEmpty, Together
  <2> QED
    BY <1>1, <2>1, <2>2
<1>8. ASSUME NEW i \in 1..s.to
      PROVE  \E k \in 1..(m + 1) : slices'[k].from <= i /\ i <= slices'[k].to
  <2>0. s.to \in Nat /\ s.from \in Nat /\ Sliced \in Nat
    BY <1>1, <1>2, <1>4 DEF Slice
  <2>1. CASE i <= Sliced
    BY <1>1, <2>0, <2>1 DEF SlicesInv
  <2>2. CASE i > Sliced
    BY <1>1, <2>0, <2>2
  <2> QED
    BY <2>0, <2>1, <2>2
<1> QED
  BY <1>1, <1>3, <1>5, <1>7, <1>8 DEF SlicesInv

LEMMA InitInv == Init => Inv
<1> SUFFICES ASSUME Init PROVE Inv
  OBVIOUS
<1>1. TypeOK
  BY DEF Init, TypeOK, Slice, Empty
<1>2. SlicesInv /\ StagingInv
  BY DEF Init, SlicesInv, StagingInv, Sliced
<1> QED
  BY <1>1, <1>2 DEF Inv

(***************************************************************************)
(* The staging string and the left word, when the browsing is at a pair    *)
(* or at the last word.                                                    *)
(***************************************************************************)
LEMMA StagedWord ==
    ASSUME Inv, pc = "pairs", NEW s, s = AddWord(staging, ~ IsEmpty(staging), left)
    PROVE  /\ s \in Slice /\ ~ IsEmpty(s) /\ s.from = Sliced + 1 /\ s.to = left
           /\ Linked(s) /\ Separated(s)
<1>1. /\ staging \in Slice /\ left \in Nat \ {0}
      /\ staging.from \in Nat /\ staging.to \in Nat /\ staging.seps \in Nat
  BY DEF Inv, TypeOK, Slice
<1>2. s = [from |-> IF IsEmpty(staging) THEN left ELSE staging.from,
           to |-> left,
           seps |-> IF IsEmpty(staging) THEN staging.seps
                    ELSE staging.seps + 1]
  BY DEF AddWord
<1>3. s \in Slice
  BY <1>1, <1>2 DEF Slice
<1>4. CASE IsEmpty(staging)
  <2>1. Sliced = left - 1 /\ staging.seps = 0
    BY <1>4 DEF Inv, StagingInv
  <2>2. s = [from |-> left, to |-> left, seps |-> 0]
    BY <1>2, <1>4, <2>1
  <2> QED
    BY <1>1, <1>3, <2>1, <2>2 DEF Linked, Separated, IsEmpty
<1>5. CASE ~ IsEmpty(staging)
  <2>1. /\ staging.from = Sliced + 1 /\ staging.to = left - 1
        /\ Together(left - 1) /\ Linked(staging) /\ Separated(staging)
    BY <1>5 DEF Inv, StagingInv
  <2>2. s = [from |-> staging.from, to |-> left, seps |-> staging.seps + 1]
    BY <1>2, <1>5
  <2>3. Linked(s)
    <3> SUFFICES ASSUME NEW i \in Nat, staging.from <= i, i < left
                 PROVE  Together(i)
      BY <2>2 DEF Linked
    <3>1. CASE i = left - 1
      BY <2>1, <3>1
    <3>2. CASE i < staging.to
      BY <2>1, <3>2 DEF Linked
    <3> QED
      BY <1>1, <2>1, <3>1, <3>2
  <2> QED
    BY <1>1, <1>3, <1>5, <2>1, <2>2, <2>3 DEF Separated, IsEmpty
<1> QED
  BY <1>4, <1>5

LEMMA NextInv == Inv /\ [Next]_vars => Inv'
<1> SUFFICES ASSUME Inv, [Next]_vars PROVE Inv'
  OBVIOUS
<1>0. query \in Queries /\ query \in Seq(Word) /\ Len(query) \in Nat
  BY QueryType DEF Inv, TypeOK
<1>1. CASE SingleWord
  <2> DEFINE s == [from |-> 1, to |-> Len(query), seps |-> 0]
  <2>1. /\ slices' = <<s>> /\ pc' = "done" /\ Len(query) <= 1
        /\ UNCHANGED <<query, matching, left, idxRel, staging>>
    BY <1>1 DEF SingleWord
  <2>2. s \in Slice /\ slices' \in Seq(Slice)
    BY <1>0, <2>1 DEF Slice
  <2>3. Len(slices') = 1 /\ DOMAIN slices' = {1} /\ slices'[1] = s
        /\ slices' # <<>>
    BY <2>1
  <2>4. TypeOK'
    BY <2>1, <2>2 DEF Inv, TypeOK
  <2>5. Sliced' = Len(query)
    BY <2>3 DEF Sliced
  <2>6. SlicesInv'
    BY <1>0, <2>1, <2>3, <2>5
       DEF SlicesInv, Follows, Linked, Separated, IsEmpty
  <2>7. StagingInv'
    BY <1>0, <2>1, <2>3, <2>5 DEF StagingInv
  <2> QED
    BY <2>4, <2>6, <2>7 DEF Inv
<1>2. CASE SeveralWords
  <2>1. /\ pc = "start" /\ pc' = "pairs" /\ Len(query) > 1
        /\ UNCHANGED <<query, matching, left, idxRel, staging, slices>>
    BY <1>2 DEF SeveralWords
  <2>2. slices = <<>> /\ left = 1 /\ idxRel = 1 /\ staging = Empty
    BY <2>1 DEF Inv, StagingInv
  <2>3. TypeOK'
    BY <2>1 DEF Inv, TypeOK
  <2>4. SlicesInv'
    BY <2>1, <2>2 DEF SlicesInv, Sliced
  <2>5. StagingInv'
    BY <1>0, <2>1, <2>2
       DEF StagingInv, Sliced, Empty, IsEmpty, Linked, Separated
  <2> QED
    BY <2>3, <2>4, <2>5 DEF Inv
<1>3. ASSUME AtPair, NEW s, s = Staged
      PROVE  /\ s \in Slice /\ ~ IsEmpty(s)
             /\ s.from = Sliced + 1 /\ s.to = left
             /\ Linked(s) /\ Separated(s)
             /\ left \in Nat /\ left < Len(query) /\ idxRel \in Nat
  <2>1. /\ pc = "pairs" /\ left \in Nat /\ left < Len(query) /\ idxRel \in Nat
    BY <1>3 DEF AtPair, Inv, TypeOK
  <2>2. idxRel >= 2 <=> ~ IsEmpty(staging)
    BY <2>1 DEF Inv, StagingInv
  <2>3. s = AddWord(staging, ~ IsEmpty(staging), left)
    BY <1>3, <2>2 DEF Staged, AddWord
  <2> QED
    BY <2>1, <2>3, StagedWord
<1>4. CASE Join
  <2>0. PICK s : s = Staged
    OBVIOUS
  <2>1. /\ AtPair /\ Together(left) /\ staging' = s /\ left' = left + 1
        /\ idxRel' = idxRel + 1 /\ pc = "pairs"
        /\ UNCHANGED <<query, matching, pc, slices>>
    BY <1>4, <2>0 DEF Join, AtPair
  <2>2. /\ s \in Slice /\ ~ IsEmpty(s)
        /\ s.from = Sliced + 1 /\ s.to = left
        /\ Linked(s) /\ Separated(s)
        /\ left \in Nat /\ left < Len(query) /\ idxRel \in Nat
    BY <1>3, <2>0, <2>1
  <2>3. TypeOK'
    BY <2>1, <2>2 DEF Inv, TypeOK
  <2>4. SlicesInv' /\ Sliced' = Sliced
    BY <2>1 DEF Inv, SlicesInv, Sliced, Follows, Linked, Separated, IsEmpty,
                Together
  <2>5. idxRel = 1 \/ idxRel >= 2
    BY <2>1 DEF Inv, StagingInv
  <2>6. Linked(s)'
    BY <2>1, <2>2 DEF Linked, Together
  <2>7. /\ ~ IsEmpty(staging)' /\ staging'.from = Sliced' + 1
        /\ staging'.to = left' - 1
        /\ idxRel' >= 2 /\ left' <= Len(query') /\ Len(query') > 1
    <3>1. staging'.to = left' - 1 /\ ~ IsEmpty(staging)'
      BY <2>1, <2>2 DEF IsEmpty
    <3>2. idxRel' >= 2
      BY <2>1, <2>2, <2>5
    <3>3. left' <= Len(query') /\ Len(query') > 1
      BY <1>0, <2>1, <2>2 DEF Inv, TypeOK
    <3> QED
      BY <2>1, <2>2, <2>4, <3>1, <3>2, <3>3
  <2>8. Together(left - 1)'
    <3>1. left' - 1 = left
      BY <2>1, <2>2
    <3> QED
      BY <2>1, <3>1 DEF Together
  <2>9. Linked(staging)' /\ Separated(staging)'
    BY <2>1, <2>2, <2>6 DEF Linked, Separated, IsEmpty
  <2>10. StagingInv'
    <3>1. pc' = "pairs"
      BY <2>1
    <3> QED
      BY <2>7, <2>8, <2>9, <3>1 DEF StagingInv
  <2> QED
    BY <2>3, <2>4, <2>10 DEF Inv
<1>5. CASE Cut
  <2>0. PICK s : s = Staged
    OBVIOUS
  <2>1. /\ AtPair /\ ~ Together(left) /\ slices' = Append(slices, s)
        /\ staging' = Empty /\ left' = left + 1 /\ idxRel' = 1 /\ pc = "pairs"
        /\ UNCHANGED <<query, matching, pc>>
    BY <1>5, <2>0 DEF Cut, AtPair
  <2>2. /\ s \in Slice /\ ~ IsEmpty(s)
        /\ s.from = Sliced + 1 /\ s.to = left
        /\ Linked(s) /\ Separated(s)
        /\ left \in Nat /\ left < Len(query)
    BY <1>3, <2>0, <2>1
  <2>3. /\ SlicesInv' /\ Sliced' = left /\ slices' # <<>>
        /\ slices' \in Seq(Slice)
    BY <1>0, <2>1, <2>2, AppendSlice DEF Inv
  <2>4. TypeOK'
    BY <2>1, <2>2, <2>3 DEF Inv, TypeOK, Slice, Empty
  <2>5. IsEmpty(Empty) /\ Linked(Empty)' /\ Separated(Empty) /\ Empty.seps = 0
    BY DEF Empty, IsEmpty, Linked, Separated
  <2>6. Linked(staging)' /\ Sliced' = left' - 1
    BY <2>1, <2>2, <2>3, <2>5 DEF Linked, Together
  <2>7. StagingInv'
    BY <1>0, <2>1, <2>2, <2>5, <2>6 DEF Inv, StagingInv, IsEmpty, Separated
  <2> QED
    BY <2>3, <2>4, <2>7 DEF Inv
<1>6. CASE LastWord
  <2>0. PICK last : last = AddWord(staging, ~ IsEmpty(staging), left)
    OBVIOUS
  <2>1. /\ pc = "pairs" /\ left = Len(query) /\ pc' = "done"
        /\ staging' = last /\ slices' = Append(slices, last)
        /\ UNCHANGED <<query, matching, left, idxRel>>
    BY <1>6, <2>0 DEF LastWord
  <2>2. /\ last \in Slice /\ ~ IsEmpty(last) /\ last.from = Sliced + 1
        /\ last.to = left /\ Linked(last) /\ Separated(last)
    BY <2>0, <2>1, StagedWord
  <2>3. /\ SlicesInv' /\ Sliced' = left /\ slices' # <<>>
        /\ slices' \in Seq(Slice)
    BY <1>0, <2>1, <2>2, AppendSlice DEF Inv
  <2>4. TypeOK'
    BY <2>1, <2>2, <2>3 DEF Inv, TypeOK
  <2>5. StagingInv'
    BY <2>1, <2>3 DEF StagingInv
  <2> QED
    BY <2>3, <2>4, <2>5 DEF Inv
<1>7. CASE Throw
  <2>1. /\ AtPair /\ pc = "pairs" /\ pc' = "thrown"
        /\ UNCHANGED <<query, matching, left, idxRel, staging, slices>>
    BY <1>7 DEF Throw, AtPair
  <2>2. SlicesInv'
    BY <2>1 DEF Inv, SlicesInv, Sliced, Follows, Linked, Separated, IsEmpty,
                Together
  <2> QED
    BY <1>0, <1>3, <2>1, <2>2 DEF Inv, TypeOK, StagingInv
<1>8. CASE UNCHANGED vars
  <2>1. UNCHANGED <<query, matching, pc, left, idxRel, staging, slices>>
    BY <1>8 DEF vars
  <2> QED
    BY <2>1 DEF Inv, TypeOK, SlicesInv, StagingInv, Sliced, Follows,
                Linked, Separated, IsEmpty, Together
<1> QED
  BY <1>1, <1>2, <1>4, <1>5, <1>6, <1>7, <1>8 DEF Next

LEMMA Invariance == Spec => []Inv
  BY InitInv, NextInv, PTL DEF Spec

(***************************************************************************)
(* Every state of the cutting is well typed.                               *)
(***************************************************************************)
THEOREM TypeCorrect == Spec => []TypeOK
  BY Invariance, PTL DEF Inv

(***************************************************************************)
(* The slices are the query: all its words, each once, in their order.     *)
(***************************************************************************)
THEOREM QueryCovered == Spec => []SlicesCoverQuery
<1>1. Inv => SlicesCoverQuery
  BY DEF Inv, SlicesInv, StagingInv, Sliced, SlicesCoverQuery
<1> QED
  BY <1>1, Invariance, PTL

(***************************************************************************)
(* The cuts are where two words in a row do not match, and only there.     *)
(***************************************************************************)
THEOREM CutExactly == Spec => []CutWhereNoMatch
<1>1. Inv => CutWhereNoMatch
  <2> SUFFICES ASSUME Inv, pc = "done", NEW i \in 1..(Len(query) - 1)
               PROVE  (\E k \in DOMAIN slices : slices[k].to = i)
                        <=> ~ Together(i)
    BY DEF CutWhereNoMatch
  <2>0. Len(query) \in Nat /\ i \in Nat /\ i < Len(query)
    BY QueryType DEF Inv, TypeOK
  <2>1. PICK k \in DOMAIN slices : slices[k].from <= i /\ i <= slices[k].to
    BY <2>0 DEF Inv, SlicesInv, StagingInv
  <2>2. slices[k] \in Slice
    BY DEF Inv, TypeOK
  <2>3. CASE slices[k].to = i
    BY <2>0, <2>3 DEF Inv, SlicesInv
  <2>4. CASE i < slices[k].to
    <3>1. Together(i)
      BY <2>0, <2>1, <2>4 DEF Inv, SlicesInv, Linked
    <3>2. \A j \in DOMAIN slices : slices[j].to = i => ~ Together(i)
      BY <2>0 DEF Inv, SlicesInv
    <3> QED
      BY <3>1, <3>2
  <2> QED
    BY <2>0, <2>1, <2>2, <2>3, <2>4 DEF Slice
<1> QED
  BY <1>1, Invariance, PTL

(***************************************************************************)
(* No two words of a slice are ever glued to each other.                   *)
(***************************************************************************)
THEOREM SeparatedAlways == Spec => []WordsSeparated
<1>1. Inv => WordsSeparated
  BY DEF Inv, SlicesInv, WordsSeparated
<1> QED
  BY <1>1, Invariance, PTL

-----------------------------------------------------------------------------
(***************************************************************************)
(* The turns left to the browsing, at most.                                *)
(***************************************************************************)
TurnsLeft ==
    IF pc = "start" THEN Len(query) + 2
    ELSE IF pc = "pairs" THEN Len(query) - left + 1
    ELSE 0

LEMMA TurnsAreCounted ==
  ASSUME Inv
  PROVE  TurnsLeft \in Nat
<1>1. Len(query) \in Nat /\ left \in Nat /\ left >= 1
  BY QueryType DEF Inv, TypeOK
<1>2. pc = "pairs" => left <= Len(query)
  BY DEF Inv, StagingInv
<1> QED BY <1>1, <1>2 DEF TurnsLeft

LEMMA TurnsFall ==
  ASSUME Inv, TurnsLeft' \in Nat, Next
  PROVE  TurnsLeft' < TurnsLeft
<1>1. Len(query) \in Nat /\ left \in Nat /\ left >= 1 /\ query' = query
  BY QueryType DEF Inv, TypeOK, Next, SingleWord, SeveralWords, Join, Cut, LastWord, Throw
<1>2. pc = "pairs" => left <= Len(query)
  BY DEF Inv, StagingInv
<1>3. CASE SingleWord \/ SeveralWords
  <2>1. /\ pc = "start" /\ left' = left
        /\ pc' = "done" \/ pc' = "pairs"
    BY <1>3 DEF SingleWord, SeveralWords
  <2> QED BY <1>1, <2>1 DEF TurnsLeft
<1>4. CASE Join \/ Cut
  <2>1. pc = "pairs" /\ pc' = "pairs" /\ left' = left + 1
    BY <1>4 DEF Join, Cut, AtPair
  <2> QED BY <1>1, <2>1 DEF TurnsLeft
<1>5. CASE LastWord \/ Throw
  <2>1. pc = "pairs" /\ pc' \in {"done", "thrown"}
    BY <1>5 DEF LastWord, Throw, AtPair
  <2> QED BY <1>1, <1>2, <2>1 DEF TurnsLeft
<1> QED BY <1>3, <1>4, <1>5 DEF Next

(***************************************************************************)
(* The browsing never turns in circles: each of its steps lowers a natural *)
(* number, whatever the index answers.  With the fairness of Spec, it ends *)
(* as SlicingEnds says; that last step is TLC's to check.                  *)
(***************************************************************************)
BrowsingAdvances == [][TurnsLeft' < TurnsLeft /\ TurnsLeft' \in Nat]_vars

THEOREM BrowsingNeverCircles == Spec => BrowsingAdvances
<1>1. Inv /\ (TurnsLeft \in Nat)' /\ [Next]_vars
        => [TurnsLeft' < TurnsLeft /\ TurnsLeft' \in Nat]_vars
  BY TurnsFall
<1>2. Inv => TurnsLeft \in Nat
  BY TurnsAreCounted
<1> QED BY <1>1, <1>2, Invariance, PTL DEF Spec, BrowsingAdvances

-----------------------------------------------------------------------------
(***************************************************************************)
(* The words of a query as a phrase.  What is said of it is about any      *)
(* phrase; only the type of the query is taken from the invariant.         *)
(***************************************************************************)
LEMMA QueryIsPhrase ==
  ASSUME TypeOK, N > 0
  PROVE  query \in Seq(Word) /\ query # <<>> /\ N \in Nat
<1>1. query \in Seq(Word) /\ N \in Nat
  BY QueryType DEF TypeOK, N
<1>2. query # <<>>
  BY EmptySeq DEF N
<1> QED BY <1>1, <1>2

LEMMA SubStringsAre ==
  ASSUME query \in Seq(Word), N \in Nat
  PROVE  \A x : x \in SubStrings <=> SubString(query, 0, x)
<1> DEFINE Sub(i, j) == SubSeq(query, i, j)
<1>1. SubStrings = {Sub(i, j) : i, j \in 1..N} \ {<<>>}
  BY DEF SubStrings
<1>2. \A x : x \in SubStrings <=> x # <<>> /\ \E i, j \in 1..N : x = Sub(i, j)
  <2> HIDE DEF Sub
  <2> QED BY <1>1
<1>3. ASSUME NEW i \in 1..N, NEW j \in 1..N, SubSeq(query, i, j) # <<>>
      PROVE  SubString(query, 0, SubSeq(query, i, j))
  <2>1. i <= j
    BY <1>3, SubSeqEmpty
  <2> DEFINE a == i - 1
  <2>2. a \in 0..(N - 1) /\ j \in (a + 1)..N /\ a + 1 = i
    BY <2>1
  <2> HIDE DEF a
  <2> QED BY <2>2 DEF SubString, N
<1>4. ASSUME NEW a \in 0..(N - 1), NEW b \in (a + 1)..N
      PROVE  /\ SubSeq(query, a + 1, b) # <<>>
             /\ \E i, j \in 1..N : SubSeq(query, a + 1, b) = SubSeq(query, i, j)
  <2>1. a \in 0..Len(query) /\ b \in a..Len(query) /\ b - a # 0 /\ a + 1 \in 1..N /\ b \in 1..N
    BY DEF N
  <2>2. SubSeq(query, a + 1, b) \in Seq(Word) /\ Len(SubSeq(query, a + 1, b)) = b - a
    BY <2>1, SubSeqLen
  <2> QED BY <2>1, <2>2, EmptySeq
<1>5. \A x : SubString(query, 0, x) <=>
          \E a \in 0..(N - 1) : \E b \in (a + 1)..N : x = Sub(a + 1, b)
  BY DEF SubString, N
<1> HIDE DEF Sub
<1>6. ASSUME NEW x \in SubStrings PROVE SubString(query, 0, x)
  <2>1. PICK i \in 1..N, j \in 1..N : x = Sub(i, j) /\ x # <<>>
    BY <1>2
  <2> QED BY <1>3, <2>1 DEF Sub
<1>7. ASSUME NEW x, SubString(query, 0, x) PROVE x \in SubStrings
  <2>1. PICK a \in 0..(N - 1) : \E b \in (a + 1)..N : x = Sub(a + 1, b)
    BY <1>5, <1>7
  <2>2. PICK b \in (a + 1)..N : x = Sub(a + 1, b)
    BY <2>1
  <2>3. x # <<>> /\ \E i, j \in 1..N : x = Sub(i, j)
    BY <1>4, <2>2 DEF Sub
  <2> QED BY <1>2, <2>3
<1> QED BY <1>6, <1>7

LEMMA WithOneHoleAre ==
  ASSUME query \in Seq(Word), N \in Nat
  PROVE  MiddleRemoved(query) = WithOneHole
<1> DEFINE Hole(first, last) == SubSeq(query, 1, first - 1) \o SubSeq(query, last + 1, N)
<1>1. \A x : x \in Holed <=> \E first \in 2..(N - 1), last \in 2..(N - 1) : x = Hole(first, last)
  <2>1. Holed = {Hole(first, last) : first \in 2..(N - 1), last \in 2..(N - 1)}
    BY DEF Holed
  <2> HIDE DEF Hole
  <2> QED BY <2>1
<1>2. \A x : x \in MiddleRemoved(query) <=>
          \E first \in 2..(N - 1) : \E last \in first..(N - 1) : x = Hole(first, last)
  BY MiddleRemovedAre DEF N
<1>3. ASSUME NEW first \in 2..(N - 1), NEW last \in 2..(N - 1)
      PROVE  Len(Hole(first, last)) < N <=> first <= last
  <2> DEFINE k == first - 1
             u == SubSeq(query, 0 + 1, k)
             v == SubSeq(query, last + 1, N)
  <2>1. /\ k \in 0..Len(query) /\ 0 \in 0..Len(query) /\ last \in 0..Len(query) /\ N \in last..Len(query)
        /\ 0 + 1 = 1 /\ k - 0 = k
    BY DEF N
  <2>2. u \in Seq(Word) /\ Len(u) = k
    BY <2>1, SubSeqLen
  <2>3. v \in Seq(Word) /\ Len(v) = N - last
    BY <2>1, SubSeqLen
  <2>4. Hole(first, last) = u \o v
    BY <2>1
  <2> HIDE DEF u, v, Hole
  <2>a. Len(u \o v) = Len(u) + Len(v)
    BY <2>2, <2>3, ConcatProperties
  <2>5. Len(Hole(first, last)) = k + (N - last)
    BY <2>2, <2>3, <2>4, <2>a
  <2> QED BY <2>5
<1> HIDE DEF Hole
<1>4. \A x : x \in WithOneHole <=> x \in Holed /\ Len(x) < N
  BY DEF WithOneHole
<1>5. ASSUME NEW x \in WithOneHole PROVE x \in MiddleRemoved(query)
  <2>1. PICK first \in 2..(N - 1), last \in 2..(N - 1) : x = Hole(first, last)
    BY <1>1, <1>4
  <2>2. first <= last
    BY <1>3, <1>4, <2>1
  <2>3. last \in first..(N - 1)
    BY <2>2
  <2> QED BY <1>2, <2>1, <2>3
<1>6. ASSUME NEW x \in MiddleRemoved(query) PROVE x \in WithOneHole
  <2>1. PICK first \in 2..(N - 1) : \E last \in first..(N - 1) : x = Hole(first, last)
    BY <1>2
  <2>2. PICK last \in first..(N - 1) : x = Hole(first, last)
    BY <2>1
  <2>3. last \in 2..(N - 1) /\ first <= last
    OBVIOUS
  <2> QED BY <1>1, <1>3, <1>4, <2>2, <2>3
<1> QED BY <1>5, <1>6

(***************************************************************************)
(* StringPartition::init() cuts a query of any length in all the ways      *)
(* there are, each of them once, from single words to the whole of it.     *)
(***************************************************************************)
THEOREM EveryCutAlways == Spec => []EveryCutOnce
<1>1. Inv => EveryCutOnce
  <2> SUFFICES ASSUME Inv, N > 0
               PROVE  LET sets == Partition(query)
                      IN  /\ CutEveryWay(sets)
                          /\ Head(sets) = [i \in 1..N |-> <<query[i]>>]
                          /\ Last(sets) = <<query>>
    BY DEF EveryCutOnce
  <2>1. query \in Seq(Word) /\ query # <<>>
    BY QueryIsPhrase DEF Inv
  <2> QED BY <2>1, PartitionsCutEveryWay DEF CutEveryWay, N
<1> QED
  BY <1>1, Invariance, PTL

(***************************************************************************)
(* The combinations of the words of a name, of any length, are its         *)
(* sub-strings and what is left of it outside of one hole: nothing that a  *)
(* traveller may type of it is missing from the index, and no other order. *)
(***************************************************************************)
THEOREM CombinationsAlways == Spec => []CombinationsAreAll
<1>1. Inv => CombinationsAreAll
  <2> SUFFICES ASSUME Inv, N > 0
               PROVE  /\ Combinations(query) = SubStrings
                      /\ WordCombinations(query) = SubStrings \cup WithOneHole
    BY DEF CombinationsAreAll
  <2>1. query \in Seq(Word) /\ query # <<>> /\ N \in Nat
    BY QueryIsPhrase DEF Inv
  <2>2. \A x : x \in Combinations(query) <=> SubString(query, 0, x)
    BY <2>1, CombinationsAreSubStrings
  <2>3. Combinations(query) = SubStrings
    BY <2>1, <2>2, SubStringsAre
  <2>4. MiddleRemoved(query) = WithOneHole
    BY <2>1, WithOneHoleAre
  <2> QED BY <2>3, <2>4 DEF WordCombinations
<1> QED
  BY <1>1, Invariance, PTL

-----------------------------------------------------------------------------
(***************************************************************************)
(* The matrix of the edit distance, for any two strings: its definition,   *)
(* recursive, has a solution, and a single one.                            *)
(***************************************************************************)
Entries(s, t, f, i, j) ==
    {f[<<i - 1, j>>] + 1, f[<<i, j - 1>>] + 1, f[<<i - 1, j - 1>>] + Differ(s[i], t[j])}
    \cup IF i > 2 /\ j > 2
         THEN {f[<<i - 2, j - 2>>] + 1 + Differ(s[i - 1], t[j]) + Differ(s[i], t[j - 1])}
         ELSE {}

Solves(s, t, f) ==
    /\ f \in [Cells(s, t) -> Nat]
    /\ \A i \in 0..Len(s), j \in 0..Len(t) : f[<<i, j>>] = Cell(s, t, f, i, j)

\* what a matrix says of its cells, each in terms of those before
Least(s, t, f, i, j) ==
    /\ f[<<i, j>>] <= f[<<i - 1, j>>] + 1
    /\ f[<<i, j>>] <= f[<<i, j - 1>>] + 1
    /\ f[<<i, j>>] <= f[<<i - 1, j - 1>>] + Differ(s[i], t[j])
    /\ i > 2 /\ j > 2 =>
         f[<<i, j>>] <= f[<<i - 2, j - 2>>] + 1 + Differ(s[i - 1], t[j]) + Differ(s[i], t[j - 1])
    /\ \/ f[<<i, j>>] = f[<<i - 1, j>>] + 1
       \/ f[<<i, j>>] = f[<<i, j - 1>>] + 1
       \/ f[<<i, j>>] = f[<<i - 1, j - 1>>] + Differ(s[i], t[j])
       \/ /\ i > 2 /\ j > 2
          /\ f[<<i, j>>] = f[<<i - 2, j - 2>>] + 1
                             + Differ(s[i - 1], t[j]) + Differ(s[i], t[j - 1])

LEMMA DifferIs == \A x, y : Differ(x, y) \in {0, 1} /\ Differ(x, y) = Differ(y, x)
  BY DEF Differ

LEMMA MinIs ==
  ASSUME NEW T \in SUBSET Nat, T # {}
  PROVE  Min(T) \in T /\ \A n \in T : Min(T) <= n
<1>1. \E n \in T : \A m \in T : n <= m
  BY LeastNumber
<1> QED BY <1>1 DEF Min

LEMMA CellsBefore ==
  ASSUME NEW s, NEW t, Len(s) \in Nat, Len(t) \in Nat,
         NEW i \in 0..Len(s), NEW j \in 0..Len(t)
  PROVE  /\ <<i, j>> \in Cells(s, t)
         /\ i > 0 => <<i - 1, j>> \in Cells(s, t)
         /\ j > 0 => <<i, j - 1>> \in Cells(s, t)
         /\ i > 0 /\ j > 0 => <<i - 1, j - 1>> \in Cells(s, t)
         /\ i > 1 /\ j > 1 => <<i - 2, j - 2>> \in Cells(s, t)
  BY DEF Cells

LEMMA CellTyped ==
  ASSUME NEW s, NEW t, Len(s) \in Nat, Len(t) \in Nat, NEW f \in [Cells(s, t) -> Nat],
         NEW i \in 0..Len(s), NEW j \in 0..Len(t)
  PROVE  /\ Cell(s, t, f, i, j) \in Nat
         /\ i = 0 \/ j = 0 => Cell(s, t, f, i, j) = i + j
         /\ i > 0 /\ j > 0 =>
              /\ Cell(s, t, f, i, j) \in Entries(s, t, f, i, j)
              /\ \A e \in Entries(s, t, f, i, j) : Cell(s, t, f, i, j) <= e
<1>1. CASE i = 0 \/ j = 0
  BY <1>1 DEF Cell
<1>2. CASE i > 0 /\ j > 0
  <2>1. Entries(s, t, f, i, j) \in SUBSET Nat /\ Entries(s, t, f, i, j) # {}
    <3>0. \A c \in Cells(s, t) : f[c] \in Nat
      OBVIOUS
    <3>a. /\ <<i - 1, j>> \in Cells(s, t) /\ <<i, j - 1>> \in Cells(s, t)
          /\ <<i - 1, j - 1>> \in Cells(s, t)
          /\ i > 2 /\ j > 2 => <<i - 2, j - 2>> \in Cells(s, t)
      <4>1. /\ i > 0 => <<i - 1, j>> \in Cells(s, t)
            /\ j > 0 => <<i, j - 1>> \in Cells(s, t)
            /\ i > 0 /\ j > 0 => <<i - 1, j - 1>> \in Cells(s, t)
            /\ i > 1 /\ j > 1 => <<i - 2, j - 2>> \in Cells(s, t)
        BY CellsBefore
      <4>2. i > 2 /\ j > 2 => i > 1 /\ j > 1
        OBVIOUS
      <4> QED BY <1>2, <4>1, <4>2
    <3>b. \A x, y : Differ(x, y) \in Nat
      BY DifferIs
    <3>1. f[<<i - 1, j>>] + 1 \in Nat /\ f[<<i, j - 1>>] + 1 \in Nat
      BY <3>0, <3>a
    <3>2. f[<<i - 1, j - 1>>] + Differ(s[i], t[j]) \in Nat
      BY <3>0, <3>a, <3>b
    <3>3. i > 2 /\ j > 2 =>
             f[<<i - 2, j - 2>>] + 1 + Differ(s[i - 1], t[j]) + Differ(s[i], t[j - 1]) \in Nat
      <4>1. i > 2 /\ j > 2 => f[<<i - 2, j - 2>>] \in Nat
        BY <3>0, <3>a
      <4>2. Differ(s[i - 1], t[j]) \in Nat /\ Differ(s[i], t[j - 1]) \in Nat
        BY <3>b
      <4>3. \A x, y, z \in Nat : x + 1 + y + z \in Nat
        OBVIOUS
      <4> QED BY ONLY <4>1, <4>2, <4>3
    <3> QED BY <3>1, <3>2, <3>3 DEF Entries
  <2>2. Cell(s, t, f, i, j) = Min(Entries(s, t, f, i, j))
    BY <1>2 DEF Cell, Entries
  <2>3. ~ (i = 0 \/ j = 0)
    BY <1>2
  <2> QED BY <2>1, <2>2, <2>3, MinIs
<1> QED BY <1>1, <1>2

\* a cell depends on those before it only
LEMMA CellLocal ==
  ASSUME NEW s, NEW t, Len(s) \in Nat, Len(t) \in Nat, NEW f, NEW g,
         NEW i \in 0..Len(s), NEW j \in 0..Len(t),
         \A a \in 0..Len(s), b \in 0..Len(t) : a + b < i + j => f[<<a, b>>] = g[<<a, b>>]
  PROVE  Cell(s, t, f, i, j) = Cell(s, t, g, i, j)
<1>1. CASE i = 0 \/ j = 0
  BY <1>1 DEF Cell
<1>2. CASE i > 0 /\ j > 0
  <2>1. f[<<i - 1, j>>] = g[<<i - 1, j>>] /\ f[<<i, j - 1>>] = g[<<i, j - 1>>]
    BY <1>2
  <2>2. f[<<i - 1, j - 1>>] = g[<<i - 1, j - 1>>]
    BY <1>2
  <2>3. i > 2 /\ j > 2 => f[<<i - 2, j - 2>>] = g[<<i - 2, j - 2>>]
    <3> SUFFICES ASSUME i > 2, j > 2 PROVE f[<<i - 2, j - 2>>] = g[<<i - 2, j - 2>>]
      OBVIOUS
    <3>1. i - 2 \in 0..Len(s) /\ j - 2 \in 0..Len(t) /\ (i - 2) + (j - 2) < i + j
      OBVIOUS
    <3> QED BY <3>1
  <2> QED BY <2>1, <2>2, <2>3 DEF Cell
<1> QED BY <1>1, <1>2

LEMMA Diagonals ==
  ASSUME NEW s, NEW t, Len(s) \in Nat, Len(t) \in Nat
  PROVE  \A k \in Nat : \E f \in [Cells(s, t) -> Nat] :
             \A i \in 0..Len(s), j \in 0..Len(t) :
                 i + j < k => f[<<i, j>>] = Cell(s, t, f, i, j)
<1> DEFINE Upto(k, f) == \A i \in 0..Len(s), j \in 0..Len(t) :
                             i + j < k => f[<<i, j>>] = Cell(s, t, f, i, j)
           T == {k \in Nat : \E f \in [Cells(s, t) -> Nat] : Upto(k, f)}
<1>1. 0 \in T
  <2> DEFINE f == [p \in Cells(s, t) |-> 0]
  <2>1. f \in [Cells(s, t) -> Nat]
    OBVIOUS
  <2>2. Upto(0, f)
    <3> HIDE DEF f
    <3>1. \A i \in 0..Len(s), j \in 0..Len(t) : ~ (i + j < 0)
      OBVIOUS
    <3> QED BY <3>1
  <2> HIDE DEF f, Upto
  <2> QED BY <2>1, <2>2
<1>2. ASSUME NEW k \in T \cap Nat PROVE k + 1 \in T
  <2>1. PICK f \in [Cells(s, t) -> Nat] : Upto(k, f)
    BY <1>2
  <2> DEFINE g == [p \in Cells(s, t) |-> Cell(s, t, f, p[1], p[2])]
  <2>2. \A p \in Cells(s, t) : Cell(s, t, f, p[1], p[2]) \in Nat
    <3> SUFFICES ASSUME NEW p \in Cells(s, t) PROVE Cell(s, t, f, p[1], p[2]) \in Nat
      OBVIOUS
    <3>1. p[1] \in 0..Len(s) /\ p[2] \in 0..Len(t)
      BY DEF Cells
    <3> QED BY <3>1, CellTyped
  <2>3. g \in [Cells(s, t) -> Nat]
    BY <2>2
  <2>4. \A i \in 0..Len(s), j \in 0..Len(t) : g[<<i, j>>] = Cell(s, t, f, i, j)
    BY DEF Cells
  <2> HIDE DEF g
  <2>5. Upto(k + 1, g)
    <3> SUFFICES ASSUME NEW i \in 0..Len(s), NEW j \in 0..Len(t), i + j < k + 1
                 PROVE  Cell(s, t, g, i, j) = Cell(s, t, f, i, j)
      BY <2>4
    <3>1. \A a \in 0..Len(s), b \in 0..Len(t) : a + b < i + j => g[<<a, b>>] = f[<<a, b>>]
      BY <2>1, <2>4
    <3> HIDE DEF Upto
    <3> QED BY <3>1, CellLocal
  <2> HIDE DEF Upto
  <2> QED BY <2>3, <2>5
<1> HIDE DEF T
<1>3. Nat \subseteq T
  BY <1>1, <1>2, Induction
<1> QED BY <1>3 DEF T

LEMMA DistanceUnfolds ==
  ASSUME NEW s, NEW t, Len(s) \in Nat, Len(t) \in Nat
  PROVE  \E f : Solves(s, t, f) /\ Distance(s, t) = f[<<Len(s), Len(t)>>]
<1> DEFINE Is(f) == f = [p \in Cells(s, t) |-> Cell(s, t, f, p[1], p[2])]
           matrix == CHOOSE f : Is(f)
<1>1. Distance(s, t) = matrix[<<Len(s), Len(t)>>]
  BY DEF Distance
<1>2. \E f : f \in [Cells(s, t) -> Nat] /\ Is(f)
  <2>1. Len(s) + Len(t) + 1 \in Nat
    OBVIOUS
  <2>2. PICK f \in [Cells(s, t) -> Nat] :
           \A i \in 0..Len(s), j \in 0..Len(t) :
               i + j < Len(s) + Len(t) + 1 => f[<<i, j>>] = Cell(s, t, f, i, j)
    BY <2>1, Diagonals
  <2>3. \A p \in Cells(s, t) : f[p] = Cell(s, t, f, p[1], p[2])
    <3> SUFFICES ASSUME NEW p \in Cells(s, t) PROVE f[p] = Cell(s, t, f, p[1], p[2])
      OBVIOUS
    <3>1. p[1] \in 0..Len(s) /\ p[2] \in 0..Len(t) /\ p = <<p[1], p[2]>>
      BY DEF Cells
    <3>2. p[1] + p[2] < Len(s) + Len(t) + 1
      BY <3>1
    <3> QED BY <2>2, <3>1, <3>2
  <2>4. f = [p \in Cells(s, t) |-> f[p]]
    OBVIOUS
  <2> QED BY <2>3, <2>4
<1>3. Is(matrix)
  <2> HIDE DEF Is
  <2> QED BY <1>2
<1> HIDE DEF matrix
<1>4. \A i \in 0..Len(s), j \in 0..Len(t) : matrix[<<i, j>>] = Cell(s, t, matrix, i, j)
  <2> SUFFICES ASSUME NEW i \in 0..Len(s), NEW j \in 0..Len(t)
               PROVE  matrix[<<i, j>>] = Cell(s, t, matrix, i, j)
    OBVIOUS
  <2>1. <<i, j>> \in Cells(s, t) /\ <<i, j>>[1] = i /\ <<i, j>>[2] = j
    BY DEF Cells
  <2>2. \A p \in Cells(s, t) : matrix[p] = Cell(s, t, matrix, p[1], p[2])
    BY <1>3
  <2> QED BY <2>1, <2>2
<1>5. PICK f \in [Cells(s, t) -> Nat] : Is(f)
  BY <1>2
<1>6. \A i \in 0..Len(s), j \in 0..Len(t) : f[<<i, j>>] = Cell(s, t, f, i, j)
  <2> SUFFICES ASSUME NEW i \in 0..Len(s), NEW j \in 0..Len(t)
               PROVE  f[<<i, j>>] = Cell(s, t, f, i, j)
    OBVIOUS
  <2>1. <<i, j>> \in Cells(s, t) /\ <<i, j>>[1] = i /\ <<i, j>>[2] = j
    BY DEF Cells
  <2>2. \A p \in Cells(s, t) : f[p] = Cell(s, t, f, p[1], p[2])
    BY <1>5
  <2> QED BY <2>1, <2>2
<1> DEFINE Same(k) == \A i \in 0..Len(s), j \in 0..Len(t) :
                          i + j < k => matrix[<<i, j>>] = f[<<i, j>>]
           T == {k \in Nat : Same(k)}
<1>7. 0 \in T
  <2>1. \A i \in 0..Len(s), j \in 0..Len(t) : ~ (i + j < 0)
    OBVIOUS
  <2> QED BY <2>1
<1>8. ASSUME NEW k \in T \cap Nat PROVE k + 1 \in T
  <2>1. Same(k)
    BY <1>8
  <2>2. ASSUME NEW i \in 0..Len(s), NEW j \in 0..Len(t), i + j < k + 1
        PROVE  matrix[<<i, j>>] = f[<<i, j>>]
    <3>1. \A a \in 0..Len(s), b \in 0..Len(t) : a + b < i + j => matrix[<<a, b>>] = f[<<a, b>>]
      BY <2>1, <2>2
    <3>2. Cell(s, t, matrix, i, j) = Cell(s, t, f, i, j)
      BY <3>1, CellLocal
    <3> QED BY <1>4, <1>6, <3>2
  <2>3. Same(k + 1)
    BY <2>2
  <2> HIDE DEF Same
  <2> QED BY <2>3
<1> HIDE DEF T
<1>9. Nat \subseteq T
  BY <1>7, <1>8, Induction
<1>10. \A i \in 0..Len(s), j \in 0..Len(t) : matrix[<<i, j>>] = f[<<i, j>>]
  <2> SUFFICES ASSUME NEW i \in 0..Len(s), NEW j \in 0..Len(t)
               PROVE  matrix[<<i, j>>] = f[<<i, j>>]
    OBVIOUS
  <2>1. i + j + 1 \in T /\ i + j < i + j + 1
    BY <1>9
  <2> QED BY <2>1 DEF T
<1>11. Solves(s, t, f)
  BY <1>6 DEF Solves
<1>12. Len(s) \in 0..Len(s) /\ Len(t) \in 0..Len(t)
  OBVIOUS
<1> QED BY <1>1, <1>10, <1>11, <1>12

\* what the matrix of two strings says of its cells
LEMMA MatrixIs ==
  ASSUME NEW s, NEW t, Len(s) \in Nat, Len(t) \in Nat, NEW f, Solves(s, t, f)
  PROVE  /\ \A i \in 0..Len(s), j \in 0..Len(t) : f[<<i, j>>] \in Nat
         /\ \A i \in 0..Len(s) : f[<<i, 0>>] = i
         /\ \A j \in 0..Len(t) : f[<<0, j>>] = j
         /\ \A i \in 1..Len(s), j \in 1..Len(t) : Least(s, t, f, i, j)
<1>1. /\ f \in [Cells(s, t) -> Nat]
      /\ \A i \in 0..Len(s), j \in 0..Len(t) : f[<<i, j>>] = Cell(s, t, f, i, j)
  BY DEF Solves
<1>2. ASSUME NEW i \in 0..Len(s), NEW j \in 0..Len(t)
      PROVE  /\ f[<<i, j>>] \in Nat
             /\ i = 0 \/ j = 0 => f[<<i, j>>] = i + j
             /\ i > 0 /\ j > 0 =>
                  /\ f[<<i, j>>] \in Entries(s, t, f, i, j)
                  /\ \A e \in Entries(s, t, f, i, j) : f[<<i, j>>] <= e
  BY <1>1, CellTyped
<1>3. ASSUME NEW i \in 0..Len(s) PROVE f[<<i, 0>>] = i
  <2>1. 0 \in 0..Len(t) /\ i + 0 = i
    OBVIOUS
  <2> QED BY <1>2, <2>1
<1>4. ASSUME NEW j \in 0..Len(t) PROVE f[<<0, j>>] = j
  <2>1. 0 \in 0..Len(s) /\ 0 + j = j
    OBVIOUS
  <2> QED BY <1>2, <2>1
<1>5. ASSUME NEW i \in 1..Len(s), NEW j \in 1..Len(t) PROVE Least(s, t, f, i, j)
  <2>1. /\ f[<<i, j>>] \in Entries(s, t, f, i, j)
        /\ \A e \in Entries(s, t, f, i, j) : f[<<i, j>>] <= e
    <3>1. i \in 0..Len(s) /\ j \in 0..Len(t) /\ i > 0 /\ j > 0
      OBVIOUS
    <3> QED BY <1>2, <3>1
  <2>2. CASE i > 2 /\ j > 2
    <3>1. Entries(s, t, f, i, j) =
            {f[<<i - 1, j>>] + 1, f[<<i, j - 1>>] + 1, f[<<i - 1, j - 1>>] + Differ(s[i], t[j]),
             f[<<i - 2, j - 2>>] + 1 + Differ(s[i - 1], t[j]) + Differ(s[i], t[j - 1])}
      BY <2>2 DEF Entries
    <3> QED BY <2>1, <2>2, <3>1 DEF Least
  <2>3. CASE ~ (i > 2 /\ j > 2)
    <3>1. Entries(s, t, f, i, j) =
            {f[<<i - 1, j>>] + 1, f[<<i, j - 1>>] + 1, f[<<i - 1, j - 1>>] + Differ(s[i], t[j])}
      BY <2>3 DEF Entries
    <3> QED BY <2>1, <2>3, <3>1 DEF Least
  <2> QED BY <2>2, <2>3
<1> QED BY <1>2, <1>3, <1>4, <1>5

\* the matrix of two strings is a single one
LEMMA MatrixUnique ==
  ASSUME NEW s, NEW t, Len(s) \in Nat, Len(t) \in Nat,
         NEW f, Solves(s, t, f), NEW g, Solves(s, t, g)
  PROVE  \A i \in 0..Len(s), j \in 0..Len(t) : f[<<i, j>>] = g[<<i, j>>]
<1> DEFINE Same(k) == \A i \in 0..Len(s), j \in 0..Len(t) : i + j < k => f[<<i, j>>] = g[<<i, j>>]
           T == {k \in Nat : Same(k)}
<1>1. 0 \in T
  <2>1. \A i \in 0..Len(s), j \in 0..Len(t) : ~ (i + j < 0)
    OBVIOUS
  <2> QED BY <2>1
<1>2. ASSUME NEW k \in T \cap Nat PROVE k + 1 \in T
  <2>1. Same(k)
    BY <1>2
  <2>2. ASSUME NEW i \in 0..Len(s), NEW j \in 0..Len(t), i + j < k + 1
        PROVE  f[<<i, j>>] = g[<<i, j>>]
    <3>1. \A a \in 0..Len(s), b \in 0..Len(t) : a + b < i + j => f[<<a, b>>] = g[<<a, b>>]
      BY <2>1, <2>2
    <3>2. Cell(s, t, f, i, j) = Cell(s, t, g, i, j)
      BY <3>1, CellLocal
    <3> QED BY <3>2 DEF Solves
  <2>3. Same(k + 1)
    BY <2>2
  <2> HIDE DEF Same
  <2> QED BY <2>3
<1> HIDE DEF T
<1>3. Nat \subseteq T
  BY <1>1, <1>2, Induction
<1>4. ASSUME NEW i \in 0..Len(s), NEW j \in 0..Len(t) PROVE f[<<i, j>>] = g[<<i, j>>]
  <2>1. i + j + 1 \in T /\ i + j < i + j + 1
    BY <1>3
  <2> QED BY <2>1 DEF T
<1> QED BY <1>4

(***************************************************************************)
(* The edits that lead from a string to another, in their order: a letter  *)
(* left out, one put in, one kept, one replaced, or two adjacent letters   *)
(* swapped, behind the first letter of both strings.  <<p, c>> stands for  *)
(* the p[1] first letters of the one made into the p[2] first letters of   *)
(* the other by c edits.                                                   *)
(***************************************************************************)
Edit(s, t, i, j, k, l, c) ==
    \/ k = i + 1 /\ l = j /\ c = 1
    \/ k = i /\ l = j + 1 /\ c = 1
    \/ k = i + 1 /\ l = j + 1 /\ c = Differ(s[k], t[l])
    \/ k = i + 1 /\ l = j + 1 /\ c = 1
    \/ /\ k = i + 2 /\ l = j + 2 /\ i > 0 /\ j > 0
       /\ s[k] = t[l - 1] /\ s[k - 1] = t[l] /\ c = 1

Script(s, t, steps) ==
    /\ steps \in Seq(Cells(s, t) \X Nat) /\ Len(steps) > 0
    /\ steps[1] = <<<<0, 0>>, 0>>
    /\ \A n \in 1..(Len(steps) - 1) : \E c \in {0, 1} :
          /\ steps[n + 1][2] = steps[n][2] + c
          /\ Edit(s, t, steps[n][1][1], steps[n][1][2], steps[n + 1][1][1], steps[n + 1][1][2], c)

\* there is a script of c edits
Edited(s, t, i, j, c) ==
    \E steps : Script(s, t, steps) /\ steps[Len(steps)] = <<<<i, j>>, c>>

\* an edit costs the matrix no more than it costs the script
LEMMA EditBound ==
  ASSUME NEW s, NEW t, Len(s) \in Nat, Len(t) \in Nat, NEW f, Solves(s, t, f),
         NEW i \in 0..Len(s), NEW j \in 0..Len(t), NEW k \in 0..Len(s), NEW l \in 0..Len(t),
         NEW c \in {0, 1}, Edit(s, t, i, j, k, l, c)
  PROVE  f[<<k, l>>] <= f[<<i, j>>] + c
<1>1. /\ \A a \in 0..Len(s), b \in 0..Len(t) : f[<<a, b>>] \in Nat
      /\ \A a \in 0..Len(s) : f[<<a, 0>>] = a
      /\ \A b \in 0..Len(t) : f[<<0, b>>] = b
      /\ \A a \in 1..Len(s), b \in 1..Len(t) : Least(s, t, f, a, b)
  BY MatrixIs
<1>2. f[<<i, j>>] \in Nat /\ f[<<k, l>>] \in Nat
  BY <1>1
<1>3. \A x, y : Differ(x, y) \in {0, 1}
  BY DifferIs
<1>4. CASE k = i + 1 /\ l = j /\ c = 1
  <2>1. CASE l = 0
    BY <1>1, <1>4, <2>1
  <2>2. CASE l > 0
    <3>1. Least(s, t, f, k, l) /\ k - 1 = i
      BY <1>1, <1>4, <2>2
    <3> QED BY <1>4, <3>1 DEF Least
  <2> QED BY <2>1, <2>2
<1>5. CASE k = i /\ l = j + 1 /\ c = 1
  <2>1. CASE k = 0
    BY <1>1, <1>5, <2>1
  <2>2. CASE k > 0
    <3>1. Least(s, t, f, k, l) /\ l - 1 = j
      BY <1>1, <1>5, <2>2
    <3> QED BY <1>5, <3>1 DEF Least
  <2> QED BY <2>1, <2>2
<1>6. CASE k = i + 1 /\ l = j + 1 /\ (c = 1 \/ c = Differ(s[k], t[l]))
  <2>1. Least(s, t, f, k, l) /\ k - 1 = i /\ l - 1 = j
    BY <1>1, <1>6
  <2>2. f[<<k, l>>] <= f[<<i, j>>] + Differ(s[k], t[l])
    BY <2>1 DEF Least
  <2>3. Differ(s[k], t[l]) \in {0, 1}
    BY <1>3
  <2> QED BY <1>2, <1>6, <2>2, <2>3
<1>7. CASE /\ k = i + 2 /\ l = j + 2 /\ i > 0 /\ j > 0
           /\ s[k] = t[l - 1] /\ s[k - 1] = t[l] /\ c = 1
  <2>1. Least(s, t, f, k, l) /\ k - 2 = i /\ l - 2 = j /\ k > 2 /\ l > 2
    BY <1>1, <1>7
  <2>2. f[<<k, l>>] <= f[<<i, j>>] + 1 + Differ(s[k - 1], t[l]) + Differ(s[k], t[l - 1])
    BY <2>1 DEF Least
  <2>3. Differ(s[k - 1], t[l]) = 0 /\ Differ(s[k], t[l - 1]) = 0
    BY <1>7 DEF Differ
  <2> QED BY <1>2, <1>7, <2>2, <2>3
<1> QED BY <1>4, <1>5, <1>6, <1>7 DEF Edit

LEMMA EditedStart ==
  ASSUME NEW s, NEW t, Len(s) \in Nat, Len(t) \in Nat
  PROVE  Edited(s, t, 0, 0, 0)
<1> DEFINE p == <<<<0, 0>>, 0>>
           steps == <<p>>
<1>1. p \in Cells(s, t) \X Nat
  BY DEF Cells
<1> DEFINE S == Cells(s, t) \X Nat
<1> HIDE DEF S, p
<1>2. steps \in Seq(S) /\ Len(steps) = 1 /\ steps[1] = p
  BY <1>1 DEF S
<1>3. \A n \in 1..(Len(steps) - 1) : FALSE
  BY <1>2
<1> HIDE DEF steps
<1>4. Script(s, t, steps)
  BY <1>2, <1>3 DEF Script, S, p
<1>5. steps[Len(steps)] = p
  BY <1>2
<1> QED BY <1>4, <1>5 DEF Edited, p

LEMMA EditedMore ==
  ASSUME NEW s, NEW t, Len(s) \in Nat, Len(t) \in Nat,
         NEW i \in 0..Len(s), NEW j \in 0..Len(t), NEW k \in 0..Len(s), NEW l \in 0..Len(t),
         NEW c \in {0, 1}, NEW d \in Nat, Edited(s, t, i, j, d), Edit(s, t, i, j, k, l, c)
  PROVE  Edited(s, t, k, l, d + c)
<1>1. PICK old : Script(s, t, old) /\ old[Len(old)] = <<<<i, j>>, d>>
  BY DEF Edited
<1> DEFINE S == Cells(s, t) \X Nat
           p == <<<<k, l>>, d + c>>
           steps == Append(old, p)
           m == Len(old)
           Goes(a, b) == \E e \in {0, 1} : /\ b[2] = a[2] + e
                                           /\ Edit(s, t, a[1][1], a[1][2], b[1][1], b[1][2], e)
<1>2. old \in Seq(S) /\ m \in Nat /\ m > 0 /\ old[1] = <<<<0, 0>>, 0>>
  BY <1>1 DEF Script
<1>3. \A n \in 1..(m - 1) : Goes(old[n], old[n + 1])
  BY <1>1 DEF Script
<1>4. p \in S
  BY DEF Cells
<1>5. Goes(old[m], p)
  BY <1>1
<1> HIDE DEF S, Goes
<1>6. /\ steps \in Seq(S) /\ Len(steps) = m + 1 /\ steps[m + 1] = p
      /\ \A n \in 1..m : steps[n] = old[n]
  <2> HIDE DEF p
  <2> QED BY <1>2, <1>4
<1> HIDE DEF steps, p
<1>7. \A n \in 1..(Len(steps) - 1) : Goes(steps[n], steps[n + 1])
  <2>1. ASSUME NEW n \in 1..m PROVE Goes(steps[n], steps[n + 1])
    <3> HIDE DEF m
    <3>1. CASE n = m
      BY <1>2, <1>5, <1>6, <3>1
    <3>2. CASE n < m
      <4>1. n \in 1..(m - 1) /\ n + 1 \in 1..m
        BY <1>2, <3>2
      <4>2. steps[n] = old[n] /\ steps[n + 1] = old[n + 1]
        BY <1>6, <4>1
      <4> QED BY <1>3, <4>1, <4>2
    <3> QED BY <1>2, <3>1, <3>2
  <2>2. Len(steps) - 1 = m
    BY <1>2, <1>6
  <2> QED BY <2>1, <2>2
<1>8. steps[1] = <<<<0, 0>>, 0>> /\ Len(steps) > 0
  BY <1>2, <1>6
<1>9. Script(s, t, steps)
  BY <1>6, <1>7, <1>8 DEF Script, S, Goes
<1>10. steps[Len(steps)] = p
  BY <1>6
<1> QED BY <1>9, <1>10 DEF Edited, p

LEMMA Between ==
  ASSUME NEW x \in Nat, NEW y \in Nat, NEW z \in Nat, NEW c \in {0, 1}, NEW d \in {0, 1},
         x + 2 <= z, z <= y + c, y <= x + d
  PROVE  z = x + 1 + 1
  OBVIOUS

\* each cell is reached by a script of as many edits
LEMMA CellReached ==
  ASSUME NEW s, NEW t, Len(s) \in Nat, Len(t) \in Nat, NEW f, Solves(s, t, f),
         NEW i \in 0..Len(s), NEW j \in 0..Len(t),
         \A a \in 0..Len(s), b \in 0..Len(t) : a + b < i + j => Edited(s, t, a, b, f[<<a, b>>])
  PROVE  Edited(s, t, i, j, f[<<i, j>>])
<1>1. /\ \A a \in 0..Len(s), b \in 0..Len(t) : f[<<a, b>>] \in Nat
      /\ \A a \in 0..Len(s) : f[<<a, 0>>] = a
      /\ \A b \in 0..Len(t) : f[<<0, b>>] = b
      /\ \A a \in 1..Len(s), b \in 1..Len(t) : Least(s, t, f, a, b)
  BY MatrixIs
<1>2. \A x, y : Differ(x, y) \in {0, 1}
  BY DifferIs
<1>3. 0 \in {0, 1} /\ 1 \in {0, 1}
  OBVIOUS
<1>4. ASSUME i > 0, f[<<i, j>>] = f[<<i - 1, j>>] + 1
      PROVE  Edited(s, t, i, j, f[<<i, j>>])
  <2>1. i - 1 \in 0..Len(s) /\ (i - 1) + j < i + j /\ i = (i - 1) + 1
    BY <1>4
  <2>2. Edited(s, t, i - 1, j, f[<<i - 1, j>>]) /\ f[<<i - 1, j>>] \in Nat
    BY <1>1, <2>1
  <2>3. Edit(s, t, i - 1, j, i, j, 1)
    BY <2>1 DEF Edit
  <2> QED BY <1>3, <1>4, <2>1, <2>2, <2>3, EditedMore
<1>5. ASSUME j > 0, f[<<i, j>>] = f[<<i, j - 1>>] + 1
      PROVE  Edited(s, t, i, j, f[<<i, j>>])
  <2>1. j - 1 \in 0..Len(t) /\ i + (j - 1) < i + j /\ j = (j - 1) + 1
    BY <1>5
  <2>2. Edited(s, t, i, j - 1, f[<<i, j - 1>>]) /\ f[<<i, j - 1>>] \in Nat
    BY <1>1, <2>1
  <2>3. Edit(s, t, i, j - 1, i, j, 1)
    BY <2>1 DEF Edit
  <2> QED BY <1>3, <1>5, <2>1, <2>2, <2>3, EditedMore
<1>6. ASSUME i > 0, j > 0, f[<<i, j>>] = f[<<i - 1, j - 1>>] + Differ(s[i], t[j])
      PROVE  Edited(s, t, i, j, f[<<i, j>>])
  <2>1. /\ i - 1 \in 0..Len(s) /\ j - 1 \in 0..Len(t) /\ (i - 1) + (j - 1) < i + j
        /\ i = (i - 1) + 1 /\ j = (j - 1) + 1
    BY <1>6
  <2>2. Edited(s, t, i - 1, j - 1, f[<<i - 1, j - 1>>]) /\ f[<<i - 1, j - 1>>] \in Nat
    BY <1>1, <2>1
  <2>3. Edit(s, t, i - 1, j - 1, i, j, Differ(s[i], t[j]))
    BY <2>1 DEF Edit
  <2>4. Differ(s[i], t[j]) \in {0, 1}
    BY <1>2
  <2> QED BY <1>6, <2>1, <2>2, <2>3, <2>4, EditedMore
<1>7. ASSUME i > 2, j > 2,
             f[<<i, j>>] = f[<<i - 2, j - 2>>] + 1 + Differ(s[i - 1], t[j]) + Differ(s[i], t[j - 1])
      PROVE  Edited(s, t, i, j, f[<<i, j>>])
  <2>1. /\ i - 2 \in 0..Len(s) /\ j - 2 \in 0..Len(t) /\ (i - 2) + (j - 2) < i + j
        /\ i = (i - 2) + 2 /\ j = (j - 2) + 2 /\ i - 2 > 0 /\ j - 2 > 0
        /\ i - 1 \in 1..Len(s) /\ j - 1 \in 1..Len(t) /\ i - 1 = (i - 2) + 1 /\ j - 1 = (j - 2) + 1
        /\ i = (i - 1) + 1 /\ j = (j - 1) + 1 /\ (i - 1) - 1 = i - 2 /\ (j - 1) - 1 = j - 2
        /\ i - 1 \in 0..Len(s) /\ j - 1 \in 0..Len(t) /\ i \in 1..Len(s) /\ j \in 1..Len(t)
    BY <1>7
  <2>2. Edited(s, t, i - 2, j - 2, f[<<i - 2, j - 2>>]) /\ f[<<i - 2, j - 2>>] \in Nat
    BY <1>1, <2>1
  <2>3. CASE s[i - 1] = t[j] /\ s[i] = t[j - 1]
    <3>1. f[<<i, j>>] = f[<<i - 2, j - 2>>] + 1
      <4>1. Differ(s[i - 1], t[j]) = 0 /\ Differ(s[i], t[j - 1]) = 0
        BY <2>3 DEF Differ
      <4> QED BY <1>7, <2>2, <4>1
    <3>2. Edit(s, t, i - 2, j - 2, i, j, 1)
      BY <2>1, <2>3 DEF Edit
    <3> QED BY <1>3, <2>1, <2>2, <3>1, <3>2, EditedMore
  <2>4. CASE ~ (s[i - 1] = t[j] /\ s[i] = t[j - 1])
    <3>1. f[<<i - 2, j - 2>>] + 2 <= f[<<i, j>>]
      <4>1. Differ(s[i - 1], t[j]) = 1 \/ Differ(s[i], t[j - 1]) = 1
        BY <2>4 DEF Differ
      <4>2. Differ(s[i - 1], t[j]) \in {0, 1} /\ Differ(s[i], t[j - 1]) \in {0, 1}
        BY <1>2
      <4> QED BY <1>7, <2>2, <4>1, <4>2
    <3>2. /\ f[<<i, j>>] <= f[<<i - 1, j - 1>>] + Differ(s[i], t[j])
          /\ f[<<i - 1, j - 1>>] <= f[<<i - 2, j - 2>>] + Differ(s[i - 1], t[j - 1])
      <4>1. Least(s, t, f, i, j) /\ Least(s, t, f, i - 1, j - 1)
        BY <1>1, <2>1
      <4>2. f[<<i - 1, j - 1>>] <= f[<<(i - 1) - 1, (j - 1) - 1>>] + Differ(s[i - 1], t[j - 1])
        BY <4>1 DEF Least
      <4> QED BY <2>1, <4>1, <4>2 DEF Least
    <3>3. f[<<i, j>>] = f[<<i - 2, j - 2>>] + 1 + 1
      <4>1. Differ(s[i], t[j]) \in {0, 1} /\ Differ(s[i - 1], t[j - 1]) \in {0, 1}
        BY <1>2
      <4>2. f[<<i, j>>] \in Nat /\ f[<<i - 1, j - 1>>] \in Nat
        BY <1>1, <2>1
      <4> QED BY <2>2, <3>1, <3>2, <4>1, <4>2, Between
    <3>4. Edit(s, t, i - 2, j - 2, i - 1, j - 1, 1) /\ Edit(s, t, i - 1, j - 1, i, j, 1)
      BY <2>1 DEF Edit
    <3>5. Edited(s, t, i - 1, j - 1, f[<<i - 2, j - 2>>] + 1)
      BY <1>3, <2>1, <2>2, <3>4, EditedMore
    <3>6. f[<<i - 2, j - 2>>] + 1 \in Nat
      BY <2>2
    <3> QED BY <1>3, <2>1, <3>3, <3>4, <3>5, <3>6, EditedMore
  <2> QED BY <2>3, <2>4
<1>8. CASE i = 0 /\ j = 0
  <2>1. f[<<i, j>>] = 0
    BY <1>1, <1>8
  <2> QED BY <1>8, <2>1, EditedStart
<1>9. CASE i = 0 /\ j > 0
  <2>1. j - 1 \in 0..Len(t)
    BY <1>9
  <2>2. f[<<i, j>>] = j /\ f[<<i, j - 1>>] = j - 1
    BY <1>1, <1>9, <2>1
  <2>3. f[<<i, j>>] = f[<<i, j - 1>>] + 1
    BY <2>2
  <2> QED BY <1>5, <1>9, <2>3
<1>10. CASE i > 0 /\ j = 0
  <2>1. i - 1 \in 0..Len(s)
    BY <1>10
  <2>2. f[<<i, j>>] = i /\ f[<<i - 1, j>>] = i - 1
    BY <1>1, <1>10, <2>1
  <2>3. f[<<i, j>>] = f[<<i - 1, j>>] + 1
    BY <2>2
  <2> QED BY <1>4, <1>10, <2>3
<1>11. CASE i > 0 /\ j > 0
  <2>1. Least(s, t, f, i, j)
    BY <1>1, <1>11
  <2> QED BY <1>4, <1>5, <1>6, <1>7, <1>11, <2>1 DEF Least
<1> QED BY <1>8, <1>9, <1>10, <1>11

(***************************************************************************)
(* Whatever the two strings, the distance is the least number of edits     *)
(* that make the one into the other, when no two swaps overlap and the     *)
(* first letters are not swapped: the matrix of the code misses nothing    *)
(* else, and counts nothing that is not an edit.                           *)
(***************************************************************************)
THEOREM DistanceIsLeast ==
  ASSUME NEW S, NEW s \in Seq(S), NEW t \in Seq(S)
  PROVE  /\ Distance(s, t) \in Nat
         /\ Edited(s, t, Len(s), Len(t), Distance(s, t))
         /\ \A c \in Nat : Edited(s, t, Len(s), Len(t), c) => Distance(s, t) <= c
<1>1. Len(s) \in Nat /\ Len(t) \in Nat
  OBVIOUS
<1>2. PICK f : Solves(s, t, f) /\ Distance(s, t) = f[<<Len(s), Len(t)>>]
  BY <1>1, DistanceUnfolds
<1>3. /\ \A i \in 0..Len(s), j \in 0..Len(t) : f[<<i, j>>] \in Nat
      /\ f[<<0, 0>>] = 0
  <2>1. 0 \in 0..Len(s)
    BY <1>1
  <2> QED BY <1>1, <1>2, <2>1, MatrixIs
<1>4. Len(s) \in 0..Len(s) /\ Len(t) \in 0..Len(t)
  BY <1>1
<1>5. Edited(s, t, Len(s), Len(t), f[<<Len(s), Len(t)>>])
  <2> DEFINE Reached(k) == \A i \in 0..Len(s), j \in 0..Len(t) :
                               i + j < k => Edited(s, t, i, j, f[<<i, j>>])
             T == {k \in Nat : Reached(k)}
  <2>1. 0 \in T
    <3>1. \A i \in 0..Len(s), j \in 0..Len(t) : ~ (i + j < 0)
      BY <1>1
    <3> QED BY <3>1
  <2>2. ASSUME NEW k \in T \cap Nat PROVE k + 1 \in T
    <3>1. Reached(k)
      BY <2>2
    <3>2. ASSUME NEW i \in 0..Len(s), NEW j \in 0..Len(t), i + j < k + 1
          PROVE  Edited(s, t, i, j, f[<<i, j>>])
      <4>1. \A a \in 0..Len(s), b \in 0..Len(t) :
                a + b < i + j => Edited(s, t, a, b, f[<<a, b>>])
        BY <1>1, <3>1, <3>2
      <4> QED BY <1>1, <1>2, <4>1, CellReached
    <3>3. Reached(k + 1)
      BY <3>2
    <3> HIDE DEF Reached
    <3> QED BY <3>3
  <2> HIDE DEF T
  <2>3. Nat \subseteq T
    BY <2>1, <2>2, Induction
  <2>4. Len(s) + Len(t) + 1 \in T /\ Len(s) + Len(t) < Len(s) + Len(t) + 1
    BY <1>1, <2>3
  <2> QED BY <1>4, <2>4 DEF T
<1>6. ASSUME NEW c \in Nat, Edited(s, t, Len(s), Len(t), c)
      PROVE  f[<<Len(s), Len(t)>>] <= c
  <2>1. PICK steps : Script(s, t, steps) /\ steps[Len(steps)] = <<<<Len(s), Len(t)>>, c>>
    BY <1>6 DEF Edited
  <2> DEFINE l == Len(steps)
             Bounded(p) == f[<<p[1][1], p[1][2]>>] <= p[2]
             T == {n \in 0..(l - 1) : Bounded(steps[n + 1])}
  <2>2. /\ steps \in Seq(Cells(s, t) \X Nat) /\ l \in Nat /\ l > 0
        /\ steps[1] = <<<<0, 0>>, 0>>
    BY <2>1 DEF Script
  <2>3. \A n \in 1..l : steps[n] \in Cells(s, t) \X Nat
    BY <2>2
  <2>4. \A n \in 1..l : /\ steps[n][1][1] \in 0..Len(s) /\ steps[n][1][2] \in 0..Len(t)
                        /\ steps[n][2] \in Nat
    BY <2>3 DEF Cells
  <2>5. 0 \in T
    <3>1. Bounded(<<<<0, 0>>, 0>>)
      BY <1>3
    <3> HIDE DEF Bounded, l
    <3>2. 0 \in 0..(l - 1) /\ 0 + 1 = 1
      BY <2>2
    <3> QED BY <2>2, <3>1, <3>2
  <2>6. ASSUME NEW n \in Nat, n < l - 1, n \in T PROVE n + 1 \in T
    <3>1. n + 1 \in 1..(l - 1) /\ n + 1 \in 1..l /\ (n + 1) + 1 \in 1..l /\ n + 1 \in 0..(l - 1)
      BY <2>2, <2>6
    <3> DEFINE a == steps[n + 1]
               b == steps[(n + 1) + 1]
    <3>2. PICK e \in {0, 1} : b[2] = a[2] + e /\ Edit(s, t, a[1][1], a[1][2], b[1][1], b[1][2], e)
      BY <2>1, <3>1 DEF Script
    <3>3. /\ a[1][1] \in 0..Len(s) /\ a[1][2] \in 0..Len(t) /\ a[2] \in Nat
          /\ b[1][1] \in 0..Len(s) /\ b[1][2] \in 0..Len(t) /\ b[2] \in Nat
      BY <2>4, <3>1
    <3>4. f[<<a[1][1], a[1][2]>>] <= a[2]
      BY <2>6
    <3> HIDE DEF a, b
    <3>5. f[<<b[1][1], b[1][2]>>] <= f[<<a[1][1], a[1][2]>>] + e
      BY <1>1, <1>2, <3>2, <3>3, EditBound
    <3>6. f[<<b[1][1], b[1][2]>>] \in Nat /\ f[<<a[1][1], a[1][2]>>] \in Nat
      BY <1>3, <3>3
    <3>7. f[<<b[1][1], b[1][2]>>] <= b[2]
      BY <3>2, <3>3, <3>4, <3>5, <3>6
    <3> QED BY <3>1, <3>7 DEF b
  <2>7. l - 1 \in Nat
    BY <2>2
  <2> HIDE DEF T, l
  <2>8. 0..(l - 1) \subseteq T
    BY <2>5, <2>6, <2>7, BoundedInduction
  <2>9. l - 1 \in T /\ (l - 1) + 1 = l
    BY <2>2, <2>8
  <2>10. Bounded(steps[l])
    BY <2>9 DEF T
  <2>11. steps[l] = <<<<Len(s), Len(t)>>, c>>
    BY <2>1 DEF l
  <2> QED BY <2>10, <2>11
<1> QED BY <1>2, <1>3, <1>4, <1>5, <1>6

(***************************************************************************)
(* Whatever the two strings, the distance does not depend on which of them *)
(* is the source, is null between equal strings only, and is no more than  *)
(* the length of the longer one, no less than the difference of both.      *)
(***************************************************************************)
THEOREM DistanceMeasures ==
  ASSUME NEW S, NEW s \in Seq(S), NEW t \in Seq(S)
  PROVE  /\ Distance(s, t) = Distance(t, s)
         /\ Distance(s, t) = 0 <=> s = t
         /\ Distance(s, t) <= Len(s) \/ Distance(s, t) <= Len(t)
         /\ Len(s) <= Len(t) + Distance(s, t) /\ Len(t) <= Len(s) + Distance(s, t)
<1>1. Len(s) \in Nat /\ Len(t) \in Nat
  OBVIOUS
<1>2. PICK f : Solves(s, t, f) /\ Distance(s, t) = f[<<Len(s), Len(t)>>]
  BY <1>1, DistanceUnfolds
<1>3. Len(s) \in 0..Len(s) /\ Len(t) \in 0..Len(t)
  BY <1>1
<1>4. Distance(s, t) = Distance(t, s)
  <2>1. PICK g : Solves(t, s, g) /\ Distance(t, s) = g[<<Len(t), Len(s)>>]
    BY <1>1, DistanceUnfolds
  <2> DEFINE val(p) == g[<<p[2], p[1]>>]
             h == [p \in Cells(s, t) |-> val(p)]
  <2>2. g \in [Cells(t, s) -> Nat]
    BY <2>1 DEF Solves
  <2>3. h \in [Cells(s, t) -> Nat]
    <3>1. \A p \in Cells(s, t) : <<p[2], p[1]>> \in Cells(t, s)
      BY DEF Cells
    <3>2. \A p \in Cells(s, t) : val(p) \in Nat
      BY <2>2, <3>1
    <3> HIDE DEF val
    <3> QED BY <3>2
  <2>4. \A i \in 0..Len(s), j \in 0..Len(t) : h[<<i, j>>] = g[<<j, i>>]
    <3> SUFFICES ASSUME NEW i \in 0..Len(s), NEW j \in 0..Len(t) PROVE h[<<i, j>>] = g[<<j, i>>]
      OBVIOUS
    <3>1. <<i, j>> \in Cells(s, t)
      BY DEF Cells
    <3>2. val(<<i, j>>) = g[<<j, i>>]
      OBVIOUS
    <3>3. h[<<i, j>>] = val(<<i, j>>)
      <4> HIDE DEF val
      <4> QED BY <3>1
    <3> QED BY <3>2, <3>3
  <2> HIDE DEF h, val
  <2>5. ASSUME NEW i \in 0..Len(s), NEW j \in 0..Len(t)
        PROVE  Cell(s, t, h, i, j) = Cell(t, s, g, j, i)
    <3>1. CASE i = 0 \/ j = 0
      BY <3>1 DEF Cell
    <3>2. CASE i > 0 /\ j > 0
      <4>1. /\ h[<<i - 1, j>>] = g[<<j, i - 1>>] /\ h[<<i, j - 1>>] = g[<<j - 1, i>>]
            /\ h[<<i - 1, j - 1>>] = g[<<j - 1, i - 1>>]
        <5>1. i - 1 \in 0..Len(s) /\ j - 1 \in 0..Len(t)
          BY <1>1, <3>2
        <5> QED BY <2>4, <5>1
      <4>0. /\ Cell(s, t, h, i, j) = Min(Entries(s, t, h, i, j))
            /\ Cell(t, s, g, j, i) = Min(Entries(t, s, g, j, i))
        BY <3>2 DEF Cell, Entries
      <4>2. Differ(s[i], t[j]) = Differ(t[j], s[i])
        BY DifferIs
      <4>3. CASE i > 2 /\ j > 2
        <5>1. h[<<i - 2, j - 2>>] = g[<<j - 2, i - 2>>] /\ g[<<j - 2, i - 2>>] \in Nat
          <6>1. i - 2 \in 0..Len(s) /\ j - 2 \in 0..Len(t)
            BY <1>1, <4>3
          <6>2. h[<<i - 2, j - 2>>] = g[<<j - 2, i - 2>>]
            BY <2>4, <6>1
          <6>3. <<j - 2, i - 2>> \in Cells(t, s)
            BY <6>1 DEF Cells
          <6> QED BY <2>2, <6>2, <6>3
        <5>2. h[<<i - 2, j - 2>>] + 1 + Differ(s[i - 1], t[j]) + Differ(s[i], t[j - 1])
                = g[<<j - 2, i - 2>>] + 1 + Differ(t[j - 1], s[i]) + Differ(t[j], s[i - 1])
          <6>1. /\ Differ(s[i - 1], t[j]) = Differ(t[j], s[i - 1])
                /\ Differ(s[i], t[j - 1]) = Differ(t[j - 1], s[i])
                /\ Differ(t[j], s[i - 1]) \in Nat /\ Differ(t[j - 1], s[i]) \in Nat
            BY DifferIs
          <6> QED BY <5>1, <6>1
        <5>3. Entries(s, t, h, i, j) = Entries(t, s, g, j, i)
          <6> DEFINE a == h[<<i - 1, j>>] + 1
                     b == h[<<i, j - 1>>] + 1
                     c == h[<<i - 1, j - 1>>] + Differ(s[i], t[j])
                     d == h[<<i - 2, j - 2>>] + 1 + Differ(s[i - 1], t[j]) + Differ(s[i], t[j - 1])
          <6>1. Entries(s, t, h, i, j) = {a, b, c, d}
            BY <4>3 DEF Entries
          <6>2. Entries(t, s, g, j, i) = {b, a, c, d}
            BY <4>1, <4>2, <4>3, <5>2 DEF Entries
          <6> HIDE DEF a, b, c, d
          <6> QED BY <6>1, <6>2
        <5> QED BY <4>0, <5>3
      <4>4. CASE ~ (i > 2 /\ j > 2)
        <5>1. Entries(s, t, h, i, j) = Entries(t, s, g, j, i)
          <6> DEFINE a == h[<<i - 1, j>>] + 1
                     b == h[<<i, j - 1>>] + 1
                     c == h[<<i - 1, j - 1>>] + Differ(s[i], t[j])
          <6>1. Entries(s, t, h, i, j) = {a, b, c}
            BY <4>4 DEF Entries
          <6>2. Entries(t, s, g, j, i) = {b, a, c}
            BY <4>1, <4>2, <4>4 DEF Entries
          <6> HIDE DEF a, b, c
          <6> QED BY <6>1, <6>2
        <5> QED BY <4>0, <5>1
      <4> QED BY <4>3, <4>4
    <3> QED BY <1>1, <3>1, <3>2
  <2>6. Solves(s, t, h)
    <3>1. ASSUME NEW i \in 0..Len(s), NEW j \in 0..Len(t) PROVE h[<<i, j>>] = Cell(s, t, h, i, j)
      BY <2>1, <2>4, <2>5 DEF Solves
    <3> QED BY <2>3, <3>1 DEF Solves
  <2>7. f[<<Len(s), Len(t)>>] = h[<<Len(s), Len(t)>>]
    BY <1>1, <1>2, <1>3, <2>6, MatrixUnique
  <2> QED BY <1>2, <1>3, <2>1, <2>4, <2>7
<1>5. /\ \A i \in 0..Len(s), j \in 0..Len(t) : f[<<i, j>>] \in Nat
      /\ \A i \in 0..Len(s) : f[<<i, 0>>] = i
      /\ \A j \in 0..Len(t) : f[<<0, j>>] = j
      /\ \A i \in 1..Len(s), j \in 1..Len(t) : Least(s, t, f, i, j)
  BY <1>1, <1>2, MatrixIs
<1> DEFINE Sized(i, j) ==
             /\ f[<<i, j>>] = 0 <=> i = j /\ \A k \in 1..i : s[k] = t[k]
             /\ f[<<i, j>>] <= i \/ f[<<i, j>>] <= j
             /\ i <= j + f[<<i, j>>] /\ j <= i + f[<<i, j>>]
           Before(k) == \A i \in 0..Len(s), j \in 0..Len(t) : i + j < k => Sized(i, j)
           T == {k \in Nat : Before(k)}
<1>6. ASSUME NEW i \in 0..Len(s), NEW j \in 0..Len(t), Before(i + j) PROVE Sized(i, j)
  <2>1. CASE i = 0
    <3>1. f[<<i, j>>] = j /\ \A k \in 1..i : FALSE
      BY <1>5, <2>1
    <3> QED BY <1>1, <2>1, <3>1
  <2>2. CASE j = 0
    <3>1. f[<<i, j>>] = i
      BY <1>5, <2>2
    <3>2. i = 0 => \A k \in 1..i : FALSE
      OBVIOUS
    <3> QED BY <1>1, <2>2, <3>1, <3>2
  <2>3. CASE i > 0 /\ j > 0
    <3> DEFINE x == f[<<i - 1, j>>]
               y == f[<<i, j - 1>>]
               z == f[<<i - 1, j - 1>>]
               u == f[<<i - 2, j - 2>>]
               r == f[<<i, j>>]
               c == Differ(s[i], t[j])
               d == Differ(s[i - 1], t[j])
               e == Differ(s[i], t[j - 1])
               m == i - 1
               n == j - 1
    <3>1. /\ i \in 1..Len(s) /\ j \in 1..Len(t) /\ m \in 0..Len(s) /\ n \in 0..Len(t)
          /\ m + j < i + j /\ i + n < i + j /\ m + n < i + j
          /\ i > 2 /\ j > 2 => i - 2 \in 0..Len(s) /\ j - 2 \in 0..Len(t) /\ (i - 2) + (j - 2) < i + j
      BY <1>1, <2>3
    <3>2. Sized(m, j) /\ Sized(i, n) /\ Sized(m, n) /\ (i > 2 /\ j > 2 => Sized(i - 2, j - 2))
      <4> HIDE DEF Sized, m, n
      <4> QED BY <1>6, <3>1
    <3>3. x \in Nat /\ y \in Nat /\ z \in Nat /\ r \in Nat /\ (i > 2 /\ j > 2 => u \in Nat)
      BY <1>5, <3>1
    <3>4. c \in {0, 1} /\ d \in {0, 1} /\ e \in {0, 1}
      BY DifferIs
    <3>5. /\ r <= z + c
          /\ \/ r = x + 1
             \/ r = y + 1
             \/ r = z + c
             \/ i > 2 /\ j > 2 /\ r = u + 1 + d + e
      BY <1>5, <3>1 DEF Least
    <3>6. /\ m <= j + x /\ j <= m + x /\ i <= n + y /\ n <= i + y /\ m <= n + z /\ n <= m + z
          /\ z <= m \/ z <= n
          /\ z = 0 <=> m = n /\ \A k \in 1..m : s[k] = t[k]
      BY <3>2
    <3>7. i > 2 /\ j > 2 => i - 2 <= (j - 2) + u /\ j - 2 <= (i - 2) + u
      BY <3>2
    <3>8. c = 0 <=> s[i] = t[j]
      BY DEF Differ
    <3>9. i \in Nat /\ j \in Nat /\ m \in Nat /\ n \in Nat /\ i = m + 1 /\ j = n + 1
      BY <1>1, <3>1
    <3>10. i > 2 /\ j > 2 => i <= j + u /\ j <= i + u
      BY <3>3, <3>7, <3>9
    <3>11. 1..i = (1..m) \cup {i}
      BY <3>9
    <3> HIDE DEF x, y, z, u, r, c, d, e, m, n
    <3>12. i <= j + r /\ j <= i + r
      <4>1. CASE r = x + 1
        BY <3>3, <3>6, <3>9, <4>1
      <4>2. CASE r = y + 1
        BY <3>3, <3>6, <3>9, <4>2
      <4>3. CASE r = z + c
        BY <3>3, <3>4, <3>6, <3>9, <4>3
      <4>4. CASE i > 2 /\ j > 2 /\ r = u + 1 + d + e
        BY <3>3, <3>4, <3>9, <3>10, <4>4
      <4> QED BY <3>5, <4>1, <4>2, <4>3, <4>4
    <3>13. r <= i \/ r <= j
      BY <3>3, <3>4, <3>5, <3>6, <3>9
    <3>14. r = 0 <=> z = 0 /\ c = 0
      <4>1. ASSUME r = 0 PROVE z = 0 /\ c = 0
        BY <3>3, <3>4, <3>5, <4>1
      <4>2. ASSUME z = 0, c = 0 PROVE r = 0
        BY <3>3, <3>5, <4>2
      <4> QED BY <4>1, <4>2
    <3>15. r = 0 <=> i = j /\ \A k \in 1..i : s[k] = t[k]
      <4>1. m = n <=> i = j
        BY <3>9
      <4>2. i = j => ((\A k \in 1..i : s[k] = t[k]) <=> (\A k \in 1..m : s[k] = t[k]) /\ s[i] = t[j])
        BY <3>11
      <4> QED BY <3>6, <3>8, <3>14, <4>1, <4>2
    <3> QED BY <3>12, <3>13, <3>15 DEF r
  <2> QED BY <1>1, <2>1, <2>2, <2>3
<1> HIDE DEF Sized
<1>7. 0 \in T
  <2>1. \A i \in 0..Len(s), j \in 0..Len(t) : ~ (i + j < 0)
    BY <1>1
  <2> QED BY <2>1
<1>8. ASSUME NEW k \in T \cap Nat PROVE k + 1 \in T
  <2>1. Before(k)
    BY <1>8
  <2>2. ASSUME NEW i \in 0..Len(s), NEW j \in 0..Len(t), i + j < k + 1 PROVE Sized(i, j)
    <3>1. Before(i + j)
      BY <1>1, <2>1, <2>2
    <3> HIDE DEF Before
    <3> QED BY <1>6, <3>1
  <2>3. Before(k + 1)
    BY <2>2
  <2> HIDE DEF Before
  <2> QED BY <2>3
<1> HIDE DEF T
<1>9. Nat \subseteq T
  BY <1>7, <1>8, Induction
<1>10. Len(s) + Len(t) + 1 \in T /\ Len(s) + Len(t) < Len(s) + Len(t) + 1
  BY <1>1, <1>9
<1>11. Sized(Len(s), Len(t))
  BY <1>3, <1>10 DEF T
<1>12. s = t <=> Len(s) = Len(t) /\ \A k \in 1..Len(s) : s[k] = t[k]
  BY <1>1
<1> QED BY <1>2, <1>4, <1>11, <1>12 DEF Sized

=============================================================================
