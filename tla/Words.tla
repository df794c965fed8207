------------------------------- MODULE Words -------------------------------
(***************************************************************************)
(* The words of a query, as a phrase: what its partitions and combinations *)
(* are meant to be.                                                        *)
(***************************************************************************)
EXTENDS QuerySlices, StringPartition

N == Len(query)

\* the algorithms on words are evaluated once for each query
Fresh == pc = "start" /\ matching = {}

(***************************************************************************)
(* The string sets cut the phrase in all the ways there are, each of them  *)
(* once, hence 2^(n-1) sets ("made of 16 sets" for five words, in the test *)
(* suite of the partitions), without an empty string.  The first set is    *)
(* made of the single words and the last one of the whole phrase: a search *)
(* reports the unknown words in their order, and a tie between two weights *)
(* goes to the set cut the most.                                           *)
(***************************************************************************)
CutEveryWay(sets) ==
    /\ Len(sets) = 2 ^ (N - 1)
    /\ {CutsOf(s) : s \in ToSet(sets)} = SUBSET (1..(N - 1))
    /\ \A s \in ToSet(sets) : FlattenSeq(s) = query /\ <<>> \notin ToSet(s)

EveryCutOnce ==
    Fresh /\ N > 0 =>
        LET sets == Partition(query)
        IN  /\ CutEveryWay(sets)
            /\ Head(sets) = [i \in 1..N |-> <<query[i]>>]
            /\ Last(sets) = <<query>>

(***************************************************************************)
(* The combinations indexed for an alternate name are its sub-strings, and *)
(* what is left of it outside of one hole, wherever it is and whatever its *)
(* size from 1 to n-2: both extreme words stay.                            *)
(***************************************************************************)
SubStrings == {SubSeq(query, i, j) : i, j \in 1..N} \ {<<>>}

Holed == {SubSeq(query, 1, first - 1) \o SubSeq(query, last + 1, N) :
             first \in 2..(N - 1), last \in 2..(N - 1)}

WithOneHole == {h \in Holed : Len(h) < N}

CombinationsAreAll ==
    Fresh /\ N > 0 =>
        /\ Combinations(query) = SubStrings
        /\ WordCombinations(query) = SubStrings \cup WithOneHole
=============================================================================
