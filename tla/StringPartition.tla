-------------------------- MODULE StringPartition --------------------------
(***************************************************************************)
(* The partitions of a phrase, StringPartition::init(), and what is made   *)
(* of them: the unique combinations of words, and the list of combinations *)
(* of a WordCombinationHolder.  A phrase is a sequence of words, a string  *)
(* set a sequence of phrases, a partition list a sequence of string sets.  *)
(***************************************************************************)
EXTENDS Naturals, Sequences, SequencesExt

\* createStringFromWordList(): the first n words, and those after them
FirstWords(phrase, n) == SubSeq(phrase, 1, n)
OtherWords(phrase, n) == SubSeq(phrase, n + 1, Len(phrase))

(***************************************************************************)
(* The left-hand string in front of each string set of the right-hand one. *)
(***************************************************************************)
WithLeftHand(left, sets) == [i \in DOMAIN sets |-> <<left>> \o sets[i]]

\* mutant of Partition: the whole phrase comes first
WholeAhead(phrase) ==
    LET len == Len(phrase)
        part[i \in 0..len] ==       \* partitions of the words after the i-th
            LET whole == <<OtherWords(phrase, i)>>
            IN  <<whole>> \o FlattenSeq(
                    [k \in 1..(IF len > i THEN len - i - 1 ELSE 0) |->
                        WithLeftHand(SubSeq(phrase, i + 1, i + k), part[i + k])])
    IN  part[0]

\* mutant of Partition: the iteration goes on with an empty right-hand string
WithEmptyTail(phrase) ==
    LET len == Len(phrase)
        part[i \in 0..len] ==
            LET whole == <<OtherWords(phrase, i)>>
            IN  IF len <= i + 1
                THEN <<whole>>
                ELSE FlattenSeq(
                       [k \in 1..(len - i) |->
                        WithLeftHand(SubSeq(phrase, i + 1, i + k), part[i + k])])
                     \o <<whole>>
    IN  part[0]

(***************************************************************************)
(* For each number k of words but the whole, the first k words in front of *)
(* each partition of the other words; the whole phrase at last.            *)
(***************************************************************************)
Partition(phrase) ==
    LET len == Len(phrase)
        part[i \in 0..len] ==
            LET whole == <<OtherWords(phrase, i)>>
            IN  FlattenSeq(
                    [k \in 1..(IF len > i THEN len - i - 1 ELSE 0) |->
                        WithLeftHand(SubSeq(phrase, i + 1, i + k), part[i + k])])
                \o <<whole>>
    IN  part[0]

(***************************************************************************)
(* The lengths of the strings of a set say where it cuts the phrase.       *)
(***************************************************************************)
CutsOf(set) == {Len(FlattenSeq(SubSeq(set, 1, k))) : k \in 1..(Len(set) - 1)}

\* mutant of Combinations: the last string set is not browsed
CombinationsButLast(phrase) ==
    UNION {ToSet(set) : set \in ToSet(Front(Partition(phrase)))}

(***************************************************************************)
(* Every string of every string set, without duplicates.                   *)
(***************************************************************************)
Combinations(phrase) == UNION {ToSet(set) : set \in ToSet(Partition(phrase))}

\* mutant of MiddleRemoved: the word after the removed ones goes with them
MiddleAndNextRemoved(phrase) ==
    LET n == Len(phrase)
    IN  {FirstWords(phrase, p[2]) \o OtherWords(phrase, p[1] + p[2] + 1) :
            p \in {q \in (1..n) \X (1..n) : q[1] + q[2] < n}}

(***************************************************************************)
(* init() of WordCombinationHolder: from 1 to n-2 words (p[1] of them) are *)
(* removed between the two extreme words, after the first p[2] words.      *)
(***************************************************************************)
MiddleRemoved(phrase) ==
    LET n == Len(phrase)
    IN  {FirstWords(phrase, p[2]) \o OtherWords(phrase, p[1] + p[2]) :
            p \in {q \in (1..n) \X (1..n) : q[1] + q[2] < n}}

WordCombinations(phrase) == Combinations(phrase) \cup MiddleRemoved(phrase)
=============================================================================
