---------------------------- MODULE QuerySlices ----------------------------
(***************************************************************************)
(* The cutting of a travel query in slices, QuerySlices::init(): the words *)
(* are browsed two by two, and the query is cut between two words that the *)
(* index does not know together.  The words being collected are held by a  *)
(* staging string, emptied each time it becomes a slice.  A string is the  *)
(* interval of the query its words come from, and the separators in it.    *)
(***************************************************************************)
EXTENDS Naturals, Sequences

CONSTANTS Word, Queries

ASSUME QueriesAssumption == Queries \subseteq Seq(Word)

VARIABLES query,        \* the words of the query, punctuation stripped
          matching,     \* pairs of words doesMatch() finds in the index
          pc,
          left,         \* position of itWord
          idxRel,       \* idx_rel
          staging,      \* _itLeftWords
          slices        \* _slices
vars == <<query, matching, pc, left, idxRel, staging, slices>>

Slice == [from : Nat, to : Nat, seps : Nat]
Empty == [from |-> 1, to |-> 0, seps |-> 0]
IsEmpty(s) == s.to < s.from

Together(i) == <<query[i], query[i + 1]>> \in matching

(***************************************************************************)
(* s += " " if there is to be a separator, then s += the word at p.        *)
(***************************************************************************)
AddWord(s, separated, p) ==
    [from |-> IF IsEmpty(s) THEN p ELSE s.from,
     to   |-> p,
     seps |-> IF separated THEN s.seps + 1 ELSE s.seps]

Init ==
    /\ query \in Queries
    /\ matching \in SUBSET (Word \X Word)
    /\ pc = "start" /\ left = 1 /\ idxRel = 1
    /\ staging = Empty /\ slices = <<>>

(***************************************************************************)
(* A query of one word, or of none, is a slice as it is.                   *)
(***************************************************************************)
SingleWord ==
    /\ pc = "start" /\ Len(query) <= 1
    /\ slices' = <<[from |-> 1, to |-> Len(query), seps |-> 0]>>
    /\ pc' = "done"
    /\ UNCHANGED <<query, matching, left, idxRel, staging>>

SeveralWords ==
    /\ pc = "start" /\ Len(query) > 1
    /\ pc' = "pairs"
    /\ UNCHANGED <<query, matching, left, idxRel, staging, slices>>

AtPair == pc = "pairs" /\ left < Len(query)
Staged == AddWord(staging, idxRel >= 2, left)

\* mutant of Join: two words are joined without a match
JoinAnyway ==
    /\ AtPair
    /\ staging' = Staged
    /\ left' = left + 1 /\ idxRel' = idxRel + 1
    /\ UNCHANGED <<query, matching, pc, slices>>

(***************************************************************************)
(* The two words match: the right one is to join the left one.             *)
(***************************************************************************)
Join ==
    /\ AtPair /\ Together(left)
    /\ staging' = Staged
    /\ left' = left + 1 /\ idxRel' = idxRel + 1
    /\ UNCHANGED <<query, matching, pc, slices>>

\* mutant of Cut: idx_rel is not reset
CutKeepingIndex ==
    /\ AtPair /\ ~ Together(left)
    /\ slices' = Append(slices, Staged) /\ staging' = Empty
    /\ left' = left + 1 /\ idxRel' = idxRel + 1
    /\ UNCHANGED <<query, matching, pc>>

\* mutant of Cut: the staging string is not emptied
CutKeepingStaging ==
    /\ AtPair /\ ~ Together(left)
    /\ slices' = Append(slices, Staged) /\ staging' = Staged
    /\ left' = left + 1 /\ idxRel' = 1
    /\ UNCHANGED <<query, matching, pc>>

(***************************************************************************)
(* They do not: the staging string is a slice.  idx_rel is set to 0, then  *)
(* incremented as at every turn.                                           *)
(***************************************************************************)
Cut ==
    /\ AtPair /\ ~ Together(left)
    /\ slices' = Append(slices, Staged) /\ staging' = Empty
    /\ left' = left + 1 /\ idxRel' = 1
    /\ UNCHANGED <<query, matching, pc>>

\* mutant of LastWord: the last word is awaited past the end of the query
LastWordPastEnd ==
    /\ pc = "pairs" /\ left > Len(query)
    /\ pc' = "done"
    /\ UNCHANGED <<query, matching, left, idxRel, staging, slices>>

(***************************************************************************)
(* The last word has no right one: it ends the last slice.                 *)
(***************************************************************************)
LastWord ==
    /\ pc = "pairs" /\ left = Len(query)
    /\ LET last == AddWord(staging, ~ IsEmpty(staging), left)
       IN  staging' = last /\ slices' = Append(slices, last)
    /\ pc' = "done"
    /\ UNCHANGED <<query, matching, left, idxRel>>

(***************************************************************************)
(* An error of Xapian, while two words are looked for.                     *)
(***************************************************************************)
Throw ==
    /\ AtPair
    /\ pc' = "thrown"
    /\ UNCHANGED <<query, matching, left, idxRel, staging, slices>>

Next == SingleWord \/ SeveralWords \/ Join \/ Cut \/ LastWord \/ Throw

Spec == Init /\ [][Next]_vars /\ WF_vars(Next)

-----------------------------------------------------------------------------

TypeOK ==
    /\ query \in Queries
    /\ matching \subseteq Word \X Word
    /\ pc \in {"start", "pairs", "done", "thrown"}
    /\ left \in Nat \ {0} /\ idxRel \in Nat
    /\ staging \in Slice
    /\ slices \in Seq(Slice)

(***************************************************************************)
(* The slices are the words of the query, each once and in their order:    *)
(* they follow each other from the first word to the last.                 *)
(***************************************************************************)
Follows(k) == slices[k].from = IF k = 1 THEN 1 ELSE slices[k - 1].to + 1

SlicesCoverQuery ==
    pc = "done" =>
        /\ slices # <<>>
        /\ slices[Len(slices)].to = Len(query)
        /\ \A k \in DOMAIN slices : Follows(k)
        /\ Len(query) > 0 => \A k \in DOMAIN slices : ~ IsEmpty(slices[k])

(***************************************************************************)
(* The query is cut between two words if, and only if, they do not match.  *)
(***************************************************************************)
CutWhereNoMatch ==
    pc = "done" =>
        \A i \in 1..(Len(query) - 1) :
            (\E k \in DOMAIN slices : slices[k].to = i) <=> ~ Together(i)

(***************************************************************************)
(* The words of a slice are separated from each other: one space before    *)
(* each of them but the first.                                             *)
(***************************************************************************)
Separated(s) == ~ IsEmpty(s) => s.from + s.seps = s.to
WordsSeparated == \A k \in DOMAIN slices : Separated(slices[k])

(***************************************************************************)
(* The browsing comes to its end.                                          *)
(***************************************************************************)
SlicingEnds == <>(pc \in {"done", "thrown"})
=============================================================================
