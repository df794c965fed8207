------------------------------ MODULE MCWords ------------------------------
(***************************************************************************)
(* Every query of up to MaxLen words: its slices, against every set of     *)
(* matching pairs; its partitions and combinations as a phrase; and its    *)
(* edit distance, as a string of letters, to every other string, all       *)
(* against what they are meant to be.                                      *)
(***************************************************************************)
EXTENDS Words, EditDistance

CONSTANTS MaxLen,
          MaxString     \* length of the strings whose distances are compared

MCQueries == UNION {[1..n -> Word] : n \in 0..MaxLen}

(***************************************************************************)
(* The least number of insertions, deletions, substitutions and swaps of   *)
(* two adjacent letters, none edited twice, from one string to another.    *)
(***************************************************************************)
RECURSIVE Edits(_, _)
Edits(s, t) ==
    IF s = <<>> \/ t = <<>> THEN Len(s) + Len(t)
    ELSE Min({1 + Edits(Tail(s), t), 1 + Edits(s, Tail(t)),
              (IF Head(s) = Head(t) THEN 0 ELSE 1) + Edits(Tail(s), Tail(t))}
             \cup {1 + Edits(OtherWords(s, 2), OtherWords(t, 2)) :
                     swap \in {TRUE} \cap {/\ Len(s) > 1 /\ Len(t) > 1
                                          /\ s[1] = t[2] /\ s[2] = t[1]}})

Strings == UNION {[1..n -> Word] : n \in 0..MaxString}

(***************************************************************************)
(* The distance is symmetric, null between equal strings only, and misses  *)
(* nothing but swaps of the first two letters: behind a common first       *)
(* letter it is the least number of edits.                                 *)
(***************************************************************************)
DistanceIsSound ==
    Fresh /\ N <= MaxString => \A s \in Strings :
        LET d == Distance(query, s)
        IN  /\ d = Distance(s, query)
            /\ d = 0 <=> s = query
            /\ Edits(query, s) <= d
            /\ d <= (IF N < Len(s) THEN Len(s) ELSE N)
            /\ \A l \in Word : Distance(<<l>> \o query, <<l>> \o s) = Edits(query, s)
=============================================================================
