---------------------------- MODULE EditDistance ----------------------------
(***************************************************************************)
(* Levenshtein::getDistance(): the number of errors between the string of  *)
(* a query and its spelling correction.  A string is a sequence of letters *)
(* (of bytes, in the code).                                                *)
(***************************************************************************)
EXTENDS Naturals, Sequences, FiniteSetsExt

Differ(x, y) == IF x = y THEN 0 ELSE 1

\* the positions in the matrix
Cells(source, target) == (0..Len(source)) \X (0..Len(target))

\* mutant of Cell: the borders of the matrix are left at 0
CellFromZero(source, target, matrix, i, j) ==
    IF i = 0 \/ j = 0 THEN 0
    ELSE Min({matrix[<<i - 1, j>>] + 1, matrix[<<i, j - 1>>] + 1,
              matrix[<<i - 1, j - 1>>] + Differ(source[i], target[j])}
             \cup IF i > 2 /\ j > 2
                  THEN {matrix[<<i - 2, j - 2>>] + 1
                          + Differ(source[i - 1], target[j]) + Differ(source[i], target[j - 1])}
                  ELSE {})

\* mutant of Cell: one of the two letters swapped is not compared
CellHalfSwap(source, target, matrix, i, j) ==
    IF i = 0 \/ j = 0 THEN i + j
    ELSE Min({matrix[<<i - 1, j>>] + 1, matrix[<<i, j - 1>>] + 1,
              matrix[<<i - 1, j - 1>>] + Differ(source[i], target[j])}
             \cup IF i > 2 /\ j > 2
                  THEN {matrix[<<i - 2, j - 2>>] + 1 + Differ(source[i - 1], target[j])}
                  ELSE {})

(***************************************************************************)
(* A cell of the matrix, from those computed before: the distance between  *)
(* the first i letters of the one and the first j letters of the other, a  *)
(* transposition being looked for from the third letters on.               *)
(***************************************************************************)
Cell(source, target, matrix, i, j) ==
    IF i = 0 \/ j = 0 THEN i + j
    ELSE Min({matrix[<<i - 1, j>>] + 1, matrix[<<i, j - 1>>] + 1,
              matrix[<<i - 1, j - 1>>] + Differ(source[i], target[j])}
             \cup IF i > 2 /\ j > 2
                  THEN {matrix[<<i - 2, j - 2>>] + 1
                          + Differ(source[i - 1], target[j]) + Differ(source[i], target[j - 1])}
                  ELSE {})

Distance(source, target) ==
    LET matrix[p \in Cells(source, target)] == Cell(source, target, matrix, p[1], p[2])
    IN  matrix[<<Len(source), Len(target)>>]
=============================================================================
