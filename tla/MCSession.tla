----------------------------- MODULE MCSession ------------------------------
(***************************************************************************)
(* Two searchers of one process, each initialised up to MaxInits times.    *)
(***************************************************************************)
EXTENDS Session, TLC

CONSTANTS s1, s2

Symmetry == Permutations(Searchers)
=============================================================================
