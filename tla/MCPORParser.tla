---------------------------- MODULE MCPORParser -----------------------------
(***************************************************************************)
(* Lines of up to two PORs, full or bare, up to MaxOdd columns of which    *)
(* are otherwise, and lists of up to two items.                            *)
(***************************************************************************)
EXTENDS PORParser
=============================================================================
