---------------------------- MODULE TravelIndex ----------------------------
(***************************************************************************)
(* What the index builder promises to the searchers: the travel index, as  *)
(* seen by whoever opens its directory, is either not there, or empty, or  *)
(* the complete image of one file of points of reference (POR).  It is     *)
(* never half-built, and it goes from one complete image to another only   *)
(* through its own withdrawal.                                             *)
(***************************************************************************)
EXTENDS Naturals, Sequences

CONSTANTS Key,          \* the primary keys of the POR: code, type, Geonames ID
          Files         \* the POR files the indexer may be run on

(***************************************************************************)
(* A line of a POR file either describes a POR, or is accepted by the      *)
(* parser without naming any (the header, say), or is rejected by it.      *)
(***************************************************************************)
Line == [key : Key, form : {"por", "unnamed", "malformed"}]

(***************************************************************************)
(* The document made from line i of a file: "about" holds the POR whose    *)
(* terms the document is indexed by.                                       *)
(***************************************************************************)
Document == [line : Nat \ {0}, key : Key, about : SUBSET Key]

PorLines(f) == {i \in DOMAIN f : f[i].form = "por"}
WellFormed(f) == \A i \in DOMAIN f : f[i].form # "malformed"

(***************************************************************************)
(* One document per POR of the file, each indexed by its own terms only.   *)
(***************************************************************************)
Indexed(f) ==
    {[line |-> i, key |-> f[i].key, about |-> {f[i].key}] : i \in PorLines(f)}

VARIABLES exists,       \* an index can be opened
          published     \* its documents
pubVars == <<exists, published>>

PubInit == exists = FALSE /\ published = {}

Withdraw ==
    /\ exists
    /\ exists' = FALSE
    /\ published' = {}

CreateEmpty ==
    /\ ~ exists
    /\ exists' = TRUE
    /\ published' = {}

Publish(f) ==
    /\ exists
    /\ published = {}
    /\ WellFormed(f)
    /\ published' = Indexed(f)
    /\ UNCHANGED exists

PubNext == Withdraw \/ CreateEmpty \/ \E f \in Files : Publish(f)

PubSpec == PubInit /\ [][PubNext]_pubVars
=============================================================================
