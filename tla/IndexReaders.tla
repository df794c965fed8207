---------------------------- MODULE IndexReaders ----------------------------
(***************************************************************************)
(* A searcher at work while the indexer rebuilds the index it searches.    *)
(* RequestInterpreter::interpretTravelRequest() tests the directory, opens *)
(* the index for the time of the request, and answers the slices of the    *)
(* query one after the other, those made of codes from the SQL database    *)
(* first.  Here each slice asks for one POR.  The same searcher draws      *)
(* random locations (XapianIndexManager), for which it opens the index     *)
(* twice: to read the documents, then to count them.                       *)
(***************************************************************************)
EXTENDS IndexBuilder

CONSTANT Slices         \* number of slices of a query

ASSUME SlicesAssumption == Slices \in Nat

VARIABLES
    rpc,        \* the step the searcher is about to take
    snap,       \* the documents of the index as of its opening
    answers,    \* the answers found so far
    ended,      \* how the last request ended
    size,       \* the number of documents counted for the random draws
    missed      \* alternates with the draws that hit no document

Answer == [key : Key, by : {"sql", "index"}, found : BOOLEAN, slice : 1..Slices]

reader == <<rpc, snap, answers, ended, size, missed>>

draw == <<size, missed>>

InitReaders ==
    /\ Init
    /\ rpc = "idle" /\ snap = {} /\ answers = {} /\ ended = "none"
    /\ size = 0 /\ missed = FALSE

Request ==
    /\ rpc = "idle"
    /\ rpc' = "path" /\ answers' = {} /\ ended' = "none"
    /\ UNCHANGED <<snap, draw, vars>>

End(how) ==
    /\ rpc' = "idle" /\ ended' = how /\ snap' = {}
    /\ size' = 0 /\ missed' = FALSE
    /\ UNCHANGED <<answers, vars>>

(***************************************************************************)
(* The test of the path, and FileNotFoundException.                        *)
(***************************************************************************)
CheckPath ==
    /\ rpc = "path" /\ dir # "absent"
    /\ rpc' = "open"
    /\ UNCHANGED <<snap, answers, ended, draw, vars>>

PathMissing == rpc = "path" /\ dir = "absent" /\ End("refused")

(***************************************************************************)
(* Xapian::Database keeps the revision it opened, even when its files are  *)
(* unlinked; it throws when there is no index in the directory (any more). *)
(***************************************************************************)
OpenIndex ==
    /\ rpc = "open" /\ dir = "database"
    /\ rpc' = "slices" /\ snap' = docs
    /\ UNCHANGED <<answers, ended, draw, vars>>

\* mutant of NoIndexThere: the opening is tried again and again
RetryOpening ==
    /\ rpc = "open" /\ dir # "database"
    /\ rpc' = "path"
    /\ UNCHANGED <<snap, answers, ended, draw, vars>>

NoIndexThere == rpc = "open" /\ dir # "database" /\ End("refused")

\* mutant of NextSlice: the slices are counted from 0
SliceFromZero == Cardinality(answers)

NextSlice == Cardinality(answers) + 1

Give(k, by, found) ==
    /\ answers' = answers \cup
           {[key |-> k, by |-> by, found |-> found, slice |-> NextSlice]}
    /\ UNCHANGED <<rpc, snap, ended, draw, vars>>

InRows(k) == \E r \in rows : r.key = k

(***************************************************************************)
(* A slice made of codes is looked up among the rows of the moment.        *)
(***************************************************************************)
AnswerFromSQL(k) ==
    /\ rpc = "slices" /\ NextSlice <= Slices
    /\ db # "nodb" /\ InRows(k)
    /\ Give(k, "sql", TRUE)

SQLFails == rpc = "slices" /\ db # "nodb" /\ NextSlice <= Slices /\ End("nosql")

Keys(image) == {d.key : d \in image}

\* mutant of AnswerFromIndex: the index is opened anew for every slice
AnswerFromLatest(k) ==
    /\ rpc = "slices" /\ NextSlice <= Slices
    /\ db # "nodb" => ~ InRows(k)
    /\ Give(k, "index", k \in Keys(docs))

(***************************************************************************)
(* No match from the SQL database, or none to ask: the index answers.      *)
(***************************************************************************)
AnswerFromIndex(k) ==
    /\ rpc = "slices" /\ NextSlice <= Slices
    /\ db # "nodb" => ~ InRows(k)
    /\ Give(k, "index", k \in Keys(snap))

Answered ==
    /\ rpc = "slices" /\ NextSlice > Slices
    /\ End("answered")

-----------------------------------------------------------------------------

(***************************************************************************)
(* drawRandomLocations().  The index is opened, then getSize() tests the   *)
(* path and opens it anew.  The numbers of the documents go from 1 to      *)
(* their count.                                                            *)
(***************************************************************************)
AskDraw ==
    /\ rpc = "idle"
    /\ rpc' = "dpath" /\ answers' = {} /\ ended' = "none"
    /\ UNCHANGED <<snap, draw, vars>>

CheckDrawPath ==
    /\ rpc = "dpath" /\ dir # "absent"
    /\ rpc' = "dopen"
    /\ UNCHANGED <<snap, answers, ended, draw, vars>>

OpenForDraw ==
    /\ rpc = "dopen" /\ dir = "database"
    /\ rpc' = "dsize" /\ snap' = docs
    /\ UNCHANGED <<answers, ended, draw, vars>>

DrawRefused ==
    \/ rpc \in {"dpath", "dsize"} /\ dir = "absent" /\ End("refused")
    \/ rpc \in {"dopen", "dsize"} /\ dir # "database" /\ End("refused")

GetSize ==
    /\ rpc = "dsize" /\ dir = "database"
    /\ IF docs = {} THEN End("empty")
       ELSE /\ rpc' = "draw" /\ size' = Cardinality(docs)
            /\ UNCHANGED <<snap, answers, ended, missed, vars>>

(***************************************************************************)
(* A draw that hits a document of the opened index ends; another is tried  *)
(* again, and currentNbOfIterations stays at 0.                            *)
(***************************************************************************)
DrawHits ==
    /\ rpc = "draw"
    /\ \E id \in 1..size : id <= Cardinality(snap)
    /\ End("drawn")

DrawMisses ==
    /\ rpc = "draw"
    /\ \E id \in 1..size : id > Cardinality(snap)
    /\ missed' = ~ missed
    /\ UNCHANGED <<rpc, snap, answers, ended, size, vars>>

Draw ==
    \/ CheckDrawPath \/ OpenForDraw \/ DrawRefused \/ GetSize
    \/ DrawHits \/ DrawMisses

Search ==
    \/ CheckPath \/ PathMissing \/ OpenIndex \/ NoIndexThere
    \/ \E k \in Key : AnswerFromSQL(k) \/ AnswerFromIndex(k)
    \/ SQLFails \/ Answered

NextReaders ==
    \/ Next /\ UNCHANGED reader
    \/ Request \/ AskDraw
    \/ Search \/ Draw

(***************************************************************************)
(* The searcher goes on with its request, and the builder with its run.    *)
(* A document that can be drawn is drawn in the end.                       *)
(***************************************************************************)
SpecReaders ==
    /\ InitReaders /\ [][NextReaders]_<<vars, reader>>
    /\ WF_<<vars, reader>>(Search) /\ WF_<<vars, reader>>(Draw)
    /\ WF_<<vars, reader>>(DrawHits)
    /\ WF_<<vars, reader>>(Build /\ UNCHANGED reader)

-----------------------------------------------------------------------------

TypeOKReaders ==
    /\ TypeOK
    /\ rpc \in {"idle", "path", "open", "slices", "dpath", "dopen", "dsize", "draw"}
    /\ size \in Nat /\ missed \in BOOLEAN
    /\ snap \subseteq Pub!Document
    /\ answers \subseteq Answer
    /\ ended \in {"none", "refused", "nosql", "answered", "empty", "drawn"}

(***************************************************************************)
(* However the index changes during a request, the slices it answers from  *)
(* the index all see one image: none, or a whole file.                     *)
(***************************************************************************)
OneImagePerRequest ==
    \E image \in {{}} \cup {Pub!Indexed(f) : f \in {g \in Files : Pub!WellFormed(g)}} :
        \A a \in answers : a.by = "index" => a.found = (a.key \in Keys(image))

(***************************************************************************)
(* A searcher is refused the index only while it is being rebuilt, or when *)
(* the last run of the indexer did not succeed.                            *)
(***************************************************************************)
RefusedOnlyWhenRebuilt ==
    [][ended # "refused" /\ ended' = "refused" => outcome # "ok"]_<<vars, reader>>

(***************************************************************************)
(* Every request ends, and every draw from an index that was not empty     *)
(* when it was opened.                                                     *)
(***************************************************************************)
RequestEnds ==
    /\ rpc \in {"path", "open", "slices"} ~> rpc = "idle"
    /\ rpc \in {"dpath", "dopen", "dsize"} ~> rpc \in {"idle", "draw"}
    /\ rpc = "draw" /\ snap # {} ~> rpc = "idle"

(***************************************************************************)
(* "Bad luck: no document ID can be generated so that it corresponds to an *)
(* actual document": the loop that draws gives up after 100 iterations.    *)
(***************************************************************************)
DrawEnds == rpc = "draw" ~> rpc = "idle"
=============================================================================
