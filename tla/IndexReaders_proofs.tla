------------------------ MODULE IndexReaders_proofs ------------------------
(***************************************************************************)
(* Proofs about IndexBuilder, for every set of POR files, every type of    *)
(* SQL database and every number of runs, and then about IndexReaders:     *)
(* what a searcher sees of an index that is rebuilt meanwhile, for every   *)
(* number of runs of the indexer and of slices.  The latter rest on the    *)
(* invariants of the builder, which the steps of the searcher leave alone. *)
(***************************************************************************)
EXTENDS IndexReaders, FiniteSetTheorems, TLAPS

(***************************************************************************)
(* The documents the transaction must hold once the first k lines of f     *)
(* have been read, and the lines that let the builder get that far.        *)
(***************************************************************************)
IndexedUpTo(f, k) ==
    {[line |-> i, key |-> f[i].key, about |-> {f[i].key}] :
        i \in {j \in Pub!PorLines(f) : j <= k}}

ReadableUpTo(f, k) == \A i \in DOMAIN f : i <= k => f[i].form # "malformed"

InTransaction == {"connect", "porfile", "lines", "insert", "commit"}

(***************************************************************************)
(* What holds of the index at each step of a run.                          *)
(***************************************************************************)
IndexInv ==
    /\ dir # "database" => docs = {}
    /\ pc \notin InTransaction => pending = {} /\ ~ inTxn
    /\ pc = "mkdir" => dir = "absent"
    /\ pc = "open" => dir = "bare"
    /\ pc \in {"begin"} \cup InTransaction => dir = "database" /\ docs = {}
    /\ pc \in InTransaction => inTxn
    /\ pc = "close" => dir = "database" /\ docs = Pub!Indexed(file)

(***************************************************************************)
(* How the transaction advances along the file.                            *)
(***************************************************************************)
ReadingInv ==
    /\ pc # "idle" => file \in Files
    /\ pc \notin {"idle", "lines", "insert", "commit", "close"} => line = 1
    /\ pc \notin {"idle", "insert"} => place = {}
    /\ pc \in {"connect", "porfile"} => pending = {}
    /\ pc = "lines" =>
        /\ line <= Len(file) + 1
        /\ ReadableUpTo(file, line - 1)
        /\ pending = IndexedUpTo(file, line - 1)
    /\ pc = "insert" =>
        /\ line \in Pub!PorLines(file)
        /\ ReadableUpTo(file, line)
        /\ pending = IndexedUpTo(file, line)
    /\ pc \in {"commit", "close"} => Pub!WellFormed(file)
    /\ pc = "commit" => pending = Pub!Indexed(file)

Inv == TypeOK /\ IndexInv /\ ReadingInv /\ CommittedWhole

LEMMA FileLines ==
    ASSUME NEW f \in Files
    PROVE  /\ DOMAIN f = 1..Len(f) /\ Len(f) \in Nat
           /\ \A i \in DOMAIN f : f[i].key \in Key
           /\ \A i \in DOMAIN f : f[i].form \in {"por", "unnamed", "malformed"}
  <1>1. f \in Seq(Pub!Line)
    BY IndexBuilderAssumption DEF IndexBuilderAssumption
  <1>2. DOMAIN f = 1..Len(f) /\ Len(f) \in Nat
    BY <1>1
  <1>3. \A i \in DOMAIN f : f[i] \in Pub!Line
    BY <1>1
  <1> QED
    BY <1>2, <1>3 DEF Pub!Line

LEMMA IndexedType ==
    ASSUME NEW f \in Files
    PROVE  Pub!Indexed(f) \subseteq Pub!Document
  BY FileLines DEF Pub!Indexed, Pub!Document, Pub!PorLines

LEMMA IndexedNone ==
    ASSUME NEW f \in Files
    PROVE  IndexedUpTo(f, 0) = {} /\ ReadableUpTo(f, 0)
  BY FileLines DEF IndexedUpTo, ReadableUpTo, Pub!PorLines

(***************************************************************************)
(* A line of a POR adds its document, and any other adds nothing.          *)
(***************************************************************************)
LEMMA IndexedPor ==
    ASSUME NEW f \in Files, NEW i \in Pub!PorLines(f)
    PROVE  IndexedUpTo(f, i) = IndexedUpTo(f, i - 1) \cup
               {[line |-> i, key |-> f[i].key, about |-> {f[i].key}]}
  BY FileLines DEF IndexedUpTo, Pub!PorLines

LEMMA IndexedOther ==
    ASSUME NEW f \in Files, NEW i \in DOMAIN f, f[i].form # "por"
    PROVE  IndexedUpTo(f, i) = IndexedUpTo(f, i - 1)
  BY FileLines DEF IndexedUpTo, Pub!PorLines

LEMMA IndexedAll ==
    ASSUME NEW f \in Files
    PROVE  /\ IndexedUpTo(f, Len(f)) = Pub!Indexed(f)
           /\ ReadableUpTo(f, Len(f)) => Pub!WellFormed(f)
  BY FileLines DEF IndexedUpTo, Pub!Indexed, Pub!PorLines, ReadableUpTo, Pub!WellFormed

LEMMA ReadableNext ==
    ASSUME NEW f \in Files, NEW i \in DOMAIN f,
           ReadableUpTo(f, i - 1), f[i].form # "malformed"
    PROVE  ReadableUpTo(f, i)
  BY FileLines DEF ReadableUpTo
-----------------------------------------------------------------------------

LEMMA InitInv == Init => Inv
<1> SUFFICES ASSUME Init PROVE Inv
  OBVIOUS
<1>1. file \in Files \cup {<<>>}
  BY Zenon DEF Init
<1>2. /\ dir \in {"absent", "bare", "database"}
      /\ outcome \in {"none", "running", "ok", "failed", "killed"}
      /\ pc \in Steps \cup {"idle"}
      /\ line \in Nat \ {0} /\ n \in Nat /\ run \in Nat
  BY DEF Init
<1>3. /\ docs \subseteq Pub!Document /\ pending \subseteq Pub!Document
      /\ place \subseteq Key /\ db \in DBs /\ rows \subseteq Row
  BY DEF Init
<1>4. inTxn \in BOOLEAN /\ session \in BOOLEAN /\ stuck \in BOOLEAN
  BY DEF Init
<1>5. TypeOK
  BY <1>1, <1>2, <1>3, <1>4 DEF TypeOK
<1>6. IndexInv /\ ReadingInv /\ CommittedWhole
  BY DEF Init, IndexInv, ReadingInv, CommittedWhole, InTransaction
<1> QED
  BY <1>5, <1>6 DEF Inv

(***************************************************************************)
(* An exception or a kill leaves the committed documents alone.            *)
(***************************************************************************)
LEMMA ThrowInv ==
    ASSUME Inv, pc # "idle", stuck' \in BOOLEAN, Throw \/ Kill
    PROVE  Inv'
<1>1. /\ pc' = "idle" /\ outcome' \in {"failed", "killed"}
      /\ pending' = {} /\ inTxn' = FALSE /\ session' = FALSE
      /\ UNCHANGED <<dir, docs, file, line, place, n, db, rows, run>>
  BY DEF Throw, Kill, reading
<1>2. TypeOK'
  BY <1>1 DEF Inv, TypeOK
<1>3. IndexInv' /\ ReadingInv'
  BY <1>1 DEF Inv, IndexInv, ReadingInv, InTransaction
<1>4. CommittedWhole'
  BY <1>1 DEF Inv, CommittedWhole
<1> QED
  BY <1>2, <1>3, <1>4 DEF Inv

LEMMA EndLineInv ==
    ASSUME Inv, pc = "insert", EndLine,
           UNCHANGED <<index, db, session, run, outcome>>, rows' \subseteq Row,
           stuck' \in BOOLEAN
    PROVE  Inv'
<1> USE DEF index
<1>1. file \in Files /\ line \in DOMAIN file
  BY DEF Inv, ReadingInv, Pub!PorLines
<1>2. line \in 1..Len(file) /\ Len(file) \in Nat
  BY <1>1, FileLines
<1>3. line' <= Len(file') + 1 /\ line' - 1 = line
  BY <1>2 DEF EndLine
<1>4. TypeOK'
  BY <1>2 DEF Inv, TypeOK, EndLine, Steps
<1>5. IndexInv'
  BY DEF Inv, IndexInv, EndLine, InTransaction
<1>6. ReadingInv'
  BY <1>1, <1>3 DEF Inv, ReadingInv, EndLine
<1>7. CommittedWhole'
  BY DEF Inv, CommittedWhole, EndLine
<1> QED
  BY <1>4, <1>5, <1>6, <1>7 DEF Inv

LEMMA NextInv == Inv /\ [Next]_vars => Inv'
<1> SUFFICES ASSUME Inv, [Next]_vars PROVE Inv'
  OBVIOUS
<1>1. ASSUME NEW f \in Files, Start(f) PROVE Inv'
  BY <1>1 DEF Start, Inv, TypeOK, IndexInv, ReadingInv, CommittedWhole, Steps,
              InTransaction, index, sql
<1>2. CASE RemoveFiles
  BY <1>2 DEF RemoveFiles, Inv, TypeOK, IndexInv, ReadingInv, CommittedWhole,
              Steps, InTransaction, reading, sql
<1>3. CASE RemoveDirectory
  BY <1>3 DEF RemoveDirectory, Inv, TypeOK, IndexInv, ReadingInv,
              CommittedWhole, Steps, InTransaction, reading, sql
<1>4. CASE CreateDirectory
  BY <1>4 DEF CreateDirectory, Inv, TypeOK, IndexInv, ReadingInv,
              CommittedWhole, Steps, InTransaction, reading, sql
<1>5. CASE OpenDatabase
  BY <1>5 DEF OpenDatabase, Inv, TypeOK, IndexInv, ReadingInv, CommittedWhole,
              Steps, InTransaction, reading, sql
<1>6. CASE BeginTransaction
  BY <1>6 DEF BeginTransaction, Inv, TypeOK, IndexInv, ReadingInv,
              CommittedWhole, Steps, InTransaction, reading, sql
<1>7. CASE Connect
  BY <1>7 DEF Connect, Inv, TypeOK, IndexInv, ReadingInv, CommittedWhole,
              Steps, InTransaction, reading, index
<1>8. CASE OpenPorFile
  <2>1. file \in Files /\ line = 1 /\ pending = {}
    BY <1>8 DEF OpenPorFile, Inv, ReadingInv
  <2>2. Len(file) \in Nat /\ IndexedUpTo(file, 0) = {} /\ ReadableUpTo(file, 0)
    BY <2>1, FileLines, IndexedNone
  <2>3. ReadingInv'
    BY <1>8, <2>1, <2>2 DEF OpenPorFile, Inv, ReadingInv, reading, index
  <2> QED
    BY <1>8, <2>3 DEF OpenPorFile, Inv, TypeOK, IndexInv, CommittedWhole,
                Steps, InTransaction, reading, sql, index
<1>9. CASE \/ StorageFails \/ ConnectFails \/ PorFileFails \/ RejectLine
           \/ InsertFails \/ Kill
  BY <1>9, ThrowInv DEF StorageFails, ConnectFails, PorFileFails,
              RejectLine, InsertFails, Kill, AtLine, Inv, TypeOK
<1>10. CASE SkipLine
  <2>1. file \in Files /\ line \in DOMAIN file /\ file[line].form = "unnamed"
    BY <1>10 DEF SkipLine, AtLine, Inv, ReadingInv
  <2>2. line \in 1..Len(file) /\ Len(file) \in Nat
    BY <2>1, FileLines
  <2>3. IndexedUpTo(file, line) = IndexedUpTo(file, line - 1)
    BY <2>1, IndexedOther
  <2>4. ReadableUpTo(file, line)
    BY <1>10, <2>1, ReadableNext DEF SkipLine, AtLine, Inv, ReadingInv
  <2>5. line' <= Len(file') + 1 /\ line' - 1 = line
    BY <1>10, <2>2 DEF SkipLine
  <2>6. ReadingInv'
    BY <1>10, <2>1, <2>3, <2>4, <2>5
       DEF SkipLine, AtLine, Inv, ReadingInv, index
  <2> QED
    BY <1>10, <2>2, <2>6 DEF SkipLine, AtLine, Inv, TypeOK, IndexInv,
              CommittedWhole, Steps, InTransaction, sql, index
<1>11. CASE AddDocument
  <2> DEFINE doc == [line |-> line, key |-> file[line].key,
                     about |-> {file[line].key}]
  <2>1. /\ file \in Files /\ line \in DOMAIN file /\ file[line].form = "por"
        /\ place = {} /\ inTxn
    BY <1>11 DEF AddDocument, AtLine, Inv, ReadingInv, IndexInv, InTransaction
  <2>2. line \in Pub!PorLines(file) /\ file[line].key \in Key
    BY <2>1, FileLines DEF Pub!PorLines
  <2>3. pending' = pending \cup {doc} /\ UNCHANGED docs
    BY <1>11, <2>1 DEF AddDocument
  <2>4. IndexedUpTo(file, line) = IndexedUpTo(file, line - 1) \cup {doc}
    BY <2>1, <2>2, IndexedPor
  <2>5. ReadableUpTo(file, line)
    BY <1>11, <2>1, ReadableNext DEF AddDocument, AtLine, Inv, ReadingInv
  <2>6. doc \in Pub!Document
    BY <2>1, <2>2 DEF Pub!Document, Inv, TypeOK
  <2>7. TypeOK'
    BY <1>11, <2>2, <2>3, <2>6 DEF AddDocument, Inv, TypeOK, Steps, sql
  <2>8. ReadingInv'
    BY <1>11, <2>1, <2>2, <2>3, <2>4, <2>5
       DEF AddDocument, AtLine, Inv, ReadingInv
  <2> QED
    BY <1>11, <2>3, <2>7, <2>8 DEF AddDocument, AtLine, Inv, IndexInv,
              CommittedWhole, InTransaction
<1>12. CASE WithoutSQL
  BY <1>12, EndLineInv DEF WithoutSQL, Inv, TypeOK, index, sql
<1>13. CASE InsertPlace
  <2>1. file \in Files /\ line \in DOMAIN file
    BY <1>13 DEF InsertPlace, Inv, ReadingInv, Pub!PorLines
  <2>2. rows' \subseteq Row
    BY <1>13, <2>1, FileLines DEF InsertPlace, Inv, TypeOK, Row
  <2> QED
    BY <1>13, <2>2, EndLineInv DEF InsertPlace, Inv, TypeOK, index
<1>14. CASE EndOfFile
  <2>1. /\ file \in Files /\ line \in Nat \ {0} /\ line <= Len(file) + 1
        /\ line \notin DOMAIN file
    BY <1>14 DEF EndOfFile, Inv, TypeOK, ReadingInv
  <2>2. line - 1 = Len(file)
    BY <2>1, FileLines
  <2>3. pending = Pub!Indexed(file) /\ Pub!WellFormed(file)
    BY <1>14, <2>1, <2>2, IndexedAll DEF EndOfFile, Inv, ReadingInv
  <2> QED
    BY <1>14, <2>3 DEF EndOfFile, Inv, TypeOK, IndexInv, ReadingInv,
              CommittedWhole, Steps, InTransaction, index, reading, sql,
              Pub!WellFormed, Pub!Indexed, Pub!PorLines
<1>15. CASE Commit
  <2>1. /\ file \in Files /\ Pub!WellFormed(file) /\ docs' = Pub!Indexed(file)
        /\ dir = "database"
    BY <1>15 DEF Commit, Inv, IndexInv, ReadingInv, InTransaction
  <2>2. CommittedWhole'
    BY <2>1 DEF CommittedWhole
  <2> QED
    BY <1>15, <2>1, <2>2, IndexedType DEF Commit, Inv, TypeOK, IndexInv,
              ReadingInv, Steps, InTransaction, reading, sql,
              Pub!WellFormed, Pub!Indexed, Pub!PorLines
<1>16. CASE Close
  BY <1>16 DEF Close, Inv, TypeOK, IndexInv, ReadingInv, CommittedWhole,
              Steps, InTransaction, index, reading
<1>17. CASE Exit \/ CreateTables
  <2>1. /\ UNCHANGED <<dir, docs, pending, inTxn, pc, file, line, place, n,
                       db, session, run>>
        /\ stuck' \in BOOLEAN /\ rows' \subseteq Row
        /\ outcome' \in {outcome, "none"} /\ pc = "idle"
    BY <1>17 DEF Exit, CreateTables, Inv, TypeOK, index, reading
  <2>2. TypeOK'
    BY <2>1 DEF Inv, TypeOK
  <2>3. IndexInv' /\ ReadingInv'
    BY <2>1 DEF Inv, IndexInv, ReadingInv, InTransaction
  <2>4. CommittedWhole'
    BY <2>1 DEF Inv, CommittedWhole
  <2> QED
    BY <2>2, <2>3, <2>4 DEF Inv
<1>18. CASE UNCHANGED vars
  BY <1>18 DEF vars, index, reading, sql, Inv, TypeOK, IndexInv, ReadingInv,
              CommittedWhole, Steps, InTransaction
<1> QED
  BY <1>1, <1>2, <1>3, <1>4, <1>5, <1>6, <1>7, <1>8, <1>9, <1>10, <1>11,
     <1>12, <1>13, <1>14, <1>15, <1>16, <1>17, <1>18 DEF Next, Build

LEMMA Invariance == Spec => []Inv
  BY InitInv, NextInv, PTL DEF Spec

(***************************************************************************)
(* Every state the builder reaches is well typed.                          *)
(***************************************************************************)
THEOREM TypeCorrect == Spec => []TypeOK
  BY Invariance, PTL DEF Inv

(***************************************************************************)
(* The index that can be opened is empty or the whole image of one file.   *)
(***************************************************************************)
THEOREM CommittedWholeAlways == Spec => []CommittedWhole
  BY Invariance, PTL DEF Inv

(***************************************************************************)
(* No document is ever indexed by the terms of the POR of another line.    *)
(***************************************************************************)
THEOREM OwnTermsAlways == Spec => []OwnTerms
<1>1. Inv => OwnTerms
  <2> SUFFICES ASSUME Inv PROVE OwnTerms
    OBVIOUS
  <2>1. \A d \in docs : d.about = {d.key}
    BY DEF Inv, IndexInv, CommittedWhole, Pub!Indexed
  <2>2. pending = {} \/ pending = Pub!Indexed(file)
        \/ \E k \in Nat : pending = IndexedUpTo(file, k)
    <3>1. line \in Nat /\ line - 1 \in Nat
      BY DEF Inv, TypeOK
    <3> QED
      BY <3>1 DEF Inv, IndexInv, ReadingInv, InTransaction
  <2>3. \A d \in pending : d.about = {d.key}
    BY <2>2 DEF Pub!Indexed, IndexedUpTo
  <2> QED
    BY <2>1, <2>3 DEF OwnTerms
<1> QED
  BY <1>1, Invariance, PTL

(***************************************************************************)
(* The builder implements the index promised to the searchers: whatever    *)
(* fails or is killed, they see an image withdrawn, an empty index created *)
(* or a whole image published, and nothing else.                           *)
(***************************************************************************)
LEMMA StepPublishes == Inv /\ [Next]_vars => [Pub!PubNext]_(Pub!pubVars)
<1> SUFFICES ASSUME Inv, [Next]_vars
             PROVE  \/ Pub!PubNext
                    \/ UNCHANGED <<dir = "database", docs>>
  BY DEF Pub!pubVars
<1>1. CASE RemoveFiles
  BY <1>1 DEF RemoveFiles, Pub!PubNext, Pub!Withdraw
<1>2. CASE RemoveDirectory \/ CreateDirectory
  BY <1>2 DEF RemoveDirectory, CreateDirectory, Inv, IndexInv
<1>3. CASE OpenDatabase
  BY <1>3 DEF OpenDatabase, Inv, IndexInv, Pub!PubNext, Pub!CreateEmpty
<1>4. CASE Commit
  <2>1. /\ file \in Files /\ dir = "database" /\ docs = {}
        /\ Pub!WellFormed(file) /\ pending = Pub!Indexed(file)
    BY <1>4 DEF Commit, Inv, IndexInv, ReadingInv, InTransaction
  <2>2. Pub!Publish(file)
    BY <1>4, <2>1 DEF Commit, Pub!Publish, Pub!WellFormed, Pub!Indexed,
                       Pub!PorLines
  <2> QED
    BY <2>1, <2>2 DEF Pub!PubNext
<1>5. CASE AddDocument
  BY <1>5 DEF AddDocument, AtLine, Inv, IndexInv, InTransaction
<1>6. CASE UNCHANGED <<dir, docs>>
  BY <1>6
<1>7. ASSUME NEW f \in Files, Start(f) PROVE UNCHANGED <<dir, docs>>
  BY <1>7 DEF Start, index
<1>8. CASE \/ StorageFails \/ ConnectFails \/ PorFileFails \/ RejectLine
           \/ InsertFails \/ Kill
  BY <1>8 DEF StorageFails, ConnectFails, PorFileFails, RejectLine,
              InsertFails, Throw, Kill
<1>9. CASE \/ BeginTransaction \/ Connect \/ OpenPorFile \/ SkipLine
           \/ WithoutSQL \/ InsertPlace \/ EndOfFile \/ Close \/ Exit
           \/ CreateTables \/ UNCHANGED vars
  BY <1>9 DEF BeginTransaction, Connect, OpenPorFile, SkipLine, WithoutSQL,
              InsertPlace, EndOfFile, Close, Exit, CreateTables, vars, index
<1> QED
  BY <1>1, <1>2, <1>3, <1>4, <1>5, <1>6, <1>7, <1>8, <1>9 DEF Next, Build

THEOREM Implements == Spec => PublishesWhole
<1>1. Init => Pub!PubInit
  BY DEF Init, Pub!PubInit
<1> QED
  BY <1>1, Invariance, StepPublishes, PTL DEF Spec, PublishesWhole, Pub!PubSpec
-----------------------------------------------------------------------------

(***************************************************************************)
(* How the rows and the count follow the transaction.  A document and a    *)
(* row match when they come from the same line.                            *)
(***************************************************************************)
Match(d, r) == r.run = run /\ r.line = d.line /\ r.key = d.key

MatchAll(image) ==
    /\ \A d \in image : \E r \in rows : Match(d, r)
    /\ \A r \in rows : r.run = run => \E d \in image : Match(d, r)

Inserted == {d \in pending : pc = "insert" => d.line # line}

RowsInv ==
    /\ \A r \in rows : r.run <= run
    /\ db = "nodb" => rows = {}
    /\ db \in UniquePk => \A r1, r2 \in rows : r1.key = r2.key => r1 = r2
    /\ session => db # "nodb"
    /\ pc \in {"porfile", "lines", "insert", "commit", "close"} /\ db # "nodb"
         => session
    /\ pc \notin {"idle", "lines", "insert", "commit", "close"}
         => \A r \in rows : r.run # run
    /\ session /\ pc \in {"lines", "insert", "commit"} => MatchAll(Inserted)
    /\ session /\ pc = "close" => MatchAll(docs)

Image == IF pc = "close" THEN docs ELSE pending

CountInv ==
    /\ pc \notin {"idle", "lines", "insert", "commit", "close"} => n = 0
    /\ pc \in {"lines", "insert", "commit", "close"} => IsFiniteSet(Image)
    /\ pc \in {"lines", "commit", "close"} => n = Cardinality(Image)
    /\ pc = "insert" => n + 1 = Cardinality(Image)

OutcomeInv ==
    /\ pc # "idle" => outcome = "running"
    /\ outcome = "ok" =>
        /\ pc = "idle" /\ dir = "database" /\ n = Cardinality(docs)
        /\ db # "nodb" => \A d \in docs : \E r \in rows : Match(d, r)

SqlInv == RowsInv /\ CountInv /\ OutcomeInv

LEMMA InitSqlInv == Init => SqlInv
<1> SUFFICES ASSUME Init PROVE SqlInv
  OBVIOUS
<1>1. pc = "idle" /\ rows = {} /\ session = FALSE /\ outcome = "none"
  BY DEF Init
<1> QED
  BY <1>1 DEF SqlInv, RowsInv, CountInv, OutcomeInv

LEMMA ThrowSqlInv ==
    ASSUME Inv, SqlInv, pc # "idle", Throw \/ Kill
    PROVE  SqlInv'
<1>1. /\ pc' = "idle" /\ outcome' \in {"failed", "killed"} /\ session' = FALSE
      /\ UNCHANGED <<db, rows, run>>
  BY DEF Throw, Kill
<1>2. RowsInv'
  BY <1>1 DEF SqlInv, RowsInv
<1> QED
  BY <1>1, <1>2 DEF SqlInv, CountInv, OutcomeInv

(***************************************************************************)
(* The document of the line in hand is the only one of this line.          *)
(***************************************************************************)
LEMMA InsertedAtLine ==
    ASSUME Inv, pc = "insert"
    PROVE  /\ line \in DOMAIN file /\ file \in Files
           /\ \A d \in pending : d.line = line <=>
                  d = [line |-> line, key |-> file[line].key,
                       about |-> {file[line].key}]
           /\ \E d \in pending : d.line = line
<1>1. /\ file \in Files /\ line \in Pub!PorLines(file) /\ line \in Nat
      /\ pending = IndexedUpTo(file, line)
  BY DEF Inv, TypeOK, ReadingInv
<1>2. line \in DOMAIN file /\ line <= line
  BY <1>1 DEF Pub!PorLines
<1>3. ASSUME NEW d \in pending, d.line = line
      PROVE  d = [line |-> line, key |-> file[line].key,
                  about |-> {file[line].key}]
  BY <1>1, <1>3 DEF IndexedUpTo
<1>4. [line |-> line, key |-> file[line].key, about |-> {file[line].key}]
        \in pending
  BY <1>1, <1>2 DEF IndexedUpTo
<1> QED
  BY <1>1, <1>2, <1>3, <1>4

LEMMA NextSqlInv == Inv /\ Inv' /\ SqlInv /\ [Next]_vars => SqlInv'
<1> SUFFICES ASSUME Inv, Inv', SqlInv, [Next]_vars PROVE SqlInv'
  OBVIOUS
<1>1. ASSUME NEW f \in Files, Start(f) PROVE SqlInv'
  <2>1. /\ pc = "idle" /\ pc' = "clear" /\ run' = run + 1 /\ run \in Nat
        /\ UNCHANGED <<db, rows, session>> /\ n' = 0 /\ outcome' = "running"
    BY <1>1 DEF Start, sql, Inv, TypeOK
  <2>2. \A r \in rows : r.run \in Nat /\ r.run <= run
    BY DEF Inv, TypeOK, Row, SqlInv, RowsInv
  <2>3. RowsInv'
    BY <2>1, <2>2 DEF SqlInv, RowsInv
  <2> QED
    BY <2>1, <2>3 DEF SqlInv, CountInv, OutcomeInv
<1>2. CASE \/ StorageFails \/ ConnectFails \/ PorFileFails \/ RejectLine
           \/ InsertFails \/ Kill
  BY <1>2, ThrowSqlInv DEF StorageFails, ConnectFails, PorFileFails,
              RejectLine, InsertFails, Kill, AtLine
<1>3. CASE \/ RemoveFiles \/ RemoveDirectory \/ CreateDirectory
           \/ OpenDatabase \/ BeginTransaction \/ Connect
  <2>1. /\ pc \in {"clear", "mkdir", "open", "begin", "connect"}
        /\ pc' \in {"clear", "mkdir", "open", "begin", "connect", "porfile"}
        /\ pc' = "porfile" => session' = (db # "nodb")
        /\ session' \in {session, db # "nodb"}
        /\ UNCHANGED <<db, rows, run, n, outcome>>
    BY <1>3 DEF RemoveFiles, RemoveDirectory, CreateDirectory, OpenDatabase,
                BeginTransaction, Connect, reading, sql
  <2>2. RowsInv'
    BY <2>1 DEF SqlInv, RowsInv
  <2> QED
    BY <2>1, <2>2 DEF SqlInv, CountInv, OutcomeInv
<1>4. CASE OpenPorFile
  <2>1. /\ pc = "porfile" /\ pc' = "lines" /\ pending' = {} /\ n' = 0
        /\ UNCHANGED <<db, rows, run, session, outcome>>
    BY <1>4 DEF OpenPorFile, index, sql, reading, Inv, ReadingInv, SqlInv,
                CountInv
  <2>2. RowsInv'
    BY <2>1 DEF SqlInv, RowsInv, MatchAll, Inserted, Match
  <2>3. CountInv'
    BY <2>1, FS_EmptySet DEF CountInv, Image
  <2> QED
    BY <2>1, <2>2, <2>3 DEF SqlInv, OutcomeInv
<1>5. CASE SkipLine \/ EndOfFile
  <2>1. /\ pc = "lines" /\ pc' \in {"lines", "commit"}
        /\ UNCHANGED <<pending, n, db, rows, run, session, outcome>>
    BY <1>5 DEF SkipLine, EndOfFile, AtLine, index, sql, reading
  <2>2. RowsInv'
    BY <2>1 DEF SqlInv, RowsInv, MatchAll, Inserted, Match
  <2>3. CountInv'
    BY <2>1 DEF SqlInv, CountInv, Image
  <2> QED
    BY <2>1, <2>2, <2>3 DEF SqlInv, OutcomeInv
<1>6. CASE AddDocument
  <2> DEFINE doc == [line |-> line, key |-> file[line].key, about |-> place']
  <2>1. /\ pc = "lines" /\ pc' = "insert" /\ pending' = pending \cup {doc}
        /\ UNCHANGED <<line, n, db, rows, run, session, outcome>>
    BY <1>6 DEF AddDocument, AtLine, sql, Inv, IndexInv, InTransaction
  <2>2. /\ pending = IndexedUpTo(file, line - 1) /\ line \in Nat
    BY <2>1 DEF Inv, TypeOK, ReadingInv
  <2>3. \A d \in pending : d.line \in Nat /\ d.line <= line - 1
    BY <2>2 DEF IndexedUpTo, Inv, TypeOK, Pub!Document
  <2>4. doc \notin pending /\ doc.line = line
    BY <2>2, <2>3
  <2>5. Inserted' = Inserted
    BY <2>1, <2>2, <2>3, <2>4 DEF Inserted
  <2>6. RowsInv'
    BY <2>1, <2>5 DEF SqlInv, RowsInv, MatchAll, Match
  <2>7. CountInv'
    BY <2>1, <2>4, FS_AddElement DEF SqlInv, CountInv, Image
  <2> QED
    BY <2>1, <2>6, <2>7 DEF SqlInv, OutcomeInv
<1>7. CASE WithoutSQL \/ InsertPlace
  <2>1. /\ pc = "insert" /\ pc' = "lines" /\ n' = n + 1
        /\ UNCHANGED <<pending, db, run, session, outcome>>
    BY <1>7 DEF WithoutSQL, InsertPlace, EndLine, index, sql
  <2>2. CountInv'
    BY <2>1 DEF SqlInv, CountInv, Image
  <2>3. RowsInv'
    <3>1. CASE WithoutSQL
      BY <2>1, <3>1 DEF WithoutSQL, sql, SqlInv, RowsInv
    <3>2. CASE InsertPlace
      <4>0. PICK row : row = [run |-> run, line |-> line, key |-> file[line].key]
        OBVIOUS
      <4>1. /\ rows' = rows \cup {row} /\ session /\ ~ Refused
        BY <3>2, <4>0 DEF InsertPlace
      <4>2. PICK doc \in pending : doc.line = line /\ doc.key = file[line].key
        BY <2>1, InsertedAtLine
      <4>3. Inserted' = Inserted \cup {doc}
        BY <2>1, <4>2, InsertedAtLine DEF Inserted
      <4>4. MatchAll(Inserted)
        BY <2>1, <4>1 DEF SqlInv, RowsInv
      <4>5. MatchAll(Inserted)'
        <5>1. Match(doc, row)' /\ UNCHANGED run
          BY <2>1, <4>0, <4>2 DEF Match
        <5>2. ASSUME NEW d \in Inserted, NEW r \in rows, Match(d, r)
              PROVE  Match(d, r)'
          BY <5>1, <5>2 DEF Match
        <5>3. \A d \in Inserted' : \E r \in rows' : Match(d, r)'
          BY <4>1, <4>3, <4>4, <5>1, <5>2 DEF MatchAll
        <5>4. \A r \in rows' : r.run = run' => \E d \in Inserted' : Match(d, r)'
          BY <4>1, <4>3, <4>4, <5>1, <5>2 DEF MatchAll
        <5> QED
          BY <5>3, <5>4 DEF MatchAll
      <4>6. db \in UniquePk => \A r \in rows : r.key # row.key
        BY <4>0, <4>1 DEF Refused
      <4>7. run \in Nat /\ row.run <= run
        BY <4>0 DEF Inv, TypeOK
      <4> QED
        BY <2>1, <4>1, <4>5, <4>6, <4>7 DEF SqlInv, RowsInv
    <3> QED
      BY <1>7, <3>1, <3>2
  <2> QED
    BY <2>1, <2>2, <2>3 DEF SqlInv, OutcomeInv
<1>8. CASE Commit
  <2>1. /\ pc = "commit" /\ pc' = "close" /\ docs' = pending
        /\ UNCHANGED <<n, db, rows, run, session, outcome>>
    BY <1>8 DEF Commit, Inv, IndexInv, InTransaction, reading, sql
  <2>2. RowsInv'
    BY <2>1 DEF SqlInv, RowsInv, MatchAll, Inserted, Match
  <2>3. CountInv'
    BY <2>1 DEF SqlInv, CountInv, Image
  <2> QED
    BY <2>1, <2>2, <2>3 DEF SqlInv, OutcomeInv
<1>9. CASE Close
  <2>1. /\ pc = "close" /\ pc' = "idle" /\ outcome' = "ok" /\ session' = FALSE
        /\ UNCHANGED <<dir, docs, n, db, rows, run>>
    BY <1>9 DEF Close, index, reading
  <2>2. dir = "database" /\ n = Cardinality(docs)
    BY <2>1 DEF Inv, IndexInv, SqlInv, CountInv, Image
  <2>3. db # "nodb" => \A d \in docs : \E r \in rows : Match(d, r)
    BY <2>1 DEF SqlInv, RowsInv, MatchAll
  <2>4. RowsInv'
    BY <2>1 DEF SqlInv, RowsInv
  <2> QED
    BY <2>1, <2>2, <2>3, <2>4 DEF SqlInv, CountInv, OutcomeInv, Match
<1>10. CASE Exit
  <2>1. pc = "idle" /\ UNCHANGED <<dir, docs, pc, n, db, rows, run, session, outcome>>
    BY <1>10 DEF Exit, index, reading
  <2> QED
    BY <2>1 DEF SqlInv, RowsInv, CountInv, OutcomeInv, Match
<1>11. CASE CreateTables
  <2>1. pc = "idle" /\ rows' = {} /\ outcome' = "none"
        /\ UNCHANGED <<pc, db, run, session>>
    BY <1>11 DEF CreateTables
  <2> QED
    BY <2>1 DEF SqlInv, RowsInv, CountInv, OutcomeInv
<1>12. CASE UNCHANGED vars
  BY <1>12 DEF vars, index, reading, sql, SqlInv, RowsInv, CountInv, OutcomeInv,
               Image, MatchAll, Inserted, Match
<1> QED
  BY <1>1, <1>2, <1>3, <1>4, <1>5, <1>6, <1>7, <1>8, <1>9, <1>10, <1>11, <1>12
     DEF Next, Build

LEMMA SqlInvariance == Spec => [](Inv /\ SqlInv)
  BY InitInv, InitSqlInv, NextInv, NextSqlInv, PTL DEF Spec

(***************************************************************************)
(* During a run, and up to the document in hand, the rows committed one by *)
(* one are those of the documents of the uncommitted transaction.          *)
(***************************************************************************)
THEOREM RowsFollow == Spec => []RowsFollowDocuments
<1>1. SqlInv => RowsFollowDocuments
  <2> DEFINE ofDocs == {[line |-> d.line, key |-> d.key] :
                           d \in {e \in pending : pc = "insert" => e.line # line}}
  <2> SUFFICES ASSUME SqlInv, session, pc \in {"lines", "insert", "commit"}
               PROVE  RowsOfRun = ofDocs
    BY DEF RowsFollowDocuments
  <2>1. MatchAll(Inserted)
    BY DEF SqlInv, RowsInv
  <2>2. ASSUME NEW x \in RowsOfRun PROVE x \in ofDocs
    BY <2>1 DEF RowsOfRun, MatchAll, Match, Inserted
  <2>3. ASSUME NEW x \in ofDocs PROVE x \in RowsOfRun
    BY <2>1 DEF RowsOfRun, MatchAll, Match, Inserted
  <2> QED
    BY <2>2, <2>3
<1> QED
  BY <1>1, SqlInvariance, PTL

(***************************************************************************)
(* The count a successful run returns is that of the index, and every      *)
(* document of the index has its row.                                      *)
(***************************************************************************)
THEOREM SuccessMeansAgreement == Spec => []SuccessAgrees
<1>1. SqlInv => SuccessAgrees
  BY DEF SqlInv, OutcomeInv, Match, SuccessAgrees
<1> QED
  BY <1>1, SqlInvariance, PTL

(***************************************************************************)
(* With a unique primary key, a successful run has inserted all the rows   *)
(* of its PORs itself.                                                     *)
(***************************************************************************)
THEOREM SuccessMeansOwnRows == Spec => []SuccessOwnsRows
<1>1. SqlInv => SuccessOwnsRows
  <2> SUFFICES ASSUME SqlInv, outcome = "ok", db \in UniquePk, NEW d \in docs,
                      NEW r \in rows, r.key = d.key
               PROVE  r.run = run
    BY DEF SuccessOwnsRows
  <2>1. db # "nodb"
    BY DEF SqlInv, RowsInv
  <2>2. PICK own \in rows : Match(d, own)
    BY <2>1 DEF SqlInv, OutcomeInv
  <2>3. own = r
    BY <2>2 DEF SqlInv, RowsInv, Match
  <2> QED
    BY <2>2, <2>3 DEF Match
<1> QED
  BY <1>1, SqlInvariance, PTL

-----------------------------------------------------------------------------
(***************************************************************************)
(* The searcher beside the indexer.                                        *)
(***************************************************************************)
Images == {{}} \cup {Pub!Indexed(f) : f \in {g \in Files : Pub!WellFormed(g)}}

(***************************************************************************)
(* The answers so far that came from the index are those of one image.     *)
(***************************************************************************)
AnsweredFrom(image) ==
    \A a \in answers : a.by = "index" => a.found = (a.key \in Keys(image))

(***************************************************************************)
(* The revision a searcher has opened is a whole image, and while slices   *)
(* are left it is the one that the answers came from.  Nothing is answered *)
(* before it is opened.                                                    *)
(***************************************************************************)
ReaderInv ==
    /\ snap \in Images
    /\ rpc \in {"path", "open"} => answers = {}
    /\ rpc = "slices" => AnsweredFrom(snap)
    /\ \E image \in Images : AnsweredFrom(image)

allVars == <<vars, reader>>

BuilderInv == Inv /\ SqlInv

LEMMA BuilderStep == NextReaders => [Next]_vars
  BY DEF NextReaders, Request, AskDraw, Search, Draw, CheckPath, PathMissing,
         OpenIndex, NoIndexThere, AnswerFromSQL, AnswerFromIndex, SQLFails,
         Answered, Give, CheckDrawPath, OpenForDraw, DrawRefused, GetSize,
         DrawHits, DrawMisses, End

LEMMA BuilderInvariance == SpecReaders => [](Inv /\ SqlInv)
<1>1. InitReaders => Inv /\ SqlInv
  BY InitInv, InitSqlInv DEF InitReaders
<1>2. Inv /\ SqlInv /\ [NextReaders]_allVars => (Inv /\ SqlInv)'
  <2> SUFFICES ASSUME Inv, SqlInv, [NextReaders]_allVars PROVE (Inv /\ SqlInv)'
    OBVIOUS
  <2>1. [Next]_vars
    BY BuilderStep DEF allVars
  <2>2. Inv'
    BY <2>1, NextInv
  <2> QED
    BY <2>1, <2>2, NextSqlInv
<1> QED
  BY <1>1, <1>2, PTL DEF SpecReaders, allVars

(***************************************************************************)
(* What can be opened is an image.                                         *)
(***************************************************************************)
LEMMA OpenedImage == Inv /\ dir = "database" => docs \in Images
  BY DEF Inv, CommittedWhole, Images

LEMMA ReaderInit == InitReaders => ReaderInv
<1> SUFFICES ASSUME InitReaders PROVE ReaderInv
  OBVIOUS
<1>1. snap \in Images /\ {} \in Images /\ answers = {}
  BY DEF InitReaders, Images
<1>2. AnsweredFrom({})
  BY <1>1 DEF AnsweredFrom
<1> QED
  BY <1>1, <1>2 DEF ReaderInv, InitReaders

(***************************************************************************)
(* However it ends, a request leaves its answers as they are.              *)
(***************************************************************************)
LEMMA EndKeeps == ASSUME ReaderInv, NEW how, End(how) PROVE ReaderInv'
<1>1. snap' \in Images /\ rpc' = "idle" /\ answers' = answers
  BY DEF End, Images
<1>2. PICK image \in Images : AnsweredFrom(image)
  BY DEF ReaderInv
<1>3. AnsweredFrom(image)'
  BY <1>1, <1>2 DEF AnsweredFrom, Keys
<1>4. Images' = Images
  BY DEF Images
<1> QED
  BY <1>1, <1>2, <1>3, <1>4 DEF ReaderInv

(***************************************************************************)
(* A step that leaves no answer behind, and holds an image.                *)
(***************************************************************************)
LEMMA EmptyKeeps ==
    ASSUME snap' \in Images, answers' = {} PROVE ReaderInv'
<1>1. Images' = Images /\ {} \in Images
  BY DEF Images
<1>2. \A image : AnsweredFrom(image)'
  BY DEF AnsweredFrom
<1> QED
  BY <1>1, <1>2 DEF ReaderInv

(***************************************************************************)
(* One more answer of the opened revision, or of the SQL database.         *)
(***************************************************************************)
LEMMA GiveKeeps ==
    ASSUME ReaderInv, rpc = "slices", NEW k, NEW by, NEW found, Give(k, by, found),
           by = "index" => found = (k \in Keys(snap))
    PROVE  ReaderInv'
<1>1. snap' = snap /\ rpc' = rpc /\ snap \in Images /\ AnsweredFrom(snap)
  BY DEF Give, ReaderInv
<1>2. Images' = Images
  BY DEF Images
<1>3. \A a \in answers' : \/ a \in answers
                          \/ a.key = k /\ a.by = by /\ a.found = found
  BY DEF Give
<1>4. AnsweredFrom(snap)'
  BY <1>1, <1>3 DEF AnsweredFrom, Keys
<1> QED
  BY <1>1, <1>2, <1>4 DEF ReaderInv

LEMMA ReaderStep == Inv /\ ReaderInv /\ [NextReaders]_allVars => ReaderInv'
<1> SUFFICES ASSUME Inv, ReaderInv, [NextReaders]_allVars PROVE ReaderInv'
  OBVIOUS
<1>1. CASE UNCHANGED reader
  <2>1. Images' = Images
    BY DEF Images
  <2>2. \A image : AnsweredFrom(image)' = AnsweredFrom(image)
    BY <1>1 DEF reader, AnsweredFrom, Keys
  <2>3. snap' = snap /\ rpc' = rpc /\ answers' = answers
    BY <1>1 DEF reader
  <2>4. AnsweredFrom(snap)' = AnsweredFrom(snap)
    BY <2>3 DEF AnsweredFrom, Keys
  <2> QED
    BY <2>1, <2>2, <2>3, <2>4 DEF ReaderInv
<1>2. CASE Request \/ AskDraw
  BY <1>2, EmptyKeeps DEF Request, AskDraw, ReaderInv
<1>3. CASE CheckPath
  BY <1>3, EmptyKeeps DEF CheckPath, ReaderInv
<1>4. CASE OpenIndex
  BY <1>4, OpenedImage, EmptyKeeps DEF OpenIndex, ReaderInv
<1>5. CASE PathMissing \/ NoIndexThere \/ SQLFails \/ Answered \/ DrawRefused \/ DrawHits
  BY <1>5, EndKeeps DEF PathMissing, NoIndexThere, SQLFails, Answered, DrawRefused, DrawHits
<1>6. CASE \E k \in Key : AnswerFromSQL(k)
  BY <1>6, GiveKeeps DEF AnswerFromSQL
<1>7. CASE \E k \in Key : AnswerFromIndex(k)
  BY <1>7, GiveKeeps DEF AnswerFromIndex
<1>8. CASE CheckDrawPath \/ OpenForDraw \/ GetSize \/ DrawMisses
  <2>1. ASSUME snap' \in Images, answers' = answers, rpc' \notin {"path", "open", "slices"}
        PROVE  ReaderInv'
    <3>1. PICK image \in Images : AnsweredFrom(image)
      BY DEF ReaderInv
    <3>2. AnsweredFrom(image)'
      BY <2>1, <3>1 DEF AnsweredFrom, Keys
    <3>3. Images' = Images
      BY DEF Images
    <3> QED
      BY <2>1, <3>1, <3>2, <3>3 DEF ReaderInv
  <2>2. snap \in Images
    BY DEF ReaderInv
  <2>3. CASE CheckDrawPath
    BY <2>1, <2>2, <2>3 DEF CheckDrawPath
  <2>4. CASE OpenForDraw
    BY <2>1, <2>4, OpenedImage DEF OpenForDraw
  <2>5. CASE GetSize
    BY <2>1, <2>2, <2>5, EndKeeps DEF GetSize
  <2>6. CASE DrawMisses
    BY <2>1, <2>2, <2>6 DEF DrawMisses
  <2> QED
    BY <1>8, <2>3, <2>4, <2>5, <2>6
<1> QED
  BY <1>1, <1>2, <1>3, <1>4, <1>5, <1>6, <1>7, <1>8
  DEF NextReaders, Search, Draw, allVars

LEMMA ReaderInvariance == SpecReaders => []ReaderInv
<1>1. SpecReaders => [](Inv /\ SqlInv)
  BY BuilderInvariance
<1> QED
  BY <1>1, ReaderInit, ReaderStep, PTL DEF SpecReaders, allVars

(***************************************************************************)
(* The types of the searcher, and the number of its answers.               *)
(***************************************************************************)
ReaderType ==
    /\ rpc \in {"idle", "path", "open", "slices", "dpath", "dopen", "dsize", "draw"}
    /\ size \in Nat /\ missed \in BOOLEAN
    /\ snap \subseteq Pub!Document /\ IsFiniteSet(snap)
    /\ answers \subseteq Answer /\ IsFiniteSet(answers)
    /\ ended \in {"none", "refused", "nosql", "answered", "empty", "drawn"}

LEMMA DocsFinite == Inv /\ dir = "database" => docs \subseteq Pub!Document /\ IsFiniteSet(docs)
<1> SUFFICES ASSUME Inv, dir = "database" PROVE docs \subseteq Pub!Document /\ IsFiniteSet(docs)
  OBVIOUS
<1>1. CASE docs = {}
  BY <1>1, FS_EmptySet
<1>2. CASE \E f \in Files : docs = Pub!Indexed(f)
  <2> PICK f \in Files : docs = Pub!Indexed(f)
    BY <1>2
  <2>1. DOMAIN f = 1..Len(f) /\ Len(f) \in Nat
    BY FileLines
  <2>2. IsFiniteSet(Pub!PorLines(f))
    <3>1. IsFiniteSet(1..Len(f))
      BY <2>1, FS_Interval
    <3>2. Pub!PorLines(f) \subseteq 1..Len(f)
      BY <2>1 DEF Pub!PorLines
    <3> QED
      BY <3>1, <3>2, FS_Subset
  <2>3. IsFiniteSet(docs)
    <3> DEFINE S == Pub!PorLines(f)
               doc == [i \in S |-> [line |-> i, key |-> f[i].key, about |-> {f[i].key}]]
    <3>1. doc \in Surjection(S, docs)
      BY DEF Pub!Indexed, Surjection
    <3> QED
      BY <2>2, <3>1, FS_Surjection
  <2> QED
    BY <2>3 DEF Inv, TypeOK
<1> QED
  BY <1>1, <1>2 DEF Inv, CommittedWhole

LEMMA ReaderTypeInit == InitReaders => ReaderType
<1> SUFFICES ASSUME InitReaders PROVE ReaderType
  OBVIOUS
<1>1. rpc = "idle" /\ snap = {} /\ answers = {} /\ ended = "none"
      /\ size = 0 /\ missed = FALSE
  BY DEF InitReaders
<1>2. IsFiniteSet(snap) /\ IsFiniteSet(answers)
  BY <1>1, FS_EmptySet
<1> QED
  BY <1>1, <1>2 DEF ReaderType

LEMMA ReaderTypeStep == Inv /\ ReaderType /\ [NextReaders]_allVars => ReaderType'
<1> SUFFICES ASSUME Inv, ReaderType, [NextReaders]_allVars PROVE ReaderType'
  OBVIOUS
<1>1. Answer' = Answer /\ Pub!Document' = Pub!Document
  OBVIOUS
<1>2. CASE UNCHANGED reader
  BY <1>2 DEF reader, ReaderType
<1>3. CASE Request \/ AskDraw
  BY <1>3, FS_EmptySet DEF Request, AskDraw, draw, ReaderType
<1>4. CASE CheckPath \/ CheckDrawPath
  BY <1>4 DEF CheckPath, CheckDrawPath, draw, ReaderType
<1>5. CASE OpenIndex \/ OpenForDraw
  BY <1>5, DocsFinite DEF OpenIndex, OpenForDraw, draw, ReaderType
<1>6. ASSUME NEW how \in {"refused", "nosql", "answered", "empty", "drawn"}, End(how)
      PROVE  ReaderType'
  BY <1>6, FS_EmptySet DEF End, ReaderType
<1>7. CASE PathMissing \/ NoIndexThere \/ SQLFails \/ Answered \/ DrawRefused \/ DrawHits
  BY <1>6, <1>7 DEF PathMissing, NoIndexThere, SQLFails, Answered, DrawRefused, DrawHits
<1>8. ASSUME NEW k \in Key, AnswerFromSQL(k) \/ AnswerFromIndex(k) PROVE ReaderType'
  <2>1. NextSlice <= Slices /\ Cardinality(answers) \in Nat
    BY <1>8, FS_CardinalityType DEF AnswerFromSQL, AnswerFromIndex, ReaderType
  <2>2. NextSlice \in 1..Slices
    BY <2>1, SlicesAssumption DEF NextSlice
  <2>3. PICK by \in {"sql", "index"}, found \in BOOLEAN : Give(k, by, found)
    <3>1. CASE AnswerFromSQL(k)
      BY <3>1 DEF AnswerFromSQL
    <3>2. CASE AnswerFromIndex(k)
      <4>1. Give(k, "index", k \in Keys(snap)) /\ (k \in Keys(snap)) \in BOOLEAN
        BY <3>2 DEF AnswerFromIndex
      <4> QED
        BY <4>1
    <3> QED
      BY <1>8, <3>1, <3>2
  <2>4. [key |-> k, by |-> by, found |-> found, slice |-> NextSlice] \in Answer
    BY <2>2 DEF Answer
  <2>5. IsFiniteSet(answers')
    BY <2>3, FS_AddElement DEF Give, ReaderType
  <2> QED
    BY <2>3, <2>4, <2>5 DEF Give, draw, ReaderType
<1>9. CASE GetSize
  <2>1. Cardinality(docs) \in Nat
    BY <1>9, DocsFinite, FS_CardinalityType DEF GetSize
  <2> QED
    BY <1>6, <1>9, <2>1 DEF GetSize, ReaderType
<1>10. CASE DrawMisses
  BY <1>10 DEF DrawMisses, ReaderType
<1> QED
  BY <1>2, <1>3, <1>4, <1>5, <1>7, <1>8, <1>9, <1>10
  DEF NextReaders, Search, Draw, allVars

(***************************************************************************)
(* Every state a searcher and the builder reach is well typed, and a       *)
(* request has no more answers than slices.                                *)
(***************************************************************************)
THEOREM ReadersTypeCorrect == SpecReaders => []TypeOKReaders
<1>1. SpecReaders => []ReaderType
  <2>1. SpecReaders => [](Inv /\ SqlInv)
    BY BuilderInvariance
  <2> QED
    BY <2>1, ReaderTypeInit, ReaderTypeStep, PTL DEF SpecReaders, allVars
<1>2. Inv /\ ReaderType => TypeOKReaders
  BY DEF Inv, ReaderType, TypeOKReaders
<1> QED
  BY <1>1, <1>2, BuilderInvariance, PTL

(***************************************************************************)
(* However the index is rebuilt, or its building killed, during a request, *)
(* the slices answered from the index all see one image: none, or a whole  *)
(* file.                                                                   *)
(***************************************************************************)
THEOREM OneImage == SpecReaders => []OneImagePerRequest
<1>1. ReaderInv => OneImagePerRequest
  BY DEF ReaderInv, OneImagePerRequest, AnsweredFrom, Images
<1> QED
  BY <1>1, ReaderInvariance, PTL

(***************************************************************************)
(* A searcher is refused the index only while it is being rebuilt, or      *)
(* after a run that did not succeed.                                       *)
(***************************************************************************)
THEOREM RefusedWhenRebuilt == SpecReaders => RefusedOnlyWhenRebuilt
<1>1. Inv /\ SqlInv => SuccessAgrees
  BY DEF SqlInv, OutcomeInv, Match, SuccessAgrees
<1>2. /\ SuccessAgrees /\ [NextReaders]_allVars
      => (ended # "refused" /\ ended' = "refused" => outcome # "ok")
  <2> SUFFICES ASSUME SuccessAgrees, NextReaders, ended # "refused", ended' = "refused"
               PROVE  outcome # "ok"
    BY DEF allVars, reader
  <2>1. PathMissing \/ NoIndexThere \/ DrawRefused
    BY DEF NextReaders, Request, AskDraw, Search, Draw, CheckPath, OpenIndex,
           AnswerFromSQL, AnswerFromIndex, SQLFails, Answered, Give,
           CheckDrawPath, OpenForDraw, GetSize, DrawHits, DrawMisses, End, reader
  <2>2. dir # "database"
    BY <2>1 DEF PathMissing, NoIndexThere, DrawRefused
  <2> QED
    BY <2>2 DEF SuccessAgrees
<1> QED
  BY <1>1, <1>2, BuilderInvariance, PTL DEF SpecReaders, allVars, RefusedOnlyWhenRebuilt

-----------------------------------------------------------------------------
(***************************************************************************)
(* The steps left to a run, at most: two for each line left of the file,   *)
(* and those before and after the lines.                                   *)
(***************************************************************************)
LinesLeft == Len(file) + 1 - line

RunLeft ==
    CASE pc = "clear"   -> 2 * LinesLeft + (IF dir = "database" THEN 11 ELSE 10)
      [] pc = "mkdir"   -> 2 * LinesLeft + 9
      [] pc = "open"    -> 2 * LinesLeft + 8
      [] pc = "begin"   -> 2 * LinesLeft + 7
      [] pc = "connect" -> 2 * LinesLeft + 6
      [] pc = "porfile" -> 2 * LinesLeft + 5
      [] pc = "lines"   -> 2 * LinesLeft + 4
      [] pc = "insert"  -> 2 * LinesLeft + 3
      [] pc = "commit"  -> 2
      [] pc = "close"   -> 1
      [] OTHER          -> 0

LEMMA LinesCounted ==
  ASSUME Inv, pc \notin {"idle", "commit", "close"}
  PROVE  /\ Len(file) \in Nat /\ line \in Nat \ {0} /\ LinesLeft \in Nat
         /\ pc = "insert" => LinesLeft > 0
         /\ \A i \in DOMAIN file : i <= Len(file)
<1>1. file \in Files /\ line \in Nat \ {0}
  BY DEF Inv, TypeOK, ReadingInv
<1>2. DOMAIN file = 1..Len(file) /\ Len(file) \in Nat
  BY <1>1, FileLines
<1>3. pc \in Steps \cup {"idle"}
  BY DEF Inv, TypeOK
<1>4. line <= Len(file) + 1 /\ (pc = "insert" => line <= Len(file))
  <2>1. CASE pc = "lines"
    BY <2>1 DEF Inv, ReadingInv
  <2>2. CASE pc = "insert"
    BY <1>2, <2>2 DEF Inv, ReadingInv, Pub!PorLines
  <2>3. CASE pc \notin {"lines", "insert"}
    BY <1>2, <2>3 DEF Inv, ReadingInv
  <2> QED BY <2>1, <2>2, <2>3
<1> QED BY <1>1, <1>2, <1>4 DEF LinesLeft

LEMMA RunCounted ==
  ASSUME Inv
  PROVE  RunLeft \in Nat /\ (pc # "idle" => RunLeft > 0)
<1>1. pc \in Steps \cup {"idle"}
  BY DEF Inv, TypeOK
<1>2. CASE pc \in {"idle", "commit", "close"}
  BY <1>2 DEF RunLeft
<1>3. CASE pc \notin {"idle", "commit", "close"}
  <2>1. LinesLeft \in Nat
    BY <1>3, LinesCounted
  <2>2. \E c \in 3..11 : RunLeft = 2 * LinesLeft + c
    BY <1>1, <1>3 DEF RunLeft, Steps
  <2> QED BY <2>1, <2>2
<1> QED BY <1>2, <1>3

LEMMA RunFalls ==
  ASSUME Inv, RunLeft' \in Nat, Next, pc # "idle"
  PROVE  RunLeft' < RunLeft
<1>1. RunLeft \in Nat \ {0}
  BY RunCounted
<1>2. CASE pc' = "idle"
  BY <1>1, <1>2 DEF RunLeft
<1>3. CASE RemoveFiles \/ RemoveDirectory \/ CreateDirectory \/ OpenDatabase \/ BeginTransaction
  <2>1. UNCHANGED <<file, line>>
    BY <1>3 DEF RemoveFiles, RemoveDirectory, CreateDirectory, OpenDatabase, BeginTransaction,
                reading
  <2>2. LinesLeft' = LinesLeft
    BY <2>1 DEF LinesLeft
  <2>3. \/ pc = "clear" /\ pc' = "clear" /\ dir = "database" /\ dir' = "bare"
        \/ pc = "clear" /\ pc' = "mkdir"
        \/ pc = "mkdir" /\ pc' = "open"
        \/ pc = "open" /\ pc' = "begin"
        \/ pc = "begin" /\ pc' = "connect"
    BY <1>3 DEF RemoveFiles, RemoveDirectory, CreateDirectory, OpenDatabase, BeginTransaction
  <2>4. LinesLeft \in Nat
    BY <2>3, LinesCounted
  <2> HIDE DEF LinesLeft
  <2> QED BY <2>2, <2>3, <2>4 DEF RunLeft
<1>4. CASE Connect \/ OpenPorFile \/ AddDocument
  <2>1. UNCHANGED <<file, line>>
    BY <1>4 DEF Connect, OpenPorFile, AddDocument, reading
  <2>2. LinesLeft' = LinesLeft
    BY <2>1 DEF LinesLeft
  <2>3. \/ pc = "connect" /\ pc' = "porfile"
        \/ pc = "porfile" /\ pc' = "lines"
        \/ pc = "lines" /\ pc' = "insert"
    BY <1>4 DEF Connect, OpenPorFile, AddDocument, AtLine
  <2>4. LinesLeft \in Nat
    BY <2>3, LinesCounted
  <2> HIDE DEF LinesLeft
  <2> QED BY <2>2, <2>3, <2>4 DEF RunLeft
<1>5. CASE SkipLine \/ WithoutSQL \/ InsertPlace
  <2>1. /\ pc \in {"lines", "insert"} /\ pc' = "lines"
        /\ file' = file /\ line' = line + 1
    BY <1>5 DEF SkipLine, WithoutSQL, InsertPlace, AtLine, EndLine
  <2>2. LinesLeft \in Nat /\ LinesLeft' = LinesLeft - 1
    <3>1. Len(file) \in Nat /\ line \in Nat /\ LinesLeft \in Nat
      BY <2>1, LinesCounted
    <3> QED BY <2>1, <3>1 DEF LinesLeft
  <2> QED BY <2>1, <2>2 DEF RunLeft
<1>6. CASE EndOfFile \/ Commit
  <2>1. \/ pc = "lines" /\ pc' = "commit"
        \/ pc = "commit" /\ pc' = "close"
    BY <1>6 DEF EndOfFile, Commit
  <2>2. pc = "lines" => LinesLeft \in Nat
    BY LinesCounted
  <2> HIDE DEF LinesLeft
  <2> QED BY <2>1, <2>2 DEF RunLeft
<1>7. CASE \/ StorageFails \/ ConnectFails \/ PorFileFails \/ RejectLine \/ InsertFails
           \/ Close \/ Kill
  <2>1. pc' = "idle"
    BY <1>7 DEF StorageFails, ConnectFails, PorFileFails, RejectLine, InsertFails, Close, Kill,
                Throw
  <2> QED BY <1>2, <2>1
<1>8. ~ (\E f \in Files : Start(f)) /\ ~ Exit /\ ~ CreateTables
  BY DEF Start, Exit, CreateTables
<1> QED BY <1>3, <1>4, <1>5, <1>6, <1>7, <1>8 DEF Next, Build

(***************************************************************************)
(* A run never turns in circles: each step taken until it ends, failures   *)
(* and kills included, lowers a natural number, however long the file is.  *)
(* It is what RunEnds rests on, beside the fairness of the builder.        *)
(***************************************************************************)
RunAdvances == [][pc # "idle" => RunLeft' < RunLeft /\ RunLeft' \in Nat]_vars

THEOREM RunNeverCircles == Spec => RunAdvances
<1>1. Inv => RunLeft \in Nat
  BY RunCounted
<1>2. Inv /\ (RunLeft \in Nat)' /\ [Next]_vars
        => [pc # "idle" => RunLeft' < RunLeft /\ RunLeft' \in Nat]_vars
  BY RunFalls
<1> QED BY <1>1, <1>2, Invariance, PTL DEF Spec, RunAdvances

-----------------------------------------------------------------------------
(***************************************************************************)
(* The answers of a request are numbered after its slices, none of which   *)
(* is answered twice.                                                      *)
(***************************************************************************)
Numbered(found) ==
    /\ Cardinality(found) \in 0..Slices
    /\ \A a \in found : a.slice <= Cardinality(found)
    /\ \A a, b \in found : a.slice = b.slice => a = b

LEMMA NoneNumbered == Numbered({}) /\ Cardinality({}) = 0
  BY FS_EmptySet, SlicesAssumption DEF Numbered

LEMMA GivenNumbered ==
  ASSUME ReaderType, Numbered(answers), NEW k \in Key,
         AnswerFromSQL(k) \/ AnswerFromIndex(k)
  PROVE  Numbered(answers') /\ Cardinality(answers') = Cardinality(answers) + 1
<1> DEFINE c == Cardinality(answers)
<1>1. c + 1 <= Slices /\ c \in Nat /\ Slices \in Nat /\ IsFiniteSet(answers)
      /\ \A a \in answers : a.slice \in 1..Slices
  BY SlicesAssumption, FS_CardinalityType
     DEF AnswerFromSQL, AnswerFromIndex, NextSlice, ReaderType, Numbered, Answer
<1>2. PICK new : answers' = answers \cup {new} /\ new.slice = c + 1
  <2>1. PICK by, found : Give(k, by, found)
    BY DEF AnswerFromSQL, AnswerFromIndex
  <2> DEFINE given == [key |-> k, by |-> by, found |-> found, slice |-> NextSlice]
  <2>2. answers' = answers \cup {given} /\ given.slice = c + 1
    BY <2>1 DEF Give, NextSlice
  <2> QED BY <2>2
<1>3. new \notin answers
  BY <1>1, <1>2 DEF Numbered
<1>4. Cardinality(answers') = c + 1
  BY <1>1, <1>2, <1>3, FS_AddElement
<1>5. \A a \in answers : a.slice <= c
  BY DEF Numbered
<1> HIDE DEF c
<1>6. \A a \in answers' : a.slice <= c + 1
  BY <1>1, <1>2, <1>5
<1>7. \A a, b \in answers' : a.slice = b.slice => a = b
  BY <1>1, <1>2, <1>5 DEF Numbered
<1> QED BY <1>1, <1>4, <1>6, <1>7 DEF Numbered, c

LEMMA NumberedStep ==
  ReaderType /\ Numbered(answers) /\ [NextReaders]_allVars => Numbered(answers')
<1> SUFFICES ASSUME ReaderType, Numbered(answers), [NextReaders]_allVars
             PROVE  Numbered(answers')
  OBVIOUS
<1>1. CASE UNCHANGED answers
  BY <1>1
<1>2. CASE answers' = {}
  BY <1>2, NoneNumbered
<1>3. CASE \E k \in Key : AnswerFromSQL(k) \/ AnswerFromIndex(k)
  BY <1>3, GivenNumbered
<1> QED
  BY <1>1, <1>2, <1>3
  DEF NextReaders, Search, Draw, allVars, reader, Request, AskDraw, CheckPath, PathMissing,
      OpenIndex, NoIndexThere, SQLFails, Answered, End, CheckDrawPath, OpenForDraw, DrawRefused,
      GetSize, DrawHits, DrawMisses

LEMMA ReaderTyped == SpecReaders => []ReaderType
<1>1. SpecReaders => [](Inv /\ SqlInv)
  BY BuilderInvariance
<1> QED
  BY <1>1, ReaderTypeInit, ReaderTypeStep, PTL DEF SpecReaders, allVars

(***************************************************************************)
(* A slice is answered once, and the slices before it are answered too.    *)
(***************************************************************************)
THEOREM SlicesAnsweredOnce == SpecReaders => []Numbered(answers)
<1>1. InitReaders => Numbered(answers)
  BY NoneNumbered DEF InitReaders
<1>2. ReaderType /\ Numbered(answers) /\ [NextReaders]_allVars => Numbered(answers)'
  BY NumberedStep
<1> QED BY <1>1, <1>2, ReaderTyped, PTL DEF SpecReaders, allVars

(***************************************************************************)
(* The steps left to a request, or to a draw until it draws, at most.      *)
(***************************************************************************)
Searching == {"path", "open", "slices", "dpath", "dopen", "dsize"}

SearchLeft ==
    CASE rpc = "path"   -> Slices + 3
      [] rpc = "open"   -> Slices + 2
      [] rpc = "slices" -> Slices + 1 - Cardinality(answers)
      [] rpc = "dpath"  -> 3
      [] rpc = "dopen"  -> 2
      [] rpc = "dsize"  -> 1
      [] OTHER          -> 0

LEMMA SearchFalls ==
  ASSUME ReaderType, ReaderInv, Numbered(answers), NextReaders, rpc \in Searching
  PROVE  UNCHANGED reader \/ (SearchLeft' < SearchLeft /\ SearchLeft' \in Nat)
<1>1. Slices \in Nat /\ Cardinality(answers) \in 0..Slices
  BY SlicesAssumption DEF Numbered
<1>2. SearchLeft \in Nat \ {0}
  BY <1>1 DEF SearchLeft, Searching
<1>3. CASE rpc' \in {"idle", "draw"}
  <2>1. SearchLeft' = 0
    BY <1>3 DEF SearchLeft
  <2> QED BY <1>2, <2>1
<1>4. CASE CheckPath \/ CheckDrawPath \/ OpenForDraw
  <2>1. \/ rpc = "path" /\ rpc' = "open"
        \/ rpc = "dpath" /\ rpc' = "dopen"
        \/ rpc = "dopen" /\ rpc' = "dsize"
    BY <1>4 DEF CheckPath, CheckDrawPath, OpenForDraw
  <2> QED BY <1>1, <2>1 DEF SearchLeft
<1>5. CASE OpenIndex
  <2>1. rpc = "open" /\ rpc' = "slices" /\ answers' = {}
    BY <1>5 DEF OpenIndex, ReaderInv
  <2>2. Cardinality(answers') = 0
    BY <2>1, NoneNumbered
  <2> QED BY <1>1, <2>1, <2>2 DEF SearchLeft
<1>6. CASE \E k \in Key : AnswerFromSQL(k) \/ AnswerFromIndex(k)
  <2>1. rpc = "slices" /\ rpc' = "slices"
    BY <1>6 DEF AnswerFromSQL, AnswerFromIndex, Give
  <2>2. Numbered(answers') /\ Cardinality(answers') = Cardinality(answers) + 1
    BY <1>6, GivenNumbered
  <2>3. Cardinality(answers') \in 0..Slices
    BY <2>2 DEF Numbered
  <2> QED BY <1>1, <2>1, <2>2, <2>3 DEF SearchLeft
<1>7. CASE \/ PathMissing \/ NoIndexThere \/ SQLFails \/ Answered \/ DrawRefused \/ GetSize
  BY <1>3, <1>7 DEF PathMissing, NoIndexThere, SQLFails, Answered, DrawRefused, GetSize, End
<1>8. ~ Request /\ ~ AskDraw /\ ~ DrawHits /\ ~ DrawMisses
  BY DEF Request, AskDraw, DrawHits, DrawMisses, Searching
<1> QED BY <1>4, <1>5, <1>6, <1>7, <1>8 DEF NextReaders, Search, Draw

(***************************************************************************)
(* A searcher never turns in circles beside the indexer: each of its own   *)
(* steps, but the draws themselves, lowers a natural number, whatever      *)
(* happens to the index between two of them.  The draws may miss for ever, *)
(* as the finding about DrawEnds says.                                     *)
(***************************************************************************)
SearchAdvances ==
    [][(rpc \in Searching) =>
          UNCHANGED reader \/ (SearchLeft' < SearchLeft /\ SearchLeft' \in Nat)]_allVars

THEOREM SearchNeverCircles == SpecReaders => SearchAdvances
<1>1. ReaderType /\ ReaderInv /\ Numbered(answers) /\ [NextReaders]_allVars
        => [(rpc \in Searching) =>
               UNCHANGED reader \/ (SearchLeft' < SearchLeft /\ SearchLeft' \in Nat)]_allVars
  BY SearchFalls
<1> QED
  BY <1>1, ReaderTyped, ReaderInvariance, SlicesAnsweredOnce, PTL
  DEF SpecReaders, allVars, SearchAdvances
=============================================================================
