---------------------------- MODULE IndexBuilder ----------------------------
(***************************************************************************)
(* The construction of the Xapian index, and of the SQL rows beside it,    *)
(* from a POR file: IndexBuilder::buildSearchIndex(), its two overloads    *)
(* and the calls they make.  A run of the indexer deletes the old index,   *)
(* opens one big Xapian transaction, and, POR after POR, adds a document   *)
(* to the transaction and commits a row of its own to the SQL database.    *)
(* It may throw at several of these steps, and be killed at all of them.   *)
(***************************************************************************)
EXTENDS Naturals, Sequences, FiniteSets

CONSTANTS Key, Files,
          DBs,          \* types of SQL database the service may be given
          UniquePk,     \* those where column pk of ori_por has no duplicate
          MaxRuns       \* bound on the number of runs of the indexer

VARIABLES
    dir,        \* the index directory: "absent", "bare" (no index can be
                \* opened in it), or "database"
    docs,       \* the documents committed to the index
    pending,    \* the documents added within the open transaction
    inTxn,      \* a Xapian transaction is open
    pc,         \* the step the builder is about to take
    file, line, \* the POR file, the next line to read
    place,      \* POR whose terms the term sets of the reused Place hold
    n,          \* oNbOfEntries
    db,         \* type of the SQL database
    rows,       \* the rows committed to table ori_por
    session,    \* a SQL session is open (its pointer is not NULL)
    stuck,      \* a session of this process was left within a transaction
    run,        \* the number of the current or last run
    outcome     \* how the last run ended

Pub == INSTANCE TravelIndex WITH exists <- dir = "database", published <- docs

Row == [run : Nat, line : Nat \ {0}, key : Key]

IndexBuilderAssumption ==
    /\ DBs \subseteq {"nodb", "sqlite", "mysql"}
    /\ UniquePk \subseteq DBs
    /\ "sqlite" \in DBs => "sqlite" \in UniquePk
    /\ MaxRuns \in Nat
    /\ Files \subseteq Seq(Pub!Line)
ASSUME IndexBuilderAssumption

index == <<dir, docs, pending, inTxn>>
reading == <<file, line, place, n>>
sql == <<db, rows, session, stuck>>
vars == <<index, pc, reading, sql, run, outcome>>

Steps == {"clear", "mkdir", "open", "begin", "connect", "porfile", "lines",
          "insert", "commit", "close"}

Init ==
    /\ dir = "absent" /\ docs = {} /\ pending = {} /\ inTxn = FALSE
    /\ pc = "idle"
    /\ file = <<>> /\ line = 1 /\ place = {} /\ n = 0
    /\ db \in DBs /\ rows = {} /\ session = FALSE /\ stuck = FALSE
    /\ run = 0 /\ outcome = "none"

(***************************************************************************)
(* OPENTREP_Service::buildSearchIndex() hands the paths over.  The path of *)
(* the POR file is used only once the former index has been deleted.       *)
(***************************************************************************)
Start(f) ==
    /\ pc = "idle" /\ run < MaxRuns
    /\ pc' = "clear" /\ run' = run + 1 /\ outcome' = "running"
    /\ file' = f /\ line' = 1 /\ place' = {} /\ n' = 0
    /\ UNCHANGED <<index, sql>>

\* mutant of Throw: the exception is swallowed, and the run reports success
ThrowReportingSuccess ==
    /\ pc' = "idle" /\ outcome' = "ok"
    /\ pending' = {} /\ inTxn' = FALSE
    /\ session' = FALSE
    /\ UNCHANGED <<dir, docs, reading, db, rows, run>>

(***************************************************************************)
(* An exception unwinds the builder: the destructor of the writable        *)
(* database cancels the transaction.  The SQL session is never deleted.    *)
(***************************************************************************)
Throw ==
    /\ pc' = "idle" /\ outcome' = "failed"
    /\ pending' = {} /\ inTxn' = FALSE
    /\ session' = FALSE
    /\ UNCHANGED <<dir, docs, reading, db, rows, run>>

(***************************************************************************)
(* remove_all() deletes the files, then the directory.                     *)
(***************************************************************************)
RemoveFiles ==
    /\ pc = "clear" /\ dir = "database"
    /\ dir' = "bare" /\ docs' = {}
    /\ UNCHANGED <<pending, inTxn, pc, reading, sql, run, outcome>>

\* mutant of RemoveDirectory: the former index is not removed
KeepDirectory ==
    /\ pc = "clear"
    /\ pc' = "mkdir"
    /\ UNCHANGED <<index, reading, sql, run, outcome>>

RemoveDirectory ==
    /\ pc = "clear" /\ dir # "database"
    /\ dir' = "absent" /\ pc' = "mkdir"
    /\ UNCHANGED <<docs, pending, inTxn, reading, sql, run, outcome>>

CreateDirectory ==
    /\ pc = "mkdir"
    /\ dir' = (IF dir = "absent" THEN "bare" ELSE dir)
    /\ pc' = "open"
    /\ UNCHANGED <<docs, pending, inTxn, reading, sql, run, outcome>>

(***************************************************************************)
(* DB_CREATE opens the index of the directory, or creates an empty one.    *)
(***************************************************************************)
OpenDatabase ==
    /\ pc = "open"
    /\ dir' = "database" /\ pc' = "begin"
    /\ UNCHANGED <<docs, pending, inTxn, reading, sql, run, outcome>>

\* mutant of BeginTransaction: no call to begin_transaction()
BeginNothing ==
    /\ pc = "begin"
    /\ pc' = "connect"
    /\ UNCHANGED <<index, reading, sql, run, outcome>>

BeginTransaction ==
    /\ pc = "begin"
    /\ inTxn' = TRUE /\ pc' = "connect"
    /\ UNCHANGED <<dir, docs, pending, reading, sql, run, outcome>>

(***************************************************************************)
(* DBManager::initSQLDBSession(): without SQL database the session stays   *)
(* NULL; a missing directory or a refused connection throws.               *)
(***************************************************************************)
Connect ==
    /\ pc = "connect"
    /\ session' = (db # "nodb") /\ pc' = "porfile"
    /\ UNCHANGED <<index, reading, db, rows, stuck, run, outcome>>

ConnectFails ==
    /\ pc = "connect" /\ db # "nodb"
    /\ Throw
    /\ UNCHANGED stuck

(***************************************************************************)
(* The constructor of PORFileHelper: no such file, or unknown extension.   *)
(***************************************************************************)
OpenPorFile ==
    /\ pc = "porfile"
    /\ pc' = "lines"
    /\ UNCHANGED <<index, reading, sql, run, outcome>>

PorFileFails ==
    /\ pc = "porfile"
    /\ Throw
    /\ UNCHANGED stuck

AtLine(form) ==
    /\ pc = "lines" /\ line \in DOMAIN file
    /\ file[line].form = form

(***************************************************************************)
(* The parser throws PorFileParsingException, and nobody catches it.       *)
(***************************************************************************)
RejectLine ==
    /\ AtLine("malformed")
    /\ Throw
    /\ UNCHANGED stuck

\* mutant of SkipLine: the skipped line is read again
SkipNothing ==
    /\ AtLine("unnamed")
    /\ UNCHANGED vars

\* mutant of SkipLine: the counter is incremented outside of the test
CountSkippedLine ==
    /\ AtLine("unnamed")
    /\ line' = line + 1 /\ n' = n + 1
    /\ UNCHANGED <<index, pc, file, place, sql, run, outcome>>

(***************************************************************************)
(* A location still named "NotAvailable": the whole body is skipped.       *)
(***************************************************************************)
SkipLine ==
    /\ AtLine("unnamed")
    /\ line' = line + 1
    /\ UNCHANGED <<index, pc, file, place, n, sql, run, outcome>>

(***************************************************************************)
(* setLocation(), buildIndexSets() and add_document(): buildIndexSets()    *)
(* adds the terms of the POR to those the Place already holds.  Outside a  *)
(* transaction an added document goes to the index itself.                 *)
(***************************************************************************)
AddDocument ==
    /\ AtLine("por")
    /\ place' = place \cup {file[line].key}
    /\ LET doc == [line |-> line, key |-> file[line].key, about |-> place']
       IN  IF inTxn THEN pending' = pending \cup {doc} /\ UNCHANGED docs
                    ELSE docs' = docs \cup {doc} /\ UNCHANGED pending
    /\ pc' = "insert"
    /\ UNCHANGED <<dir, inTxn, file, line, n, sql, run, outcome>>

\* mutant of EndLine: no call to resetIndexSets()
EndLineKeepingSets ==
    /\ n' = n + 1 /\ line' = line + 1
    /\ pc' = "lines"
    /\ UNCHANGED <<place, file>>

(***************************************************************************)
(* The end of the loop body: count, resetMatrix(), resetIndexSets().       *)
(***************************************************************************)
EndLine ==
    /\ n' = n + 1 /\ place' = {} /\ line' = line + 1
    /\ pc' = "lines"
    /\ UNCHANGED <<file>>

WithoutSQL ==
    /\ pc = "insert" /\ ~ session
    /\ EndLine
    /\ UNCHANGED <<index, sql, run, outcome>>

(***************************************************************************)
(* DBManager::insertPlaceInDB(): begin, insert, commit.  No insertion      *)
(* succeeds that meets a row with the same primary key, or a SQLite file   *)
(* that another session, left within its transaction, keeps locked.        *)
(***************************************************************************)
Refused ==
    \/ db \in UniquePk /\ \E r \in rows : r.key = file[line].key
    \/ db = "sqlite" /\ stuck

InsertPlace ==
    /\ pc = "insert" /\ session /\ ~ Refused
    /\ rows' = rows \cup {[run |-> run, line |-> line, key |-> file[line].key]}
    /\ EndLine
    /\ UNCHANGED <<index, db, session, stuck, run, outcome>>

\* mutant of InsertFails: the handler logs the error and goes on
InsertFailureSwallowed ==
    /\ pc = "insert" /\ session
    /\ EndLine
    /\ stuck' = TRUE
    /\ UNCHANGED <<index, db, rows, session, run, outcome>>

(***************************************************************************)
(* Any insertion may fail: it is refused, the connection is lost, the      *)
(* table is not there.  The handler of insertPlaceInDB() rethrows without  *)
(* a roll back: the session, never deleted either, stays within its        *)
(* transaction.                                                            *)
(***************************************************************************)
InsertFails ==
    /\ pc = "insert" /\ session
    /\ Throw
    /\ stuck' = TRUE

EndOfFile ==
    /\ pc = "lines" /\ line \notin DOMAIN file
    /\ pc' = "commit"
    /\ UNCHANGED <<index, reading, sql, run, outcome>>

Commit ==
    /\ pc = "commit"
    /\ docs' = docs \cup pending /\ pending' = {} /\ inTxn' = FALSE
    /\ pc' = "close"
    /\ UNCHANGED <<dir, reading, sql, run, outcome>>

(***************************************************************************)
(* The file system or Xapian refuses: remove_all(), create_directories(),  *)
(* the test of their result, the opening of the index, an addition or the  *)
(* commit of the transaction throw.                                        *)
(***************************************************************************)
StorageFails ==
    /\ pc \in {"clear", "mkdir", "open", "begin", "commit"} \/ AtLine("por")
    /\ Throw
    /\ UNCHANGED stuck

Close ==
    /\ pc = "close"
    /\ pc' = "idle" /\ outcome' = "ok" /\ session' = FALSE
    /\ UNCHANGED <<index, reading, db, rows, stuck, run>>

(***************************************************************************)
(* The process ends, killed within a run or of its own between two: the    *)
(* uncommitted documents are lost, and every session is closed.            *)
(***************************************************************************)
Kill ==
    /\ pc # "idle"
    /\ pc' = "idle" /\ outcome' = "killed"
    /\ pending' = {} /\ inTxn' = FALSE
    /\ session' = FALSE /\ stuck' = FALSE
    /\ UNCHANGED <<dir, docs, reading, db, rows, run>>

Exit ==
    /\ pc = "idle" /\ stuck
    /\ stuck' = FALSE
    /\ UNCHANGED <<index, pc, reading, db, rows, session, run, outcome>>

(***************************************************************************)
(* "create_tables" of opentrep-dbmgr, between two runs: the table is       *)
(* dropped and created anew, unless a transaction still holds it.          *)
(***************************************************************************)
CreateTables ==
    /\ pc = "idle" /\ db # "nodb" /\ ~ stuck /\ rows # {}
    /\ rows' = {} /\ outcome' = "none"
    /\ UNCHANGED <<index, pc, reading, db, session, stuck, run>>

Build ==
    \/ RemoveFiles \/ RemoveDirectory \/ CreateDirectory \/ StorageFails
    \/ OpenDatabase \/ BeginTransaction
    \/ Connect \/ ConnectFails \/ OpenPorFile \/ PorFileFails
    \/ RejectLine \/ SkipLine \/ AddDocument
    \/ WithoutSQL \/ InsertPlace \/ InsertFails
    \/ EndOfFile \/ Commit \/ Close

Next ==
    \/ \E f \in Files : Start(f)
    \/ Build
    \/ Kill \/ Exit \/ CreateTables

Spec == Init /\ [][Next]_vars

-----------------------------------------------------------------------------

TypeOK ==
    /\ dir \in {"absent", "bare", "database"}
    /\ docs \subseteq Pub!Document /\ pending \subseteq Pub!Document
    /\ inTxn \in BOOLEAN
    /\ pc \in Steps \cup {"idle"}
    /\ file \in Files \cup {<<>>} /\ line \in Nat \ {0}
    /\ place \subseteq Key /\ n \in Nat
    /\ db \in DBs /\ rows \subseteq Row /\ session \in BOOLEAN /\ stuck \in BOOLEAN
    /\ run \in Nat
    /\ outcome \in {"none", "running", "ok", "failed", "killed"}

(***************************************************************************)
(* Whatever is interrupted and whenever, the index that can be opened is   *)
(* empty, or holds exactly the PORs of one file the parser accepts whole,  *)
(* each document indexed by the terms of its own POR only.                 *)
(***************************************************************************)
CommittedWhole ==
    dir = "database" =>
        docs = {} \/ \E f \in Files : Pub!WellFormed(f) /\ docs = Pub!Indexed(f)

(***************************************************************************)
(* The Place reused for all the lines carries no term of one POR into the  *)
(* document of another, be it committed or not.                            *)
(***************************************************************************)
OwnTerms == \A d \in docs \cup pending : d.about = {d.key}

(***************************************************************************)
(* The rows of the current run follow the documents of its transaction:    *)
(* with a session every added document but the one in hand has its row.    *)
(***************************************************************************)
RowsOfRun == {[line |-> r.line, key |-> r.key] : r \in {s \in rows : s.run = run}}

RowsFollowDocuments ==
    session /\ pc \in {"lines", "insert", "commit"} =>
        RowsOfRun = {[line |-> d.line, key |-> d.key] :
                        d \in {e \in pending : pc = "insert" => e.line # line}}

(***************************************************************************)
(* After a run that reported success, the count it returned is the number  *)
(* of documents of the index, and each of these has its row in the SQL     *)
(* database, if there is one.                                              *)
(***************************************************************************)
SuccessAgrees ==
    outcome = "ok" =>
        /\ dir = "database"
        /\ n = Cardinality(docs)
        /\ db # "nodb" => \A d \in docs : \E r \in rows :
                                r.run = run /\ r.line = d.line /\ r.key = d.key

(***************************************************************************)
(* With a unique primary key a run succeeds only if no former run left the *)
(* row of one of its PORs behind: all the rows of its PORs are its own.    *)
(***************************************************************************)
SuccessOwnsRows ==
    outcome = "ok" /\ db \in UniquePk =>
        \A d \in docs, r \in rows : r.key = d.key => r.run = run

(***************************************************************************)
(* The promise made to the searchers.                                      *)
(***************************************************************************)
PublishesWhole == Pub!PubSpec

(***************************************************************************)
(* A run ends, one way or another.                                         *)
(***************************************************************************)
RunEnds == pc # "idle" ~> pc = "idle"
=============================================================================
