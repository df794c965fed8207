-------------------------- MODULE DatabaseManager --------------------------
(***************************************************************************)
(* The sessions of opentrep-dbmgr: the commands that create the SQL        *)
(* database, its table ori_por and the indexes of that table, fill it from *)
(* the POR file, and list it.  Each command is a series of SQL statements  *)
(* that take effect one by one.  No exception is caught above DBManager:   *)
(* one of them ends the program, and the next session finds what is left.  *)
(***************************************************************************)
EXTENDS Naturals, Sequences, FiniteSets

CONSTANTS
    Key, Files,     \* as in TravelIndex: a file is a sequence of lines
    Types,          \* types of SQL database the program may be started with
    Strings,        \* connection strings, each of which leads to a database
    Given,          \* for each type, the ones the user may give
    DefaultPath,    \* DEFAULT_OPENTREP_SQLITE_DB_FILEPATH
    Trep,           \* the string that leads to the MySQL database trep_trep
    Admins,         \* those that come with the administrative rights on MySQL
    MaxCommands,    \* bound on the commands ended in a session
    MaxFills        \* bound on the number of times the table is filled

Line == [key : Key, form : {"por", "unnamed", "malformed"}]

DatabaseAssumption ==
    /\ Types \subseteq {"nodb", "sqlite", "mysql"}
    /\ Given \in [Types -> SUBSET Strings]
    /\ DefaultPath \in Strings /\ Trep \in Strings
    /\ Admins \subseteq Strings \ {Trep}
    /\ Files \subseteq Seq(Line)
    /\ MaxCommands \in Nat /\ MaxFills \in Nat
ASSUME DatabaseAssumption

VARIABLES
    type, file,     \* type of the SQL database, POR file
    exists,         \* the strings one can connect with: MySQL databases, or
                    \* SQLite paths within a directory that exists
    table,          \* those whose database holds table ori_por
    rows,           \* the rows of each table
    indexes,        \* the indexes of each table
    conn,           \* connection string held by the service context
    pc, cmd,        \* the step about to be taken, and for which command
    at,             \* the next line of the file, or the next index to create
    n,              \* the number returned by the command
    log,            \* the commands of the session that reported their end,
                    \* "refused" for one that printed an error
    fill            \* the number of the last fill

stores == <<exists, table, rows, indexes>>
session == <<pc, cmd, at, n, log, fill>>
vars == <<type, file, stores, conn, session>>

(***************************************************************************)
(* A row comes from a line of the file; "fill" tells which command         *)
(* inserted it.                                                            *)
(***************************************************************************)
Row == [fill : Nat, line : Nat \ {0}]

PorLines == {i \in DOMAIN file : file[i].form = "por"}

SameKey(r, s) == file[r.line].key = file[s.line].key
HasDuplicates(c) == \E r, s \in rows[c] : r # s /\ SameKey(r, s)

(***************************************************************************)
(* Column pk is the primary key of the table of SQLite; that of MySQL has  *)
(* none, but is given a unique index by create_indexes.                    *)
(***************************************************************************)
IndexNames == {"pk", "iata_code", "iata_date", "icao_code", "geonameid"}

IndexStatements ==
    IF type = "mysql" THEN <<"pk", "iata_code", "iata_date", "icao_code", "geonameid">>
    ELSE <<"iata_code", "iata_date", "icao_code", "geonameid">>
HasUniqueKey(c) == c \in table /\ (type = "sqlite" \/ "pk" \in indexes[c])

Commands == {"create_user", "create_tables", "create_indexes", "fill_from_por_file",
             "list_nb", "list_by"}
Messages == Commands \cup {"reset_connection_string", "refused"}
Steps == {"remove", "mkdir", "grant", "drop database", "create database",
          "drop table", "create table", "create index", "lines", "select"}

Init ==
    /\ type \in Types /\ file \in Files
    /\ exists \in SUBSET Given[type]
    /\ type = "nodb" => exists = {}
    /\ type = "mysql" => Admins \subseteq exists /\ exists \subseteq Admins \cup {Trep}
    /\ table = {} /\ rows = [c \in Strings |-> {}] /\ indexes = [c \in Strings |-> {}]
    /\ conn = DefaultPath
    /\ pc = "off" /\ cmd = "none" /\ at = 1 /\ n = 0 /\ log = <<>> /\ fill = 0

(***************************************************************************)
(* getSQLConnStr(): the default path of SQLite, left as it is for MySQL,   *)
(* is replaced by the default string of MySQL.                             *)
(***************************************************************************)
GetSQLConnStr(c) == IF type = "mysql" /\ c = DefaultPath THEN Trep ELSE c

StartSession(c) ==
    /\ pc = "off"
    /\ pc' = "prompt" /\ conn' = GetSQLConnStr(c)
    /\ UNCHANGED <<type, file, stores, cmd, at, n, log, fill>>

(***************************************************************************)
(* The report of a command, and the prompt again.                          *)
(***************************************************************************)
Report == pc' = "prompt" /\ log' = Append(log, cmd) /\ at' = 1

(***************************************************************************)
(* An exception nobody catches, or the end of the process.                 *)
(***************************************************************************)
EndSession ==
    /\ pc' = "off" /\ conn' = DefaultPath
    /\ cmd' = "none" /\ at' = 1 /\ n' = 0 /\ log' = <<>>
    /\ UNCHANGED <<type, file, stores, fill>>

-----------------------------------------------------------------------------

ReadCommand(c) ==
    /\ pc = "prompt" /\ Len(log) < MaxCommands
    /\ c = "fill_from_por_file" => fill < MaxFills
    /\ fill' = (IF c = "fill_from_por_file" THEN fill + 1 ELSE fill)
    /\ pc' = "connect" /\ cmd' = c /\ at' = 1 /\ n' = 0
    /\ UNCHANGED <<type, file, stores, conn, log>>

(***************************************************************************)
(* setSQLDBConnectString() changes the string, and connects to nothing.    *)
(***************************************************************************)
ResetConnectionString(c) ==
    /\ pc = "prompt" /\ Len(log) < MaxCommands
    /\ conn' = c
    /\ cmd' = "reset_connection_string" /\ log' = Append(log, cmd')
    /\ UNCHANGED <<type, file, stores, pc, at, n, fill>>

FirstStep ==
    CASE cmd = "create_user"        -> "grant"
      [] cmd = "create_tables"      -> "drop table"
      [] cmd = "create_indexes"     -> "create index"
      [] cmd = "fill_from_por_file" -> "lines"
      [] OTHER                      -> "select"

(***************************************************************************)
(* initSQLDBSession().  The directory of a SQLite file must exist; the     *)
(* file itself is created when missing.                                    *)
(***************************************************************************)
Connects == type = "mysql" \/ (type = "sqlite" /\ cmd # "create_user")

Connect ==
    /\ pc = "connect" /\ Connects
    /\ conn \in exists
    /\ pc' = FirstStep
    /\ UNCHANGED <<type, file, stores, conn, cmd, at, n, log, fill>>

\* on SQLite create_user deletes the file without connecting to it
CreateSQLiteFile ==
    /\ pc = "connect" /\ cmd = "create_user" /\ type = "sqlite"
    /\ pc' = "remove"
    /\ UNCHANGED <<type, file, stores, conn, cmd, at, n, log, fill>>

(***************************************************************************)
(* Without a SQL database these two have nothing to do, and report it as   *)
(* done; the other commands assert that there is a session.                *)
(***************************************************************************)
NothingToDo ==
    /\ pc = "connect" /\ type = "nodb"
    /\ cmd \in {"create_user", "fill_from_por_file"}
    /\ Report
    /\ UNCHANGED <<type, file, stores, conn, cmd, n, fill>>

-----------------------------------------------------------------------------
(***************************************************************************)
(* createSQLDBUser().  What a database, or its table, held is gone with    *)
(* it, the indexes included.                                               *)
(***************************************************************************)
Emptied(c) ==
    /\ table' = table \ {c}
    /\ rows' = [rows EXCEPT ![c] = {}]
    /\ indexes' = [indexes EXCEPT ![c] = {}]

RemoveSQLiteFile ==
    /\ pc = "remove"
    /\ Emptied(conn)
    /\ pc' = "mkdir"
    /\ UNCHANGED <<type, file, exists, conn, cmd, at, n, log, fill>>

CreateSQLiteDirectory ==
    /\ pc = "mkdir"
    /\ exists' = exists \cup {conn}
    /\ Report
    /\ UNCHANGED <<type, file, table, rows, indexes, conn, cmd, n, fill>>

GrantRights ==
    /\ pc = "grant" /\ conn \in Admins
    /\ pc' = "drop database"
    /\ UNCHANGED <<type, file, stores, conn, cmd, at, n, log, fill>>

DropDatabase ==
    /\ pc = "drop database"
    /\ exists' = exists \ {Trep} /\ Emptied(Trep)
    /\ pc' = "create database"
    /\ UNCHANGED <<type, file, conn, cmd, at, n, log, fill>>

CreateDatabase ==
    /\ pc = "create database"
    /\ exists' = exists \cup {Trep}
    /\ Report
    /\ UNCHANGED <<type, file, table, rows, indexes, conn, cmd, n, fill>>

\* mutant of StatementRefused: oCreationSuccessful is not reset
StatementRefusedReported ==
    /\ pc \in {"grant", "drop database", "create database"}
    /\ Report
    /\ UNCHANGED <<type, file, stores, conn, cmd, n, fill>>

(***************************************************************************)
(* Here, and only here, the error of a statement is caught: it is printed, *)
(* and the command stops where it is.                                      *)
(***************************************************************************)
StatementRefused ==
    /\ pc \in {"grant", "drop database", "create database"}
    /\ pc' = "prompt" /\ log' = Append(log, "refused") /\ at' = 1
    /\ UNCHANGED <<type, file, stores, conn, cmd, n, fill>>

-----------------------------------------------------------------------------
(***************************************************************************)
(* createSQLDBTables(): "drop table if exists", then "create table".       *)
(***************************************************************************)
DropTable ==
    /\ pc = "drop table"
    /\ Emptied(conn)
    /\ pc' = "create table"
    /\ UNCHANGED <<type, file, exists, conn, cmd, at, n, log, fill>>

CreateTable ==
    /\ pc = "create table"
    /\ table' = table \cup {conn}
    /\ Report
    /\ UNCHANGED <<type, file, exists, rows, indexes, conn, cmd, n, fill>>

AtIndex == pc = "create index" /\ at <= Len(IndexStatements)

\* mutant of CreateIndex: the index on pk is not unique
CreateAnyIndex ==
    /\ AtIndex
    /\ conn \in table /\ IndexStatements[at] \notin indexes[conn]
    /\ indexes' = [indexes EXCEPT ![conn] = @ \cup {IndexStatements[at]}]
    /\ at' = at + 1
    /\ UNCHANGED <<type, file, exists, table, rows, conn, pc, cmd, n, log, fill>>

(***************************************************************************)
(* createSQLDBIndexes(), statement by statement.  None is given a second   *)
(* time, nor the unique one on keys that are not.                          *)
(***************************************************************************)
CanCreateIndex ==
    /\ conn \in table /\ IndexStatements[at] \notin indexes[conn]
    /\ IndexStatements[at] = "pk" => ~ HasDuplicates(conn)

CreateIndex ==
    /\ AtIndex /\ CanCreateIndex
    /\ indexes' = [indexes EXCEPT ![conn] = @ \cup {IndexStatements[at]}]
    /\ at' = at + 1
    /\ UNCHANGED <<type, file, exists, table, rows, conn, pc, cmd, n, log, fill>>

IndexesCreated ==
    /\ pc = "create index" /\ at > Len(IndexStatements)
    /\ Report
    /\ UNCHANGED <<type, file, stores, conn, cmd, n, fill>>

-----------------------------------------------------------------------------
(***************************************************************************)
(* fillInFromPORFile(): each POR is inserted in a transaction of its own.  *)
(***************************************************************************)
AtLine(form) == pc = "lines" /\ at \in DOMAIN file /\ file[at].form = form

\* mutant of SkipLine: the skipped line is read again
SkipNothing == AtLine("unnamed") /\ UNCHANGED vars

SkipLine ==
    /\ AtLine("unnamed")
    /\ at' = at + 1
    /\ UNCHANGED <<type, file, stores, conn, pc, cmd, n, log, fill>>

InHand == [fill |-> fill, line |-> at]

CanInsert ==
    /\ conn \in table
    /\ HasUniqueKey(conn) => \A r \in rows[conn] : ~ SameKey(r, InHand)

\* mutant of InsertPlace: what the database refuses counts as inserted
InsertPlaceUnchecked ==
    /\ AtLine("por")
    /\ rows' = [rows EXCEPT ![conn] = @ \cup {InHand}]
    /\ at' = at + 1 /\ n' = n + 1
    /\ UNCHANGED <<type, file, exists, table, indexes, conn, pc, cmd, log, fill>>

InsertPlace ==
    /\ AtLine("por") /\ CanInsert
    /\ rows' = [rows EXCEPT ![conn] = @ \cup {InHand}]
    /\ at' = at + 1 /\ n' = n + 1
    /\ UNCHANGED <<type, file, exists, table, indexes, conn, pc, cmd, log, fill>>

\* mutant of EndOfFile: the last line is not read
EndOfFileBeforeLast ==
    /\ pc = "lines" /\ at + 1 \notin DOMAIN file
    /\ Report
    /\ UNCHANGED <<type, file, stores, conn, cmd, n, fill>>

EndOfFile ==
    /\ pc = "lines" /\ at \notin DOMAIN file
    /\ Report
    /\ UNCHANGED <<type, file, stores, conn, cmd, n, fill>>

(***************************************************************************)
(* displayCount() for list_nb, getPORBy*() for the listings by code.  The  *)
(* key of a POR stands for its codes as well.                              *)
(***************************************************************************)
Selected == IF cmd = "list_nb" THEN {rows[conn]}
            ELSE {{r \in rows[conn] : file[r.line].key = k} : k \in Key}

Select ==
    /\ pc = "select" /\ conn \in table
    /\ \E selected \in Selected : n' = Cardinality(selected)
    /\ Report
    /\ UNCHANGED <<type, file, stores, conn, cmd, fill>>

-----------------------------------------------------------------------------
(***************************************************************************)
(* An assertion that does not hold, a connection or a statement that       *)
(* cannot succeed, a line the parser rejects: an exception, or the abort,  *)
(* ends the program.                                                       *)
(***************************************************************************)
Impossible ==
    \/ pc = "connect" /\ type = "nodb" /\ cmd \notin {"create_user", "fill_from_por_file"}
    \/ pc = "connect" /\ Connects /\ conn \notin exists
    \/ AtIndex /\ ~ CanCreateIndex
    \/ AtLine("malformed")
    \/ AtLine("por") /\ ~ CanInsert
    \/ pc = "select" /\ conn \notin table

Throw == Impossible /\ EndSession

(***************************************************************************)
(* The end of the program at any other step: "quit", a kill, no POR file,  *)
(* or a file system or a database that fails.                              *)
(***************************************************************************)
Stop == pc # "off" /\ EndSession

Work ==
    \/ Connect \/ CreateSQLiteFile \/ NothingToDo
    \/ RemoveSQLiteFile \/ CreateSQLiteDirectory
    \/ GrantRights \/ DropDatabase \/ CreateDatabase \/ StatementRefused
    \/ DropTable \/ CreateTable \/ CreateIndex \/ IndexesCreated
    \/ SkipLine \/ InsertPlace \/ EndOfFile \/ Select
    \/ Throw

Next ==
    \/ \E c \in Given[type] : StartSession(c) \/ ResetConnectionString(c)
    \/ \E c \in Commands : ReadCommand(c)
    \/ Work
    \/ Stop

Spec == Init /\ [][Next]_vars

(***************************************************************************)
(* A command is one thread: it goes on, whether its statements succeed or  *)
(* not.                                                                    *)
(***************************************************************************)
FairSpec == Spec /\ WF_vars(Work)

-----------------------------------------------------------------------------

StoresOK ==
    /\ exists \subseteq Strings /\ table \subseteq Strings
    /\ rows \in [Strings -> SUBSET Row]
    /\ indexes \in [Strings -> SUBSET IndexNames]
    /\ \A c \in Strings \ table : rows[c] = {} /\ indexes[c] = {}

SessionOK ==
    /\ conn \in Strings
    /\ pc \in Steps \cup {"off", "prompt", "connect"}
    /\ cmd \in Commands \cup {"none", "reset_connection_string"}
    /\ at \in Nat \ {0} /\ n \in Nat /\ fill \in Nat
    /\ log \in Seq(Messages)

TypeOK == type \in Types /\ file \in Files /\ StoresOK /\ SessionOK

(***************************************************************************)
(* "Check how far the indexation went by executing" list_nb, says the help *)
(* of the program about a fill that was interrupted.  With a unique key on *)
(* the table, whatever was filled, interrupted and filled again before, in *)
(* whatever order with the indexes, the rows are the first PORs of the     *)
(* file, each once: their number tells how far.                            *)
(***************************************************************************)
Lines(c) == {r.line : r \in rows[c]}

FirstPors(c) ==
    /\ \E k \in 0..Len(file) : Lines(c) = PorLines \cap 1..k
    /\ \A r, s \in rows[c] : r.line = s.line => r = s

ProgressIsCounted == \A c \in Strings : HasUniqueKey(c) => FirstPors(c)

(***************************************************************************)
(* The commands of the "tutorial", reported one after the other, leave the *)
(* whole file in the database, under unique keys, with all the indexes;    *)
(* and the fill has told the number of the PORs.                           *)
(***************************************************************************)
EndsWith(commands) ==
    /\ pc = "prompt" /\ Len(log) >= Len(commands)
    /\ SubSeq(log, Len(log) + 1 - Len(commands), Len(log)) = commands

Created == <<"create_tables", "fill_from_por_file">>
Tutorial == Created \o <<"create_indexes">>

TutorialCompletes ==
    /\ EndsWith(Created) => n = Cardinality(PorLines) /\ n = Cardinality(rows[conn])
    /\ EndsWith(Tutorial) =>
          /\ Lines(conn) = PorLines /\ ~ HasDuplicates(conn)
          /\ \A i \in DOMAIN IndexStatements : IndexStatements[i] \in indexes[conn]

(***************************************************************************)
(* When create_user reports the creation of a database, that database is   *)
(* there, and empty, however many of the statements were refused before.   *)
(***************************************************************************)
Target == IF type = "mysql" THEN Trep ELSE conn

CreatedAnew ==
    type # "nodb" /\ EndsWith(<<"create_user">>) => Target \in exists \ table

(***************************************************************************)
(* A command comes to an end: the prompt, or the end of the program.       *)
(***************************************************************************)
CommandEnds == pc \notin {"off", "prompt"} ~> pc \in {"off", "prompt"}

-----------------------------------------------------------------------------
(***************************************************************************)
(* The comments of createSQLDBUser() say that it "has no effect on other   *)
(* database types" than MySQL.                                             *)
(***************************************************************************)
NoEffectOnOthers == [][type # "mysql" /\ cmd = "create_user" => UNCHANGED rows]_vars
=============================================================================
