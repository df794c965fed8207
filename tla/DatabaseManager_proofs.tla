----------------------- MODULE DatabaseManager_proofs -----------------------
(***************************************************************************)
(* Proofs about DatabaseManager, for any strings, files and bounds: its    *)
(* types, what the rows of a table with a unique key are, and what         *)
(* create_user leaves when it reports a success.                           *)
(***************************************************************************)
EXTENDS DatabaseManager, FiniteSetTheorems, SequenceTheorems, TLAPS

(***************************************************************************)
(* The command in hand is one of those that take several steps; no line is *)
(* read, nor statement executed, before the connection; and the rows can   *)
(* be counted.                                                             *)
(***************************************************************************)
Busy == pc \in Steps \cup {"connect"}
CommandInv ==
    /\ Busy => cmd \in Commands
    /\ pc \in {"off", "prompt", "connect"} => at = 1
    /\ pc = "lines" => cmd = "fill_from_por_file"
FiniteRows == \A c \in Strings : IsFiniteSet(rows[c])

TypeInv == TypeOK /\ CommandInv /\ FiniteRows

\* every statement of createSQLDBIndexes() names an index
LEMMA IndexStatementsNamed ==
  \A i \in Nat \ {0} : i <= Len(IndexStatements) => IndexStatements[i] \in IndexNames
BY DEF IndexStatements, IndexNames

LEMMA TypeInit == Init => TypeInv
BY DatabaseAssumption, FS_EmptySet
DEF Init, TypeInv, TypeOK, StoresOK, SessionOK, CommandInv, FiniteRows, Busy, Steps, Commands,
    Messages, DatabaseAssumption

\* what a database loses leaves the others, and the types, as they are
LEMMA EmptiedOK ==
  ASSUME TypeInv, NEW c \in Strings, Emptied(c), exists' \subseteq Strings
  PROVE  StoresOK' /\ FiniteRows'
BY FS_EmptySet DEF TypeInv, TypeOK, StoresOK, FiniteRows, Emptied

LEMMA ReportOK ==
  ASSUME TypeInv, Busy, Report, UNCHANGED <<conn, cmd, fill>>, n' \in Nat
  PROVE  SessionOK' /\ CommandInv'
<1>1. Append(log, cmd) \in Seq(Messages)
  BY DEF TypeInv, TypeOK, SessionOK, CommandInv, Messages
<1>2. log' \in Seq(Messages) /\ pc' = "prompt" /\ at' = 1
  BY <1>1 DEF Report
<1>3. SessionOK'
  BY <1>2 DEF TypeInv, TypeOK, SessionOK
<1>4. CommandInv'
  BY <1>2 DEF CommandInv, Busy, Steps
<1> QED BY <1>3, <1>4

\* the types of the stores, over the steps that leave them alone
LEMMA StoresKept ==
  ASSUME TypeInv, UNCHANGED stores
  PROVE  StoresOK' /\ FiniteRows'
BY DEF TypeInv, TypeOK, StoresOK, FiniteRows, stores

\* the types of the session, over the steps from one statement to another
LEMMA SessionKept ==
  ASSUME TypeInv, Busy, UNCHANGED <<conn, cmd, fill, log>>, n' \in Nat, at' \in Nat \ {0},
         pc' \in Steps, pc' = "lines" => cmd = "fill_from_por_file"
  PROVE  SessionOK' /\ CommandInv'
BY DEF TypeInv, TypeOK, SessionOK, CommandInv, Busy, Steps

LEMMA TypeStep == TypeInv /\ [Next]_vars => TypeInv'
<1> SUFFICES ASSUME TypeInv, [Next]_vars PROVE TypeInv'
  OBVIOUS
<1> USE DatabaseAssumption DEF TypeInv, TypeOK, DatabaseAssumption
<1> USE StoresKept, SessionKept, ReportOK
<1>1. ASSUME NEW c \in Given[type], StartSession(c) PROVE TypeInv'
  BY <1>1 DEF StartSession, GetSQLConnStr, SessionOK, CommandInv, Busy, Steps
<1>2. ASSUME NEW c \in Given[type], ResetConnectionString(c) PROVE TypeInv'
  <2>1. Append(log, "reset_connection_string") \in Seq(Messages)
    BY DEF SessionOK, Messages
  <2>2. StoresOK' /\ FiniteRows'
    BY <1>2 DEF ResetConnectionString
  <2> QED BY <1>2, <2>1, <2>2 DEF ResetConnectionString, SessionOK, CommandInv, Busy, Steps
<1>3. ASSUME NEW c \in Commands, ReadCommand(c) PROVE TypeInv'
  BY <1>3 DEF ReadCommand, SessionOK, CommandInv, Busy, Steps
<1>4. CASE Connect
  <2>1. FirstStep \in Steps /\ (FirstStep = "lines" => cmd = "fill_from_por_file")
    BY DEF FirstStep, Steps
  <2> QED BY <1>4, <2>1 DEF Connect, SessionOK, Busy
<1>5. CASE CreateSQLiteFile
  BY <1>5 DEF CreateSQLiteFile, SessionOK, Busy, Steps
<1>6. CASE NothingToDo
  BY <1>6 DEF NothingToDo, SessionOK, Busy
<1>7. CASE RemoveSQLiteFile
  <2>1. StoresOK' /\ FiniteRows'
    BY <1>7, EmptiedOK DEF RemoveSQLiteFile, StoresOK, SessionOK
  <2> QED BY <1>7, <2>1 DEF RemoveSQLiteFile, SessionOK, Busy, Steps
<1>8. CASE CreateSQLiteDirectory
  <2>1. StoresOK' /\ FiniteRows'
    BY <1>8 DEF CreateSQLiteDirectory, StoresOK, SessionOK, FiniteRows
  <2> QED BY <1>8, <2>1 DEF CreateSQLiteDirectory, SessionOK, Busy, Steps
<1>9. CASE GrantRights
  BY <1>9 DEF GrantRights, SessionOK, Busy, Steps
<1>10. CASE DropDatabase
  <2>1. StoresOK' /\ FiniteRows'
    BY <1>10, EmptiedOK DEF DropDatabase, StoresOK
  <2> QED BY <1>10, <2>1 DEF DropDatabase, SessionOK, Busy, Steps
<1>11. CASE CreateDatabase
  <2>1. StoresOK' /\ FiniteRows'
    BY <1>11 DEF CreateDatabase, StoresOK, FiniteRows
  <2> QED BY <1>11, <2>1 DEF CreateDatabase, SessionOK, Busy, Steps
<1>12. CASE StatementRefused
  <2>1. Append(log, "refused") \in Seq(Messages)
    BY DEF SessionOK, Messages
  <2>2. StoresOK' /\ FiniteRows'
    BY <1>12 DEF StatementRefused
  <2>3. /\ log' \in Seq(Messages) /\ pc' = "prompt" /\ at' = 1
        /\ UNCHANGED <<type, file, conn, cmd, n, fill>>
    BY <1>12, <2>1 DEF StatementRefused
  <2>4. SessionOK'
    BY <2>3 DEF SessionOK
  <2>5. CommandInv'
    BY <2>3 DEF CommandInv, Busy, Steps
  <2> QED BY <2>2, <2>3, <2>4, <2>5
<1>13. CASE DropTable
  <2>1. StoresOK' /\ FiniteRows'
    BY <1>13, EmptiedOK DEF DropTable, StoresOK, SessionOK
  <2> QED BY <1>13, <2>1 DEF DropTable, SessionOK, Busy, Steps
<1>14. CASE CreateTable
  <2>1. StoresOK' /\ FiniteRows'
    BY <1>14 DEF CreateTable, StoresOK, SessionOK, FiniteRows
  <2> QED BY <1>14, <2>1 DEF CreateTable, SessionOK, Busy, Steps
<1>15. CASE CreateIndex
  <2>0. at + 1 \in Nat \ {0}
    BY DEF SessionOK
  <2>1. IndexStatements[at] \in IndexNames
    BY <1>15, IndexStatementsNamed DEF CreateIndex, AtIndex, SessionOK
  <2>2. StoresOK' /\ FiniteRows'
    BY <1>15, <2>1 DEF CreateIndex, CanCreateIndex, StoresOK, FiniteRows
  <2>3. /\ pc = "create index" /\ at' = at + 1
        /\ UNCHANGED <<type, file, conn, pc, cmd, n, log, fill>>
    BY <1>15 DEF CreateIndex, AtIndex
  <2>4. SessionOK'
    BY <2>3, <2>0 DEF SessionOK
  <2>5. CommandInv'
    BY <2>3 DEF CommandInv, Busy, Steps
  <2> QED BY <2>2, <2>3, <2>4, <2>5
<1>16. CASE IndexesCreated
  BY <1>16 DEF IndexesCreated, SessionOK, Busy, Steps
<1>17. CASE SkipLine
  BY <1>17 DEF SkipLine, AtLine, SessionOK, CommandInv, Busy, Steps
<1>18. CASE InsertPlace
  <2>1. InHand \in Row
    BY DEF InHand, Row, SessionOK
  <2>2. StoresOK'
    BY <1>18, <2>1 DEF InsertPlace, CanInsert, StoresOK
  <2>3. FiniteRows'
    BY <1>18, FS_AddElement DEF InsertPlace, StoresOK, FiniteRows
  <2> QED BY <1>18, <2>2, <2>3 DEF InsertPlace, AtLine, SessionOK, CommandInv, Busy, Steps
<1>19. CASE EndOfFile
  BY <1>19 DEF EndOfFile, SessionOK, Busy, Steps
<1>20. CASE Select
  <2>1. PICK selected \in Selected : n' = Cardinality(selected)
    BY <1>20 DEF Select
  <2>2. selected \subseteq rows[conn]
    BY <2>1 DEF Selected
  <2>3. n' \in Nat
    BY <2>1, <2>2, FS_Subset, FS_CardinalityType DEF FiniteRows, SessionOK
  <2> QED BY <1>20, <2>3 DEF Select, Busy, Steps
<1>21. CASE Throw \/ Stop
  <2>1. /\ pc' = "off" /\ conn' = DefaultPath /\ cmd' = "none"
        /\ at' = 1 /\ n' = 0 /\ log' = <<>>
        /\ UNCHANGED <<type, file, stores, fill>>
    BY <1>21 DEF Throw, Stop, EndSession
  <2>2. StoresOK' /\ FiniteRows'
    BY <2>1
  <2>3. SessionOK'
    BY <2>1 DEF SessionOK
  <2>4. CommandInv'
    BY <2>1 DEF CommandInv, Busy, Steps
  <2> QED BY <2>1, <2>2, <2>3, <2>4
<1>22. CASE UNCHANGED vars
  BY <1>22 DEF vars, stores, session, SessionOK, CommandInv, Busy
<1> QED
  BY <1>1, <1>2, <1>3, <1>4, <1>5, <1>6, <1>7, <1>8, <1>9, <1>10, <1>11, <1>12, <1>13,
     <1>14, <1>15, <1>16, <1>17, <1>18, <1>19, <1>20, <1>21, <1>22 DEF Next, Work

LEMMA TypeInvariant == Spec => []TypeInv
<1>1. Init => TypeInv BY TypeInit
<1>2. TypeInv /\ [Next]_vars => TypeInv' BY TypeStep
<1> QED BY <1>1, <1>2, PTL DEF Spec

(***************************************************************************)
(* Every state of a session of opentrep-dbmgr has its type.                *)
(***************************************************************************)
THEOREM TypeCorrect == Spec => []TypeOK
<1>1. TypeInv => TypeOK BY DEF TypeInv
<1> QED BY <1>1, TypeInvariant, PTL
-----------------------------------------------------------------------------
(***************************************************************************)
(* ProgressIsCounted, for any files and any strings.                       *)
(*                                                                         *)
(* Once filled, a table holds the PORs of the first lines, all inserted by *)
(* the same fill, or two rows with the same key: a fill that inserts into  *)
(* a table which is not empty meets, at the first POR of the file, the row *)
(* of an earlier fill.  A unique key refuses the second.                   *)
(***************************************************************************)
Image(r, k) == {x \in Row : x.fill = r /\ x.line \in PorLines /\ x.line <= k}

NoPorBefore == \A i \in PorLines : at <= i

Filling(c) == pc = "lines" /\ c = conn

FilledUpTo(c, r, k) ==
    /\ rows[c] = Image(r, k)
    /\ Filling(c) => (r = fill /\ k = at - 1) \/ NoPorBefore

PrefixInv == \A c \in Strings : HasDuplicates(c) \/ \E r, k \in Nat : FilledUpTo(c, r, k)

\* the rows of the fill in hand are those of the lines it has read
FillInv ==
    \A c \in Strings : \A x \in rows[c] :
        /\ x.fill <= fill
        /\ pc = "connect" /\ cmd = "fill_from_por_file" => x.fill < fill
        /\ pc = "lines" /\ x.fill = fill => x.line < at

KeysUnique == \A c \in Strings : HasUniqueKey(c) => ~ HasDuplicates(c)

RowsInv == PrefixInv /\ FillInv /\ KeysUnique

\* the lines of the PORs are numbers of lines
LEMMA PorLinesNat == TypeInv => PorLines \subseteq 1..Len(file) /\ Len(file) \in Nat
BY DatabaseAssumption DEF TypeInv, TypeOK, DatabaseAssumption, PorLines

LEMMA NothingImaged == TypeInv => Image(0, 0) = {}
BY PorLinesNat DEF Image

\* one line more
LEMMA ImageNext ==
  ASSUME TypeInv, NEW r \in Nat, NEW k \in Nat, k + 1 \in PorLines,
         NEW new \in Row, new.fill = r, new.line = k + 1
  PROVE  Image(r, k + 1) = Image(r, k) \cup {new}
<1>0. PorLines \subseteq Nat
  BY PorLinesNat
<1>1. ASSUME NEW x \in Row, x.line \in PorLines
      PROVE  x.line <= k + 1 <=> x.line <= k \/ x.line = k + 1
  <2>1. x.line \in Nat
    BY <1>0, <1>1
  <2> QED BY <2>1
<1>2. \A x \in Row : x.fill = r /\ x.line = k + 1 => x = new
  BY DEF Row
<1> QED BY <1>1, <1>2 DEF Image

LEMMA RowsInit == Init => RowsInv
<1> SUFFICES ASSUME Init PROVE RowsInv
  OBVIOUS
<1>1. \A c \in Strings : rows[c] = {} /\ ~ Filling(c) /\ ~ HasDuplicates(c)
  BY DEF Init, Filling, HasDuplicates
<1>2. \A c \in Strings : FilledUpTo(c, 0, 0)
  BY <1>1, NothingImaged, TypeInit DEF FilledUpTo
<1> QED BY <1>1, <1>2 DEF RowsInv, PrefixInv, FillInv, KeysUnique

\* the steps that neither touch the rows nor fill them
LEMMA RowsKept ==
  ASSUME RowsInv, UNCHANGED <<type, file, table, rows, indexes, fill>>,
         pc' \notin {"connect", "lines"}
  PROVE  RowsInv'
<1>1. \A c \in Strings : HasDuplicates(c)' = HasDuplicates(c)
  BY DEF HasDuplicates, SameKey
<1>2. \A c \in Strings : \A r, k \in Nat : FilledUpTo(c, r, k) => FilledUpTo(c, r, k)'
  BY DEF FilledUpTo, Image, Filling, PorLines
<1>3. PrefixInv'
  BY <1>1, <1>2 DEF RowsInv, PrefixInv
<1>4. FillInv'
  BY DEF RowsInv, FillInv
<1>5. KeysUnique'
  BY <1>1 DEF RowsInv, KeysUnique, HasUniqueKey
<1> QED BY <1>3, <1>4, <1>5 DEF RowsInv

\* the loss of a table leaves the others as they are
LEMMA RowsEmptied ==
  ASSUME TypeInv, TypeInv', RowsInv, NEW d \in Strings, Emptied(d),
         UNCHANGED <<type, file, fill>>, pc' \notin {"connect", "lines"}
  PROVE  RowsInv'
<1>1. \A c \in Strings : rows'[c] = IF c = d THEN {} ELSE rows[c]
  BY DEF Emptied, TypeInv, TypeOK, StoresOK
<1>2. \A c \in Strings : HasDuplicates(c)' <=> c # d /\ HasDuplicates(c)
  BY <1>1 DEF HasDuplicates, SameKey
<1>3. PrefixInv'
  <2> SUFFICES ASSUME NEW c \in Strings, ~ HasDuplicates(c)'
               PROVE  \E r, k \in Nat : FilledUpTo(c, r, k)'
    BY DEF PrefixInv
  <2>1. CASE c = d
    <3>1. Image(0, 0)' = {}
      BY NothingImaged DEF Image, PorLines
    <3> QED BY <1>1, <2>1, <3>1 DEF FilledUpTo, Filling
  <2>2. CASE c # d
    <3>1. PICK r, k \in Nat : FilledUpTo(c, r, k)
      BY <1>2, <2>2 DEF RowsInv, PrefixInv
    <3>2. FilledUpTo(c, r, k)'
      BY <1>1, <2>2, <3>1 DEF FilledUpTo, Filling, Image, PorLines
    <3> QED BY <3>2
  <2> QED BY <2>1, <2>2
<1>4. FillInv'
  BY <1>1 DEF RowsInv, FillInv
<1>5. KeysUnique'
  BY <1>2 DEF RowsInv, KeysUnique, HasUniqueKey, Emptied, TypeInv, TypeOK, StoresOK
<1> QED BY <1>3, <1>4, <1>5 DEF RowsInv

\* the fill that starts is a new one
LEMMA ReadCommandRows ==
  ASSUME TypeInv, RowsInv, NEW command \in Commands, ReadCommand(command)
  PROVE  RowsInv'
<1>1. /\ pc = "prompt" /\ pc' = "connect" /\ cmd' = command
      /\ fill' = IF command = "fill_from_por_file" THEN fill + 1 ELSE fill
      /\ UNCHANGED <<type, file, table, rows, indexes>>
  BY DEF ReadCommand, stores
<1>2. \A c \in Strings : HasDuplicates(c)' = HasDuplicates(c)
  BY <1>1 DEF HasDuplicates, SameKey
<1>3. \A c \in Strings : \A r, k \in Nat : FilledUpTo(c, r, k) => FilledUpTo(c, r, k)'
  BY <1>1 DEF FilledUpTo, Image, Filling, PorLines
<1>4. PrefixInv'
  BY <1>2, <1>3 DEF RowsInv, PrefixInv
<1>5. FillInv'
  <2>1. fill \in Nat /\ \A c \in Strings : \A x \in rows[c] : x.fill \in Nat /\ x.fill <= fill
    BY DEF TypeInv, TypeOK, SessionOK, StoresOK, Row, RowsInv, FillInv
  <2> QED BY <1>1, <2>1 DEF FillInv
<1>6. KeysUnique'
  BY <1>1, <1>2 DEF RowsInv, KeysUnique, HasUniqueKey
<1> QED BY <1>4, <1>5, <1>6 DEF RowsInv

\* a fill starts at the first line, and none of the rows is its own
LEMMA ConnectRows ==
  ASSUME TypeInv, RowsInv, Connect
  PROVE  RowsInv'
<1>1. /\ pc = "connect" /\ at = 1 /\ pc' = FirstStep
      /\ UNCHANGED <<type, file, table, rows, indexes, conn, cmd, at, fill>>
  BY DEF Connect, stores, TypeInv, CommandInv
<1>2. pc' # "connect" /\ (pc' = "lines" => cmd = "fill_from_por_file")
  BY <1>1 DEF FirstStep
<1>3. \A c \in Strings : HasDuplicates(c)' = HasDuplicates(c)
  BY <1>1 DEF HasDuplicates, SameKey
<1>4. NoPorBefore'
  BY <1>1, PorLinesNat DEF NoPorBefore, PorLines
<1>5. \A c \in Strings : \A r, k \in Nat : FilledUpTo(c, r, k) => FilledUpTo(c, r, k)'
  BY <1>1, <1>4 DEF FilledUpTo, Image, PorLines
<1>6. PrefixInv'
  BY <1>3, <1>5 DEF RowsInv, PrefixInv
<1>7. FillInv'
  <2>1. fill \in Nat /\ \A c \in Strings : \A x \in rows[c] : x.fill \in Nat
    BY DEF TypeInv, TypeOK, SessionOK, StoresOK, Row
  <2> QED BY <1>1, <1>2, <2>1 DEF RowsInv, FillInv
<1>8. KeysUnique'
  BY <1>1, <1>3 DEF RowsInv, KeysUnique, HasUniqueKey
<1> QED BY <1>6, <1>7, <1>8 DEF RowsInv

\* the table created is empty
LEMMA CreateTableRows ==
  ASSUME TypeInv, RowsInv, CreateTable
  PROVE  RowsInv'
<1>1. /\ pc' = "prompt" /\ table' = table \cup {conn}
      /\ UNCHANGED <<type, file, rows, indexes, fill>>
  BY DEF CreateTable, Report
<1>2. \A c \in Strings : HasDuplicates(c)' = HasDuplicates(c)
  BY <1>1 DEF HasDuplicates, SameKey
<1>3. \A c \in Strings : \A r, k \in Nat : FilledUpTo(c, r, k) => FilledUpTo(c, r, k)'
  BY <1>1 DEF FilledUpTo, Image, Filling, PorLines
<1>4. PrefixInv'
  BY <1>2, <1>3 DEF RowsInv, PrefixInv
<1>5. FillInv'
  BY <1>1 DEF RowsInv, FillInv
<1>6. KeysUnique'
  <2> SUFFICES ASSUME NEW c \in Strings, HasUniqueKey(c)' PROVE ~ HasDuplicates(c)'
    BY DEF KeysUnique
  <2>1. CASE c \in table
    BY <1>1, <1>2, <2>1 DEF RowsInv, KeysUnique, HasUniqueKey
  <2>2. CASE c \notin table
    BY <1>1, <2>2 DEF HasDuplicates, TypeInv, TypeOK, StoresOK
  <2> QED BY <2>1, <2>2
<1> QED BY <1>4, <1>5, <1>6 DEF RowsInv

\* a key is made unique where it is
LEMMA CreateIndexRows ==
  ASSUME TypeInv, RowsInv, CreateIndex
  PROVE  RowsInv'
<1>1. /\ pc = "create index" /\ conn \in Strings
      /\ indexes' = [indexes EXCEPT ![conn] = @ \cup {IndexStatements[at]}]
      /\ IndexStatements[at] = "pk" => ~ HasDuplicates(conn)
      /\ UNCHANGED <<type, file, table, rows, pc, cmd, fill>>
  BY DEF CreateIndex, AtIndex, CanCreateIndex, TypeInv, TypeOK, SessionOK
<1>2. \A c \in Strings : HasDuplicates(c)' = HasDuplicates(c)
  BY <1>1 DEF HasDuplicates, SameKey
<1>3. \A c \in Strings : \A r, k \in Nat : FilledUpTo(c, r, k) => FilledUpTo(c, r, k)'
  BY <1>1 DEF FilledUpTo, Image, Filling, PorLines
<1>4. PrefixInv'
  BY <1>2, <1>3 DEF RowsInv, PrefixInv
<1>5. FillInv'
  BY <1>1 DEF RowsInv, FillInv
<1>6. KeysUnique'
  <2> SUFFICES ASSUME NEW c \in Strings, HasUniqueKey(c)' PROVE ~ HasDuplicates(c)
    BY <1>2 DEF KeysUnique
  <2>1. HasUniqueKey(c) \/ (c = conn /\ IndexStatements[at] = "pk")
    BY <1>1 DEF HasUniqueKey, TypeInv, TypeOK, StoresOK
  <2> QED BY <1>1, <2>1 DEF RowsInv, KeysUnique
<1> QED BY <1>4, <1>5, <1>6 DEF RowsInv

\* a line that is not inserted does not count
LEMMA SkipLineRows ==
  ASSUME TypeInv, RowsInv, SkipLine
  PROVE  RowsInv'
<1>1. /\ pc = "lines" /\ at \in Nat \ {0} /\ at' = at + 1 /\ at \notin PorLines
      /\ UNCHANGED <<type, file, table, rows, indexes, conn, pc, cmd, fill>>
  BY DEF SkipLine, AtLine, PorLines, stores, TypeInv, TypeOK, SessionOK
<1>2. \A c \in Strings : HasDuplicates(c)' = HasDuplicates(c)
  BY <1>1 DEF HasDuplicates, SameKey
<1>3. NoPorBefore => NoPorBefore'
  BY <1>1, PorLinesNat DEF NoPorBefore, PorLines
<1>4. Image(fill, at - 1) = Image(fill, at)
  BY <1>1, PorLinesNat DEF Image
<1>5. PrefixInv'
  <2> SUFFICES ASSUME NEW c \in Strings, ~ HasDuplicates(c)'
               PROVE  \E r, k \in Nat : FilledUpTo(c, r, k)'
    BY DEF PrefixInv
  <2>1. PICK r, k \in Nat : FilledUpTo(c, r, k)
    BY <1>2 DEF RowsInv, PrefixInv
  <2>2. CASE Filling(c) /\ r = fill /\ k = at - 1
    <3>1. k + 1 = at /\ rows[c] = Image(r, k + 1)
      BY <1>1, <1>4, <2>1, <2>2 DEF FilledUpTo
    <3>2. FilledUpTo(c, r, k + 1)'
      BY <1>1, <2>2, <3>1 DEF FilledUpTo, Image, PorLines
    <3> QED BY <3>2
  <2>3. CASE ~ (Filling(c) /\ r = fill /\ k = at - 1)
    <3>1. FilledUpTo(c, r, k)'
      BY <1>1, <1>3, <2>1, <2>3 DEF FilledUpTo, Filling, Image, PorLines
    <3> QED BY <3>1
  <2> QED BY <2>2, <2>3
<1>6. FillInv'
  <2>1. \A c \in Strings : \A x \in rows[c] : x.line \in Nat
    BY DEF TypeInv, TypeOK, StoresOK, Row
  <2> QED BY <1>1, <2>1 DEF RowsInv, FillInv
<1>7. KeysUnique'
  BY <1>1, <1>2 DEF RowsInv, KeysUnique, HasUniqueKey
<1> QED BY <1>5, <1>6, <1>7 DEF RowsInv

\* the first POR of the file into an empty table, or into one that holds it
\* already; or one more, after those that the same fill inserted
LEMMA InsertPlaceRows ==
  ASSUME TypeInv, RowsInv, InsertPlace
  PROVE  RowsInv'
<1>0. PorLines \subseteq Nat
  BY PorLinesNat
<1>1. /\ pc = "lines" /\ at \in PorLines /\ at' = at + 1 /\ conn \in Strings
      /\ at \in Nat \ {0} /\ fill \in Nat
      /\ rows' = [rows EXCEPT ![conn] = @ \cup {InHand}]
      /\ UNCHANGED <<type, file, table, indexes, conn, pc, cmd, fill>>
  BY DEF InsertPlace, AtLine, PorLines, TypeInv, TypeOK, SessionOK
<1>2. \A c \in Strings : rows'[c] = IF c = conn THEN rows[c] \cup {InHand} ELSE rows[c]
  BY <1>1 DEF TypeInv, TypeOK, StoresOK
<1>3. \A c \in Strings : HasDuplicates(c) => HasDuplicates(c)'
  BY <1>1, <1>2 DEF HasDuplicates, SameKey
<1>4. \A c \in Strings : \A x \in rows[c] : x \in Row
  BY DEF TypeInv, TypeOK, StoresOK
<1>5. PICK new \in Row : new = InHand /\ new.fill = fill /\ new.line = at
  <2>1. InHand \in Row /\ InHand.fill = fill /\ InHand.line = at
    BY <1>1 DEF InHand, Row
  <2> QED BY <2>1
<1>6. PICK m \in Nat : at = m + 1 /\ at - 1 = m
  <2>1. at - 1 \in Nat /\ at = (at - 1) + 1
    BY <1>1
  <2> QED BY <2>1
<1>7. PrefixInv'
  <2> SUFFICES ASSUME NEW c \in Strings, ~ HasDuplicates(c)'
               PROVE  \E r, k \in Nat : FilledUpTo(c, r, k)'
    BY DEF PrefixInv
  <2>1. PICK r, k \in Nat : FilledUpTo(c, r, k)
    BY <1>3 DEF RowsInv, PrefixInv
  <2>2. CASE c # conn
    <3>1. FilledUpTo(c, r, k)'
      BY <1>1, <1>2, <2>1, <2>2 DEF FilledUpTo, Filling, Image, PorLines
    <3> QED BY <3>1
  <2>3. CASE c = conn
    <3>1. rows[c] = Image(fill, at - 1)
      <4>1. CASE r = fill /\ k = at - 1
        BY <2>1, <4>1 DEF FilledUpTo
      <4>2. CASE ~ (r = fill /\ k = at - 1)
        <5>1. NoPorBefore
          BY <1>1, <2>1, <2>3, <4>2 DEF FilledUpTo, Filling
        <5>2. Image(fill, at - 1) = {}
          <6>1. ASSUME NEW i \in PorLines PROVE ~ (i <= m)
            <7>1. i \in Nat /\ m + 1 <= i
              BY <1>0, <1>6, <5>1 DEF NoPorBefore
            <7> QED BY <7>1
          <6> QED BY <1>6, <6>1 DEF Image
        <5>3. ASSUME NEW x \in rows[c] PROVE FALSE
          <6>1. x \in Image(r, k) /\ x.line \in PorLines /\ x.line <= k
            BY <2>1, <5>3 DEF FilledUpTo, Image
          <6>2. at <= x.line /\ at <= k
            <7>1. at \in Nat /\ x.line \in Nat /\ at <= x.line
              BY <1>0, <1>1, <5>1, <6>1 DEF NoPorBefore
            <7> QED BY <6>1, <7>1
          <6>3. PICK first \in Row : first.fill = r /\ first.line = at
            <7>1. [fill |-> r, line |-> at] \in Row
              BY <1>1 DEF Row
            <7> QED BY <7>1
          <6>4. first \in rows[c]
            BY <1>1, <2>1, <6>2, <6>3 DEF FilledUpTo, Image
          <6>5. first # new
            BY <1>1, <1>5, <6>3, <6>4 DEF RowsInv, FillInv
          <6>6. first \in rows'[c] /\ new \in rows'[c]
            BY <1>2, <1>5, <2>3, <6>4
          <6>7. SameKey(first, new)'
            BY <1>1, <1>5, <6>3 DEF SameKey
          <6> QED BY <6>5, <6>6, <6>7 DEF HasDuplicates
        <5> QED BY <5>2, <5>3
      <4> QED BY <4>1, <4>2
    <3>2. rows'[c] = Image(fill, at)
      <4>1. Image(fill, m + 1) = Image(fill, m) \cup {new}
        BY <1>1, <1>5, <1>6, ImageNext
      <4> QED BY <1>2, <1>5, <1>6, <2>3, <3>1, <4>1
    <3>3. PICK f, l \in Nat : f = fill /\ l = at
      BY <1>1
    <3>4. FilledUpTo(c, f, l)'
      BY <1>1, <3>2, <3>3 DEF FilledUpTo, Image, PorLines
    <3> QED BY <3>4
  <2> QED BY <2>2, <2>3
<1>8. FillInv'
  <2> SUFFICES ASSUME NEW c \in Strings, NEW x \in rows'[c]
               PROVE  x.fill <= fill /\ (x.fill = fill => x.line < at + 1)
    BY <1>1 DEF FillInv
  <2>1. CASE x \in rows[c]
    BY <1>1, <1>4, <2>1 DEF RowsInv, FillInv, Row
  <2>2. CASE x = new
    BY <1>1, <1>5, <2>2
  <2> QED BY <1>2, <1>5, <2>1, <2>2
<1>9. KeysUnique'
  <2> SUFFICES ASSUME NEW c \in Strings, HasUniqueKey(c)' PROVE ~ HasDuplicates(c)'
    BY DEF KeysUnique
  <2>1. HasUniqueKey(c) /\ ~ HasDuplicates(c)
    BY <1>1 DEF HasUniqueKey, RowsInv, KeysUnique
  <2>2. c = conn => \A x \in rows[c] : ~ SameKey(x, InHand)
    BY <2>1 DEF InsertPlace, CanInsert
  <2> QED BY <1>1, <1>2, <2>1, <2>2 DEF HasDuplicates, SameKey
<1> QED BY <1>7, <1>8, <1>9 DEF RowsInv

LEMMA RowsStep == TypeInv /\ TypeInv' /\ RowsInv /\ [Next]_vars => RowsInv'
<1> SUFFICES ASSUME TypeInv, TypeInv', RowsInv, [Next]_vars PROVE RowsInv'
  OBVIOUS
<1>1. ASSUME NEW c \in Given[type], StartSession(c) PROVE RowsInv'
  BY <1>1, RowsKept DEF StartSession, stores
<1>2. ASSUME NEW c \in Given[type], ResetConnectionString(c) PROVE RowsInv'
  BY <1>2, RowsKept DEF ResetConnectionString, stores
<1>3. ASSUME NEW c \in Commands, ReadCommand(c) PROVE RowsInv'
  BY <1>3, ReadCommandRows
<1>4. CASE Connect
  BY <1>4, ConnectRows
<1>5. CASE CreateSQLiteFile
  BY <1>5, RowsKept DEF CreateSQLiteFile, stores
<1>6. CASE NothingToDo
  BY <1>6, RowsKept DEF NothingToDo, Report, stores
<1>7. CASE RemoveSQLiteFile
  <2>1. conn \in Strings
    BY DEF TypeInv, TypeOK, SessionOK
  <2> QED BY <1>7, <2>1, RowsEmptied DEF RemoveSQLiteFile
<1>8. CASE CreateSQLiteDirectory
  BY <1>8, RowsKept DEF CreateSQLiteDirectory, Report
<1>9. CASE GrantRights
  BY <1>9, RowsKept DEF GrantRights, stores
<1>10. CASE DropDatabase
  BY <1>10, RowsEmptied, DatabaseAssumption DEF DropDatabase, DatabaseAssumption
<1>11. CASE CreateDatabase
  BY <1>11, RowsKept DEF CreateDatabase, Report
<1>12. CASE StatementRefused
  BY <1>12, RowsKept DEF StatementRefused, stores
<1>13. CASE DropTable
  <2>1. conn \in Strings
    BY DEF TypeInv, TypeOK, SessionOK
  <2> QED BY <1>13, <2>1, RowsEmptied DEF DropTable
<1>14. CASE CreateTable
  BY <1>14, CreateTableRows
<1>15. CASE CreateIndex
  BY <1>15, CreateIndexRows
<1>16. CASE IndexesCreated
  BY <1>16, RowsKept DEF IndexesCreated, Report, stores
<1>17. CASE SkipLine
  BY <1>17, SkipLineRows
<1>18. CASE InsertPlace
  BY <1>18, InsertPlaceRows
<1>19. CASE EndOfFile
  BY <1>19, RowsKept DEF EndOfFile, Report, stores
<1>20. CASE Select
  BY <1>20, RowsKept DEF Select, Report, stores
<1>21. CASE Throw \/ Stop
  BY <1>21, RowsKept DEF Throw, Stop, EndSession, stores
<1>22. CASE UNCHANGED vars
  BY <1>22 DEF vars, stores, session, RowsInv, PrefixInv, FillInv, KeysUnique, HasUniqueKey,
               HasDuplicates, SameKey, FilledUpTo, Filling, NoPorBefore, Image, PorLines
<1> QED
  BY <1>1, <1>2, <1>3, <1>4, <1>5, <1>6, <1>7, <1>8, <1>9, <1>10, <1>11, <1>12, <1>13,
     <1>14, <1>15, <1>16, <1>17, <1>18, <1>19, <1>20, <1>21, <1>22 DEF Next, Work

\* what RowsInv says of a table with a unique key
LEMMA CountedWhenUnique == TypeInv /\ RowsInv => ProgressIsCounted
<1> SUFFICES ASSUME TypeInv, RowsInv, NEW c \in Strings, HasUniqueKey(c)
             PROVE  FirstPors(c)
  BY DEF ProgressIsCounted
<1>1. PICK r, k \in Nat : rows[c] = Image(r, k)
  BY DEF RowsInv, PrefixInv, KeysUnique, FilledUpTo
<1>2. \A x, y \in rows[c] : x.line = y.line => x = y
  BY <1>1 DEF Image, Row
<1>3. Lines(c) = PorLines \cap 1..k
  <2>1. Lines(c) \subseteq PorLines \cap 1..k
    BY <1>1, PorLinesNat DEF Lines, Image
  <2>2. ASSUME NEW i \in PorLines \cap 1..k PROVE i \in Lines(c)
    <3>1. [fill |-> r, line |-> i] \in rows[c]
      BY <1>1, <2>2 DEF Image, Row
    <3> QED BY <3>1 DEF Lines
  <2> QED BY <2>1, <2>2
<1>4. \E j \in 0..Len(file) : PorLines \cap 1..k = PorLines \cap 1..j
  <2>1. CASE k <= Len(file)
    BY <2>1, PorLinesNat
  <2>2. CASE k > Len(file)
    BY <2>2, PorLinesNat
  <2> QED BY <2>1, <2>2, PorLinesNat
<1> QED BY <1>2, <1>3, <1>4 DEF FirstPors

(***************************************************************************)
(* Whatever the sessions that filled it, and wherever they were            *)
(* interrupted, a table with a unique key holds the first PORs of the      *)
(* file, each once.                                                        *)
(***************************************************************************)
THEOREM Progress == Spec => []ProgressIsCounted
<1>1. Init => TypeInv /\ RowsInv BY TypeInit, RowsInit
<1>2. TypeInv /\ RowsInv /\ [Next]_vars => (TypeInv /\ RowsInv)'
  BY TypeStep, RowsStep
<1>3. TypeInv /\ RowsInv => ProgressIsCounted BY CountedWhenUnique
<1> QED BY <1>1, <1>2, <1>3, PTL DEF Spec

-----------------------------------------------------------------------------
(***************************************************************************)
(* CreatedAnew, for any strings: the steps of create_user, and those of    *)
(* the other commands, are told apart by the program counter, so that the  *)
(* only report of create_user follows the creation.                        *)
(***************************************************************************)
UserInv ==
    /\ pc \in {"remove", "mkdir"} => type = "sqlite" /\ cmd = "create_user"
    /\ pc \in {"grant", "drop database", "create database"} =>
          type = "mysql" /\ cmd = "create_user"
    /\ pc \in {"drop table", "create table", "create index", "lines", "select"} =>
          cmd # "create_user"
    /\ pc = "mkdir" => conn \notin table
    /\ pc = "create database" => Trep \notin table
    /\ pc = "off" => log = <<>>

Last(command) == Len(log) > 0 /\ log[Len(log)] = command

CreatedInv ==
    type # "nodb" /\ pc = "prompt" /\ Last("create_user") => Target \in exists \ table

\* the last command reported is the one that was appended
LEMMA LastAppended ==
  ASSUME TypeInv, NEW command \in Messages, log' = Append(log, command)
  PROVE  Last("create_user")' <=> command = "create_user"
<1>1. log \in Seq(Messages)
  BY DEF TypeInv, TypeOK, SessionOK
<1>2. Len(log') = Len(log) + 1 /\ log'[Len(log) + 1] = command /\ Len(log) \in Nat
  BY <1>1
<1> QED BY <1>2 DEF Last

LEMMA UserInit == Init => UserInv /\ CreatedInv
BY DEF Init, UserInv, CreatedInv

LEMMA UserStep == TypeInv /\ UserInv /\ [Next]_vars => UserInv'
<1> SUFFICES ASSUME TypeInv, UserInv, [Next]_vars PROVE UserInv'
  OBVIOUS
<1>1. ASSUME NEW c \in Given[type], StartSession(c) \/ ResetConnectionString(c) PROVE UserInv'
  BY <1>1 DEF StartSession, ResetConnectionString, UserInv, stores
<1>2. ASSUME NEW c \in Commands, ReadCommand(c) PROVE UserInv'
  BY <1>2 DEF ReadCommand, UserInv, stores
<1>3. CASE Connect
  <2>1. cmd \in Commands
    BY <1>3 DEF Connect, TypeInv, CommandInv, Busy
  <2>2. /\ FirstStep = "grant" <=> cmd = "create_user"
        /\ FirstStep \in {"grant", "drop table", "create index", "lines", "select"}
    BY <2>1 DEF FirstStep, Commands
  <2> QED BY <1>3, <2>2 DEF Connect, Connects, UserInv
<1>4. CASE CreateSQLiteFile
  BY <1>4 DEF CreateSQLiteFile, UserInv
<1>5. CASE RemoveSQLiteFile
  BY <1>5 DEF RemoveSQLiteFile, Emptied, UserInv
<1>6. CASE GrantRights
  BY <1>6 DEF GrantRights, UserInv
<1>7. CASE DropDatabase
  BY <1>7 DEF DropDatabase, Emptied, UserInv
<1>8. CASE DropTable
  BY <1>8 DEF DropTable, UserInv
<1>9. CASE CreateIndex \/ SkipLine \/ InsertPlace
  BY <1>9 DEF CreateIndex, AtIndex, SkipLine, InsertPlace, AtLine, UserInv
<1>10. CASE \/ NothingToDo \/ CreateSQLiteDirectory \/ CreateDatabase \/ StatementRefused
            \/ CreateTable \/ IndexesCreated \/ EndOfFile \/ Select
  <2>1. pc' = "prompt"
    BY <1>10 DEF NothingToDo, CreateSQLiteDirectory, CreateDatabase, StatementRefused,
                 CreateTable, IndexesCreated, EndOfFile, Select, Report
  <2> QED BY <2>1 DEF UserInv
<1>11. CASE Throw \/ Stop
  BY <1>11 DEF Throw, Stop, EndSession, UserInv
<1>12. CASE UNCHANGED vars
  BY <1>12 DEF vars, stores, session, UserInv
<1> QED BY <1>1, <1>2, <1>3, <1>4, <1>5, <1>6, <1>7, <1>8, <1>9, <1>10, <1>11, <1>12
        DEF Next, Work

LEMMA CreatedStep == TypeInv /\ UserInv /\ CreatedInv /\ [Next]_vars => CreatedInv'
<1> SUFFICES ASSUME TypeInv, UserInv, CreatedInv, [Next]_vars PROVE CreatedInv'
  OBVIOUS
<1>1. ASSUME NEW c \in Given[type], StartSession(c) PROVE CreatedInv'
  BY <1>1 DEF StartSession, UserInv, CreatedInv, Last
<1>2. ASSUME NEW c \in Given[type], ResetConnectionString(c) PROVE CreatedInv'
  BY <1>2, LastAppended DEF ResetConnectionString, CreatedInv, Messages
<1>3. CASE \/ \E c \in Commands : ReadCommand(c)
           \/ CreateSQLiteFile \/ RemoveSQLiteFile \/ GrantRights \/ DropDatabase
           \/ DropTable \/ CreateIndex \/ SkipLine \/ InsertPlace \/ Throw \/ Stop
  <2>1. pc' # "prompt"
    BY <1>3 DEF ReadCommand, CreateSQLiteFile, RemoveSQLiteFile, GrantRights, DropDatabase,
                DropTable, CreateIndex, AtIndex, SkipLine, InsertPlace, AtLine, Throw, Stop,
                EndSession
  <2> QED BY <2>1 DEF CreatedInv
<1>4. CASE Connect
  BY <1>4 DEF Connect, FirstStep, CreatedInv
<1>5. CASE NothingToDo
  BY <1>5 DEF NothingToDo, CreatedInv
<1>6. CASE CreateSQLiteDirectory
  BY <1>6 DEF CreateSQLiteDirectory, UserInv, CreatedInv, Target
<1>7. CASE CreateDatabase
  BY <1>7 DEF CreateDatabase, UserInv, CreatedInv, Target
<1>8. CASE StatementRefused
  <2>1. "refused" \in Messages /\ log' = Append(log, "refused")
    BY <1>8 DEF StatementRefused, Messages
  <2>2. ~ Last("create_user")'
    BY <2>1, LastAppended
  <2> QED BY <2>2 DEF CreatedInv
<1>9. CASE CreateTable \/ IndexesCreated \/ EndOfFile \/ Select
  <2>1. /\ cmd # "create_user" /\ cmd \in Messages
        /\ log' = Append(log, cmd)
    BY <1>9 DEF CreateTable, IndexesCreated, EndOfFile, Select, Report, UserInv, Messages,
                TypeInv, CommandInv, Busy, Steps
  <2> QED BY <2>1, LastAppended DEF CreatedInv
<1>10. CASE UNCHANGED vars
  BY <1>10 DEF vars, stores, session, CreatedInv, Last, Target
<1> QED BY <1>1, <1>2, <1>3, <1>4, <1>5, <1>6, <1>7, <1>8, <1>9, <1>10 DEF Next, Work

LEMMA CreatedWhenReported == TypeInv /\ CreatedInv => CreatedAnew
<1> SUFFICES ASSUME TypeInv, CreatedInv, type # "nodb", EndsWith(<<"create_user">>)
             PROVE  Target \in exists \ table
  BY DEF CreatedAnew
<1>1. log \in Seq(Messages) /\ Len(log) \in Nat
  BY DEF TypeInv, TypeOK, SessionOK
<1>2. /\ pc = "prompt" /\ Len(log) >= 1
      /\ SubSeq(log, Len(log), Len(log)) = <<"create_user">>
  BY <1>1 DEF EndsWith
<1>3. log[Len(log)] = "create_user"
  <2>1. SubSeq(log, Len(log), Len(log))[1] = log[Len(log)]
    <3>1. \A i \in Len(log) .. Len(log) : log[i] \in Messages
      BY <1>1, <1>2
    <3>2. Len(log) \in Int /\ 1 \in 1 .. Len(log) - Len(log) + 1
      BY <1>1
    <3>3. SubSeq(log, Len(log), Len(log))[1] = log[Len(log) + 1 - 1]
      BY <3>1, <3>2, SubSeqProperties
    <3> QED BY <1>1, <3>3
  <2> QED BY <1>2, <2>1
<1> QED BY <1>1, <1>2, <1>3 DEF CreatedInv, Last

(***************************************************************************)
(* Whatever was refused, interrupted or created before, the success that   *)
(* create_user reports leaves the database there, and without a table.     *)
(***************************************************************************)
THEOREM CreatedIsNew == Spec => []CreatedAnew
<1>1. Init => TypeInv /\ UserInv /\ CreatedInv BY TypeInit, UserInit
<1>2. TypeInv /\ UserInv /\ CreatedInv /\ [Next]_vars => (TypeInv /\ UserInv /\ CreatedInv)'
  BY TypeStep, UserStep, CreatedStep
<1>3. TypeInv /\ CreatedInv => CreatedAnew BY CreatedWhenReported
<1> QED BY <1>1, <1>2, <1>3, PTL DEF Spec

-----------------------------------------------------------------------------
(***************************************************************************)
(* TutorialCompletes, for any file.  The log tells how far the tutorial    *)
(* has come; each of its commands finds what the one before it has left,   *)
(* as long as nothing is reported in between.                              *)
(***************************************************************************)
TablesCreated == Len(log) >= 1 /\ log[Len(log)] = "create_tables"

TableFilled ==
    Len(log) >= 2 /\ log[Len(log) - 1] = "create_tables" /\ log[Len(log)] = "fill_from_por_file"

TableIndexed ==
    /\ Len(log) >= 3 /\ log[Len(log) - 2] = "create_tables"
    /\ log[Len(log) - 1] = "fill_from_por_file" /\ log[Len(log)] = "create_indexes"

\* the step about to be taken tells the command, and what its steps have done
StepInv ==
    /\ pc \in Steps => type # "nodb"
    /\ pc = "connect" => n = 0
    /\ pc \in {"drop table", "create table"} => cmd = "create_tables"
    /\ pc = "create index" => cmd = "create_indexes"
    /\ pc = "select" => cmd \in {"list_nb", "list_by"}
    /\ pc = "create table" => rows[conn] = {}
    /\ pc = "create index" =>
          \A i \in DOMAIN IndexStatements : i < at => IndexStatements[i] \in indexes[conn]

Counted ==
    /\ Lines(conn) = PorLines \cap 1..(at - 1)
    /\ n = Cardinality(PorLines \cap 1..(at - 1)) /\ n = Cardinality(rows[conn])

AllCounted == n = Cardinality(PorLines) /\ n = Cardinality(rows[conn])

AfterTables ==
    TablesCreated =>
        /\ type # "nodb"
        /\ pc \in {"prompt", "connect"} => rows[conn] = {}
        /\ pc = "lines" => Counted

AfterFill ==
    TableFilled =>
        /\ pc \in {"prompt", "connect", "create index"} => Lines(conn) = PorLines
        /\ pc = "prompt" => AllCounted

AllIndexed == \A i \in DOMAIN IndexStatements : IndexStatements[i] \in indexes[conn]

AfterIndexes ==
    TableIndexed /\ pc = "prompt" =>
        Lines(conn) = PorLines /\ ~ HasDuplicates(conn) /\ AllIndexed

TutorialInv == StepInv /\ AfterTables /\ AfterFill /\ AfterIndexes

\* what the tutorial has come to, once a command is reported
LEMMA TailAppended ==
  ASSUME TypeInv, NEW command \in Messages, log' = Append(log, command)
  PROVE  /\ TablesCreated' <=> command = "create_tables"
         /\ TableFilled' <=> TablesCreated /\ command = "fill_from_por_file"
         /\ TableIndexed' <=> TableFilled /\ command = "create_indexes"
<1>1. log \in Seq(Messages)
  BY DEF TypeInv, TypeOK, SessionOK
<1>2. PICK l \in Nat : l = Len(log)
  BY <1>1
<1>3. Len(log') = l + 1 /\ log'[l + 1] = command /\ \A i \in 1..l : log'[i] = log[i]
  BY <1>1, <1>2
<1>4. TablesCreated' <=> command = "create_tables"
  BY <1>2, <1>3 DEF TablesCreated
<1>5. TableFilled' <=> TablesCreated /\ command = "fill_from_por_file"
  <2>1. l >= 1 => l \in 1..l
    BY <1>2
  <2>2. l + 1 - 1 = l /\ (l + 1 >= 2 <=> l >= 1)
    BY <1>2
  <2> QED BY <1>2, <1>3, <2>1, <2>2 DEF TableFilled, TablesCreated
<1>6. TableIndexed' <=> TableFilled /\ command = "create_indexes"
  <2>1. l >= 2 => l \in 1..l /\ l - 1 \in 1..l
    BY <1>2
  <2>2. l + 1 - 1 = l /\ l + 1 - 2 = l - 1 /\ (l + 1 >= 3 <=> l >= 2)
    BY <1>2
  <2> QED BY <1>2, <1>3, <2>1, <2>2 DEF TableIndexed, TableFilled
<1> QED BY <1>4, <1>5, <1>6

LEMMA TailUnchanged ==
  log' = log => /\ TablesCreated' <=> TablesCreated
                /\ TableFilled' <=> TableFilled
                /\ TableIndexed' <=> TableIndexed
BY DEF TablesCreated, TableFilled, TableIndexed

LEMMA TailEmpty ==
  /\ log = <<>> => ~ TablesCreated /\ ~ TableFilled /\ ~ TableIndexed
  /\ log' = <<>> => ~ TablesCreated' /\ ~ TableFilled' /\ ~ TableIndexed'
BY DEF TablesCreated, TableFilled, TableIndexed

LEMMA IndexStatementsFirst ==
  /\ Len(IndexStatements) \in Nat /\ DOMAIN IndexStatements = 1..Len(IndexStatements)
  /\ DOMAIN IndexStatements \subseteq Nat /\ 1 \in DOMAIN IndexStatements
  /\ type = "mysql" => IndexStatements[1] = "pk"
<1>1. CASE type = "mysql"
  <2>1. IndexStatements = <<"pk", "iata_code", "iata_date", "icao_code", "geonameid">>
    BY <1>1 DEF IndexStatements
  <2> QED BY <2>1
<1>2. CASE type # "mysql"
  <2>1. IndexStatements = <<"iata_code", "iata_date", "icao_code", "geonameid">>
    BY <1>2 DEF IndexStatements
  <2> QED BY <1>2, <2>1
<1> QED BY <1>1, <1>2

\* the statements up to one are those before it, and it
LEMMA UpTo ==
  /\ \A i, k \in Nat : i < k + 1 => i < k \/ i = k
  /\ \A k \in Nat, l \in Nat : k > l => \A i \in 1..l : i < k
OBVIOUS

LEMMA TutorialInit == Init => TutorialInv
<1> SUFFICES ASSUME Init PROVE TutorialInv
  OBVIOUS
<1>1. pc = "off" /\ log = <<>>
  BY DEF Init
<1> QED
  BY <1>1, TailEmpty DEF TutorialInv, StepInv, AfterTables, AfterFill, AfterIndexes, Steps

\* the end of the session, and its beginning
LEMMA TutorialOff ==
  ASSUME log' = <<>>, pc' \in {"off", "prompt"}
  PROVE  TutorialInv'
<1>1. ~ TablesCreated' /\ ~ TableFilled' /\ ~ TableIndexed'
  BY TailEmpty
<1> QED
  BY <1>1 DEF TutorialInv, StepInv, AfterTables, AfterFill, AfterIndexes, Steps

\* a report that is none of the tutorial's
LEMMA TutorialOther ==
  ASSUME TypeInv, pc' = "prompt", NEW command \in Messages, log' = Append(log, command),
         command \notin {"create_tables", "create_indexes"},
         command = "fill_from_por_file" => ~ TablesCreated
  PROVE  TutorialInv'
<1>1. ~ TablesCreated' /\ ~ TableFilled' /\ ~ TableIndexed'
  BY TailAppended
<1> QED
  BY <1>1 DEF TutorialInv, StepInv, AfterTables, AfterFill, AfterIndexes, Steps

\* the steps of the other commands
LEMMA TutorialElsewhere ==
  ASSUME TutorialInv, UNCHANGED <<type, log>>, type # "nodb", StepInv',
         pc' \in Steps \ {"create index", "lines"}
  PROVE  TutorialInv'
<1>1. TablesCreated' <=> TablesCreated
  BY TailUnchanged
<1> QED
  BY <1>1 DEF TutorialInv, AfterTables, AfterFill, AfterIndexes, Steps

LEMMA ReadCommandTutorial ==
  ASSUME TypeInv, TutorialInv, NEW command \in Commands, ReadCommand(command)
  PROVE  TutorialInv'
<1>1. /\ pc = "prompt" /\ pc' = "connect" /\ n' = 0 /\ log' = log
      /\ UNCHANGED <<type, file, rows, indexes, conn>>
  BY DEF ReadCommand, stores
<1>2. Lines(conn)' = Lines(conn) /\ PorLines' = PorLines
  BY <1>1 DEF Lines, PorLines
<1>3. StepInv'
  BY <1>1 DEF StepInv, Steps
<1> QED
  BY <1>1, <1>2, <1>3, TailUnchanged DEF TutorialInv, AfterTables, AfterFill, AfterIndexes

LEMMA ConnectTutorial ==
  ASSUME TypeInv, TutorialInv, Connect
  PROVE  TutorialInv'
<1>1. /\ pc = "connect" /\ pc' = FirstStep /\ log' = log /\ type # "nodb" /\ at = 1 /\ n = 0
      /\ UNCHANGED <<type, file, rows, indexes, conn, cmd, at, n>>
  BY DEF Connect, Connects, stores, TypeInv, CommandInv, TutorialInv, StepInv
<1>2. cmd \in Commands
  BY <1>1 DEF TypeInv, CommandInv, Busy
<1>3. /\ FirstStep \in {"grant", "drop table", "create index", "lines", "select"}
      /\ FirstStep = "drop table" => cmd = "create_tables"
      /\ FirstStep = "create index" => cmd = "create_indexes"
      /\ FirstStep = "select" => cmd \in {"list_nb", "list_by"}
  BY <1>2 DEF FirstStep, Commands
<1>4. \A i \in DOMAIN IndexStatements : ~ (i < 1)
  BY IndexStatementsFirst
<1>5. StepInv'
  BY <1>1, <1>3, <1>4 DEF StepInv, IndexStatements
<1>6. Lines(conn)' = Lines(conn) /\ PorLines' = PorLines
  BY <1>1 DEF Lines, PorLines
<1>7. rows[conn] = {} => Counted'
  <2> SUFFICES ASSUME rows[conn] = {} PROVE Counted'
    OBVIOUS
  <2>1. 1..(at - 1) = {} /\ Cardinality({}) = 0
    BY <1>1, FS_EmptySet
  <2>2. Lines(conn) = {}
    BY DEF Lines
  <2>3. PorLines' \cap 1..(at' - 1) = {}
    BY <1>1, <2>1
  <2> QED BY <1>1, <1>6, <2>1, <2>2, <2>3 DEF Counted
<1> QED
  BY <1>1, <1>3, <1>5, <1>6, <1>7, TailUnchanged
  DEF TutorialInv, AfterTables, AfterFill, AfterIndexes

LEMMA CreateTableTutorial ==
  ASSUME TypeInv, TutorialInv, CreateTable
  PROVE  TutorialInv'
<1>1. /\ pc' = "prompt" /\ log' = Append(log, "create_tables") /\ type # "nodb"
      /\ rows[conn] = {} /\ UNCHANGED <<type, rows, conn>>
  BY DEF CreateTable, Report, TutorialInv, StepInv, Steps
<1>2. TablesCreated' /\ ~ TableFilled' /\ ~ TableIndexed'
  BY <1>1, TailAppended DEF Messages, Commands
<1> QED
  BY <1>1, <1>2 DEF TutorialInv, StepInv, AfterTables, AfterFill, AfterIndexes, Steps

LEMMA CreateIndexTutorial ==
  ASSUME TypeInv, TutorialInv, CreateIndex
  PROVE  TutorialInv'
<1>1. /\ pc = "create index" /\ pc' = pc /\ at' = at + 1 /\ at \in Nat
      /\ indexes' = [indexes EXCEPT ![conn] = @ \cup {IndexStatements[at]}]
      /\ UNCHANGED <<type, file, rows, conn, cmd, log>>
  BY DEF CreateIndex, AtIndex, TypeInv, TypeOK, SessionOK
<1>2. indexes'[conn] = indexes[conn] \cup {IndexStatements[at]}
  BY <1>1 DEF TypeInv, TypeOK, SessionOK, StoresOK
<1>3. ASSUME NEW i \in DOMAIN IndexStatements, i < at + 1 PROVE i < at \/ i = at
  <2>1. i \in Nat /\ at \in Nat
    BY <1>1, IndexStatementsFirst
  <2> QED BY <1>3, <2>1, UpTo
<1>4. IndexStatements' = IndexStatements
  BY <1>1 DEF IndexStatements
<1>5. StepInv'
  BY <1>1, <1>2, <1>3, <1>4 DEF TutorialInv, StepInv, Steps
<1>6. Lines(conn)' = Lines(conn) /\ PorLines' = PorLines
  BY <1>1 DEF Lines, PorLines
<1> QED
  BY <1>1, <1>5, <1>6, TailUnchanged DEF TutorialInv, AfterTables, AfterFill, AfterIndexes

\* all the statements were executed, the one of the unique key among them
LEMMA IndexesCreatedTutorial ==
  ASSUME TypeInv, KeysUnique, TutorialInv, IndexesCreated
  PROVE  TutorialInv'
<1>1. /\ pc = "create index" /\ pc' = "prompt" /\ log' = Append(log, "create_indexes")
      /\ at > Len(IndexStatements) /\ at \in Nat /\ conn \in Strings
      /\ type \in Types \ {"nodb"}
      /\ UNCHANGED <<type, file, rows, indexes, conn>>
  BY DEF IndexesCreated, Report, stores, TypeInv, TypeOK, SessionOK, TutorialInv, StepInv, Steps
<1>2. \A i \in DOMAIN IndexStatements : i < at
  <2>1. at > Len(IndexStatements) /\ at \in Nat /\ Len(IndexStatements) \in Nat
    BY <1>1, IndexStatementsFirst
  <2>2. \A i \in 1..Len(IndexStatements) : i < at
    BY <2>1, UpTo
  <2> QED BY <2>2, IndexStatementsFirst
<1>3. AllIndexed
  BY <1>1, <1>2 DEF AllIndexed, TutorialInv, StepInv
<1>4. ~ HasDuplicates(conn)
  <2>1. 1 \in DOMAIN IndexStatements
    BY IndexStatementsFirst
  <2>2. IndexStatements[1] \in indexes[conn]
    BY <1>3, <2>1 DEF AllIndexed
  <2>3. conn \in table
    BY <1>1, <2>2 DEF TypeInv, TypeOK, StoresOK
  <2>4. type \in {"sqlite", "mysql"}
    BY <1>1, DatabaseAssumption DEF DatabaseAssumption
  <2>5. HasUniqueKey(conn)
    BY <2>2, <2>3, <2>4, IndexStatementsFirst DEF HasUniqueKey
  <2> QED BY <1>1, <2>5 DEF KeysUnique
<1>5. Lines(conn)' = Lines(conn) /\ PorLines' = PorLines
  BY <1>1 DEF Lines, PorLines
<1>6. HasDuplicates(conn)' = HasDuplicates(conn) /\ AllIndexed' = AllIndexed
  BY <1>1 DEF HasDuplicates, SameKey, AllIndexed, IndexStatements
<1>7. ~ TablesCreated' /\ ~ TableFilled' /\ (TableIndexed' <=> TableFilled)
  <2>1. "create_indexes" \in Messages /\ log' = Append(log, "create_indexes")
    BY <1>1 DEF Messages, Commands
  <2> QED BY <2>1, TailAppended
<1> QED
  BY <1>1, <1>3, <1>4, <1>5, <1>6, <1>7
  DEF TutorialInv, StepInv, AfterTables, AfterFill, AfterIndexes, Steps

LEMMA SkipLineTutorial ==
  ASSUME TypeInv, TutorialInv, SkipLine
  PROVE  TutorialInv'
<1>1. /\ pc = "lines" /\ pc' = pc /\ at \in Nat \ {0} /\ at' = at + 1 /\ at \notin PorLines
      /\ UNCHANGED <<type, file, rows, indexes, conn, cmd, n, log>>
  BY DEF SkipLine, AtLine, PorLines, stores, TypeInv, TypeOK, SessionOK
<1>2. Lines(conn)' = Lines(conn) /\ PorLines' = PorLines
  BY <1>1 DEF Lines, PorLines
<1>3. PorLines \cap 1..(at - 1) = PorLines \cap 1..(at + 1 - 1)
  BY <1>1
<1>4. Counted => Counted'
  <2> SUFFICES ASSUME Counted PROVE Counted'
    OBVIOUS
  <2>1. /\ Lines(conn) = PorLines \cap 1..(at + 1 - 1)
        /\ n = Cardinality(PorLines \cap 1..(at + 1 - 1)) /\ n = Cardinality(rows[conn])
    BY <1>3 DEF Counted
  <2> QED BY <1>1, <1>2, <2>1 DEF Counted
<1>5. StepInv'
  BY <1>1 DEF TutorialInv, StepInv, Steps
<1> QED
  BY <1>1, <1>4, <1>5, TailUnchanged DEF TutorialInv, AfterTables, AfterFill, AfterIndexes

LEMMA InsertPlaceTutorial ==
  ASSUME TypeInv, TutorialInv, InsertPlace
  PROVE  TutorialInv'
<1>1. /\ pc = "lines" /\ pc' = pc /\ at \in Nat \ {0} /\ at' = at + 1 /\ at \in PorLines
      /\ rows' = [rows EXCEPT ![conn] = @ \cup {InHand}] /\ conn \in Strings
      /\ n' = n + 1 /\ n \in Nat
      /\ UNCHANGED <<type, file, indexes, conn, cmd, log>>
  BY DEF InsertPlace, AtLine, PorLines, TypeInv, TypeOK, SessionOK
<1>2. rows'[conn] = rows[conn] \cup {InHand} /\ IsFiniteSet(rows[conn])
  BY <1>1 DEF TypeInv, TypeOK, StoresOK, FiniteRows
<1>3. PorLines' = PorLines /\ InHand.line = at
  BY <1>1 DEF PorLines, InHand
<1>4. PorLines \cap 1..(at + 1 - 1) = (PorLines \cap 1..(at - 1)) \cup {at}
  BY <1>1
<1>5. at \notin PorLines \cap 1..(at - 1)
  BY <1>1
<1>6. Counted => Counted'
  <2> SUFFICES ASSUME Counted PROVE Counted'
    OBVIOUS
  <2>1. Lines(conn)' = Lines(conn) \cup {at}
    <3>1. Lines(conn)' = {r.line : r \in rows[conn] \cup {InHand}}
      BY <1>1, <1>2 DEF Lines
    <3> QED BY <1>3, <3>1 DEF Lines
  <2>2. InHand \notin rows[conn]
    BY <1>3, <1>5 DEF Counted, Lines
  <2>3. Cardinality(rows'[conn]) = Cardinality(rows[conn]) + 1
    BY <1>2, <2>2, FS_AddElement
  <2>4. IsFiniteSet(PorLines \cap 1..(at - 1))
    <3>1. IsFiniteSet(1..(at - 1))
      BY <1>1, FS_Interval
    <3> QED BY <3>1, FS_Subset
  <2>5. Cardinality((PorLines \cap 1..(at - 1)) \cup {at})
            = Cardinality(PorLines \cap 1..(at - 1)) + 1
    BY <1>5, <2>4, FS_AddElement
  <2>6. Lines(conn)' = (PorLines \cap 1..(at + 1 - 1))
    BY <1>4, <2>1 DEF Counted
  <2>7. n + 1 = Cardinality(PorLines \cap 1..(at + 1 - 1))
    BY <1>4, <2>5 DEF Counted
  <2>8. n + 1 = Cardinality(rows'[conn])
    BY <2>3 DEF Counted
  <2> QED BY <1>1, <1>3, <2>6, <2>7, <2>8 DEF Counted
<1>7. StepInv'
  BY <1>1 DEF TutorialInv, StepInv, Steps
<1> QED
  BY <1>1, <1>6, <1>7, TailUnchanged DEF TutorialInv, AfterTables, AfterFill, AfterIndexes

\* past the last line, all the PORs were counted
LEMMA EndOfFileTutorial ==
  ASSUME TypeInv, TutorialInv, EndOfFile
  PROVE  TutorialInv'
<1>1. /\ pc = "lines" /\ pc' = "prompt" /\ log' = Append(log, "fill_from_por_file")
      /\ at \in Nat \ {0} /\ at \notin DOMAIN file
      /\ UNCHANGED <<type, file, rows, conn, n>>
  BY DEF EndOfFile, Report, stores, TypeInv, TypeOK, SessionOK, CommandInv
<1>2. PorLines \cap 1..(at - 1) = PorLines
  <2>1. file \in Seq(Line)
    BY DatabaseAssumption DEF DatabaseAssumption, TypeInv, TypeOK
  <2>2. at > Len(file) /\ Len(file) \in Nat
    BY <1>1, <2>1
  <2>3. 1..Len(file) \subseteq 1..(at - 1)
    BY <1>1, <2>2
  <2> QED BY <2>3, PorLinesNat
<1>3. Lines(conn)' = Lines(conn) /\ PorLines' = PorLines /\ AllCounted' = AllCounted
  BY <1>1 DEF Lines, PorLines, AllCounted
<1>4. Counted => Lines(conn) = PorLines /\ AllCounted
  BY <1>2 DEF Counted, AllCounted
<1>5. ~ TablesCreated' /\ ~ TableIndexed' /\ (TableFilled' <=> TablesCreated)
  BY <1>1, TailAppended DEF Messages, Commands
<1> QED
  BY <1>1, <1>3, <1>4, <1>5
  DEF TutorialInv, StepInv, AfterTables, AfterFill, AfterIndexes, Steps

LEMMA TutorialStep ==
  TypeInv /\ UserInv /\ KeysUnique /\ TutorialInv /\ [Next]_vars => TutorialInv'
<1> SUFFICES ASSUME TypeInv, UserInv, KeysUnique, TutorialInv, [Next]_vars
             PROVE  TutorialInv'
  OBVIOUS
<1>1. ASSUME NEW c \in Given[type], StartSession(c) PROVE TutorialInv'
  BY <1>1, TutorialOff DEF StartSession, UserInv
<1>2. ASSUME NEW c \in Given[type], ResetConnectionString(c) PROVE TutorialInv'
  BY <1>2, TutorialOther DEF ResetConnectionString, Messages
<1>3. ASSUME NEW c \in Commands, ReadCommand(c) PROVE TutorialInv'
  BY <1>3, ReadCommandTutorial
<1>4. CASE Connect
  BY <1>4, ConnectTutorial
<1>5. CASE CreateSQLiteFile \/ RemoveSQLiteFile \/ GrantRights \/ DropDatabase
  <2>1. UNCHANGED <<type, log>> /\ type # "nodb" /\ pc' \in {"remove", "mkdir", "drop database", "create database"}
    BY <1>5 DEF CreateSQLiteFile, RemoveSQLiteFile, GrantRights, DropDatabase, UserInv
  <2>2. StepInv'
    BY <2>1 DEF StepInv
  <2> QED BY <2>1, <2>2, TutorialElsewhere DEF Steps
<1>6. CASE NothingToDo
  <2>1. /\ type = "nodb" /\ cmd \in {"create_user", "fill_from_por_file"}
        /\ pc' = "prompt" /\ log' = Append(log, cmd)
    BY <1>6 DEF NothingToDo, Report
  <2>2. ~ TablesCreated
    BY <2>1 DEF TutorialInv, AfterTables
  <2> QED BY <2>1, <2>2, TutorialOther DEF Messages, Commands
<1>7. CASE CreateSQLiteDirectory \/ CreateDatabase
  <2>1. cmd = "create_user" /\ pc' = "prompt" /\ log' = Append(log, cmd)
    BY <1>7 DEF CreateSQLiteDirectory, CreateDatabase, Report, UserInv
  <2> QED BY <2>1, TutorialOther DEF Messages, Commands
<1>8. CASE StatementRefused
  BY <1>8, TutorialOther DEF StatementRefused, Messages
<1>9. CASE DropTable
  <2>1. /\ pc = "drop table" /\ pc' = "create table" /\ UNCHANGED <<type, log, conn, cmd>>
        /\ rows' = [rows EXCEPT ![conn] = {}] /\ conn \in Strings
    BY <1>9 DEF DropTable, Emptied, TypeInv, TypeOK, SessionOK
  <2>2. rows'[conn'] = {} /\ type # "nodb" /\ cmd = "create_tables"
    BY <2>1 DEF TypeInv, TypeOK, StoresOK, TutorialInv, StepInv, Steps
  <2>3. StepInv'
    BY <2>1, <2>2 DEF StepInv
  <2> QED BY <2>1, <2>2, <2>3, TutorialElsewhere DEF Steps
<1>10. CASE CreateTable
  BY <1>10, CreateTableTutorial
<1>11. CASE CreateIndex
  BY <1>11, CreateIndexTutorial
<1>12. CASE IndexesCreated
  BY <1>12, IndexesCreatedTutorial
<1>13. CASE SkipLine
  BY <1>13, SkipLineTutorial
<1>14. CASE InsertPlace
  BY <1>14, InsertPlaceTutorial
<1>15. CASE EndOfFile
  BY <1>15, EndOfFileTutorial
<1>16. CASE Select
  <2>1. cmd \in {"list_nb", "list_by"} /\ pc' = "prompt" /\ log' = Append(log, cmd)
    BY <1>16 DEF Select, Report, TutorialInv, StepInv
  <2> QED BY <2>1, TutorialOther DEF Messages, Commands
<1>17. CASE Throw \/ Stop
  BY <1>17, TutorialOff DEF Throw, Stop, EndSession
<1>18. CASE UNCHANGED vars
  <2>1. UNCHANGED <<type, file, rows, indexes, conn, pc, cmd, at, n, log>>
    BY <1>18 DEF vars, stores, session
  <2>2. /\ Lines(conn)' = Lines(conn) /\ PorLines' = PorLines
        /\ HasDuplicates(conn)' = HasDuplicates(conn) /\ IndexStatements' = IndexStatements
    BY <2>1 DEF Lines, PorLines, HasDuplicates, SameKey, IndexStatements
  <2> QED
    BY <2>1, <2>2, TailUnchanged
    DEF TutorialInv, StepInv, AfterTables, AfterFill, AfterIndexes, Counted, AllCounted, AllIndexed
<1> QED
  BY <1>1, <1>2, <1>3, <1>4, <1>5, <1>6, <1>7, <1>8, <1>9, <1>10, <1>11, <1>12, <1>13,
     <1>14, <1>15, <1>16, <1>17, <1>18 DEF Next, Work

LEMMA SubSeqAt ==
  ASSUME NEW s \in Seq(Messages), NEW k \in 1..2, Len(s) > k, NEW i \in 1..k + 1
  PROVE  SubSeq(s, Len(s) - k, Len(s))[i] = s[Len(s) - k + i - 1]
<1>1. Len(s) \in Nat /\ \A j \in (Len(s) - k)..Len(s) : s[j] \in Messages
  OBVIOUS
<1>2. Len(s) - k \in Int /\ i \in 1..Len(s) - (Len(s) - k) + 1
  BY <1>1
<1> QED BY <1>1, <1>2, SubSeqProperties

LEMMA ThreeAppended ==
  ASSUME NEW a, NEW b, NEW c PROVE <<a, b>> \o <<c>> = <<a, b, c>>
<1> DEFINE S == {a, b, c}
<1>1. <<a, b>> \in Seq(S) /\ <<c>> \in Seq(S) /\ <<a, b, c>> \in Seq(S)
  OBVIOUS
<1>2. <<a, b>> \o <<c>> \in Seq(S) /\ Len(<<a, b>> \o <<c>>) = 3
  BY <1>1, ConcatProperties
<1>3. \A i \in 1..3 : (<<a, b>> \o <<c>>)[i] = <<a, b, c>>[i]
  <2>1. (<<a, b>> \o <<c>>)[1] = a /\ (<<a, b>> \o <<c>>)[2] = b /\ (<<a, b>> \o <<c>>)[3] = c
    BY <1>1, ConcatProperties
  <2> QED BY <2>1
<1> QED BY <1>1, <1>2, <1>3, SeqEqual

\* the last commands reported, one by one
LEMMA EndsWithIs ==
  ASSUME TypeInv
  PROVE  /\ EndsWith(Created) => pc = "prompt" /\ TableFilled
         /\ EndsWith(Tutorial) => pc = "prompt" /\ TableIndexed
<1>1. log \in Seq(Messages)
  BY DEF TypeInv, TypeOK, SessionOK
<1>2. PICK l \in Nat : l = Len(log)
  BY <1>1
<1>3. ASSUME EndsWith(Created) PROVE pc = "prompt" /\ TableFilled
  <2> DEFINE tail == SubSeq(log, l - 1, l)
  <2>1. pc = "prompt" /\ l >= 2 /\ tail = <<"create_tables", "fill_from_por_file">>
    BY <1>2, <1>3 DEF EndsWith, Created
  <2>2. tail[1] = log[l - 1] /\ tail[2] = log[l]
    BY <1>1, <1>2, <2>1, SubSeqAt
  <2> HIDE DEF tail
  <2>3. log[l - 1] = "create_tables" /\ log[l] = "fill_from_por_file"
    BY <2>1, <2>2
  <2> QED BY <1>2, <2>1, <2>3 DEF TableFilled
<1>4. ASSUME EndsWith(Tutorial) PROVE pc = "prompt" /\ TableIndexed
  <2> DEFINE tail == SubSeq(log, l - 2, l)
  <2>1. /\ pc = "prompt" /\ l >= 3
        /\ tail = <<"create_tables", "fill_from_por_file", "create_indexes">>
    <3>1. Tutorial = <<"create_tables", "fill_from_por_file", "create_indexes">>
      BY ThreeAppended DEF Tutorial, Created
    <3> QED BY <1>2, <1>4, <3>1 DEF EndsWith
  <2>2. tail[1] = log[l - 2] /\ tail[2] = log[l - 1] /\ tail[3] = log[l]
    BY <1>1, <1>2, <2>1, SubSeqAt
  <2> HIDE DEF tail
  <2>3. /\ log[l - 2] = "create_tables" /\ log[l - 1] = "fill_from_por_file"
        /\ log[l] = "create_indexes"
    BY <2>1, <2>2
  <2> QED BY <1>2, <2>1, <2>3 DEF TableIndexed
<1> QED BY <1>3, <1>4

(***************************************************************************)
(* Whatever the sessions before it, the reports of the tutorial mean what  *)
(* they say: all the PORs of the file are in the table, each under its own *)
(* key, the number told is theirs, and every index is there.               *)
(***************************************************************************)
THEOREM TutorialIsComplete == Spec => []TutorialCompletes
<1>1. Init => TypeInv /\ UserInv /\ RowsInv /\ TutorialInv
  BY TypeInit, UserInit, RowsInit, TutorialInit
<1>2. TypeInv /\ UserInv /\ RowsInv /\ TutorialInv /\ [Next]_vars
          => (TypeInv /\ UserInv /\ RowsInv /\ TutorialInv)'
  BY TypeStep, UserStep, RowsStep, TutorialStep DEF RowsInv
<1>3. TypeInv /\ TutorialInv => TutorialCompletes
  BY EndsWithIs DEF TutorialInv, AfterFill, AfterIndexes, AllCounted, AllIndexed, TutorialCompletes
<1> QED BY <1>1, <1>2, <1>3, PTL DEF Spec

-----------------------------------------------------------------------------
(***************************************************************************)
(* The steps left to a command, at most: its statements, or the lines left *)
(* of the file.                                                            *)
(***************************************************************************)
LinesLeft == IF at <= Len(file) THEN Len(file) + 2 - at ELSE 1
IndexesLeft ==
    IF at <= Len(IndexStatements) THEN Len(IndexStatements) + 2 - at ELSE 1

CommandLeft ==
    CASE pc = "connect"         -> Len(file) + Len(IndexStatements) + 5
      [] pc = "grant"           -> 3
      [] pc = "remove"          -> 2
      [] pc = "mkdir"           -> 1
      [] pc = "drop database"   -> 2
      [] pc = "create database" -> 1
      [] pc = "drop table"      -> 2
      [] pc = "create table"    -> 1
      [] pc = "create index"    -> IndexesLeft
      [] pc = "lines"           -> LinesLeft
      [] pc = "select"          -> 1
      [] OTHER                  -> 0

LEMMA Lengths ==
  ASSUME TypeInv
  PROVE  /\ Len(file) \in Nat /\ DOMAIN file = 1..Len(file)
         /\ Len(IndexStatements) \in Nat /\ at \in Nat \ {0}
<1>1. file \in Seq(Line)
  BY DatabaseAssumption DEF TypeInv, TypeOK, DatabaseAssumption
<1>2. Len(IndexStatements) \in Nat
  BY DEF IndexStatements
<1> QED BY <1>1, <1>2 DEF TypeInv, TypeOK, SessionOK

LEMMA CommandCounted ==
  ASSUME TypeInv
  PROVE  CommandLeft \in Nat /\ (Busy => CommandLeft > 0)
<1>1. Len(file) \in Nat /\ Len(IndexStatements) \in Nat /\ at \in Nat \ {0}
  BY Lengths
<1>2. LinesLeft \in Nat \ {0} /\ IndexesLeft \in Nat \ {0}
  BY <1>1 DEF LinesLeft, IndexesLeft
<1>3. CommandLeft \in {0, 1, 2, 3, Len(file) + Len(IndexStatements) + 5, LinesLeft, IndexesLeft}
  BY Zenon DEF CommandLeft
<1>4. Busy => CommandLeft \in {1, 2, 3, Len(file) + Len(IndexStatements) + 5,
                              LinesLeft, IndexesLeft}
  BY Zenon DEF CommandLeft, Busy, Steps
<1> QED BY <1>1, <1>2, <1>3, <1>4

LEMMA CommandFalls ==
  ASSUME TypeInv, CommandLeft' \in Nat, Next, Busy
  PROVE  CommandLeft' < CommandLeft
<1>0. /\ Len(file) \in Nat /\ DOMAIN file = 1..Len(file)
      /\ Len(IndexStatements) \in Nat /\ at \in Nat \ {0}
  BY Lengths
<1>1. CommandLeft \in Nat \ {0}
  BY CommandCounted
<1>2. CASE pc' \in {"off", "prompt"}
  <2>1. CommandLeft' = 0
    BY <1>2 DEF CommandLeft
  <2> QED BY <1>1, <2>1
<1>3. CASE Connect \/ CreateSQLiteFile
  <2>1. pc = "connect" /\ at' = 1 /\ UNCHANGED <<type, file>>
    BY <1>3 DEF Connect, CreateSQLiteFile, TypeInv, CommandInv
  <2>2. pc' \in {"remove", "grant", "drop table", "create index", "lines", "select"}
    BY <1>3 DEF Connect, CreateSQLiteFile, FirstStep
  <2>3. IndexStatements' = IndexStatements
    BY <2>1 DEF IndexStatements
  <2>4. /\ LinesLeft' <= Len(file) + 1
        /\ IndexesLeft' <= Len(IndexStatements) + 1
    BY <1>0, <2>1, <2>3 DEF LinesLeft, IndexesLeft
  <2>5. CommandLeft = Len(file) + Len(IndexStatements) + 5
    BY <2>1 DEF CommandLeft
  <2>6. \/ CommandLeft' \in {1, 2, 3}
        \/ CommandLeft' = LinesLeft'
        \/ CommandLeft' = IndexesLeft'
    BY <2>2, Zenon DEF CommandLeft
  <2> QED BY <1>0, <2>4, <2>5, <2>6
<1>4. CASE RemoveSQLiteFile \/ GrantRights \/ DropDatabase \/ DropTable
  <2>1. \/ pc = "remove" /\ pc' = "mkdir"
        \/ pc = "grant" /\ pc' = "drop database"
        \/ pc = "drop database" /\ pc' = "create database"
        \/ pc = "drop table" /\ pc' = "create table"
    BY <1>4 DEF RemoveSQLiteFile, GrantRights, DropDatabase, DropTable
  <2>2. \/ CommandLeft = 2 /\ CommandLeft' = 1
        \/ CommandLeft = 3 /\ CommandLeft' = 2
    BY <2>1, Zenon DEF CommandLeft
  <2> QED BY <2>2
<1>5. CASE CreateIndex
  <2>1. /\ pc = "create index" /\ pc' = "create index" /\ at' = at + 1 /\ type' = type
        /\ at <= Len(IndexStatements)
    BY <1>5 DEF CreateIndex, AtIndex
  <2>2. IndexStatements' = IndexStatements
    BY <2>1 DEF IndexStatements
  <2> DEFINE m == Len(IndexStatements)
  <2>3. m \in Nat /\ at \in Nat /\ at <= m /\ at' = at + 1 /\ m' = m
    BY <1>0, <2>1, <2>2
  <2>4. IndexesLeft = m + 2 - at /\ IndexesLeft' = IF at + 1 <= m THEN m + 1 - at ELSE 1
    <3>1. IndexesLeft = (IF at <= m THEN m + 2 - at ELSE 1)
          /\ IndexesLeft' = (IF at' <= m' THEN m' + 2 - at' ELSE 1)
      BY DEF IndexesLeft
    <3> HIDE DEF m
    <3> QED BY <2>3, <3>1
  <2> HIDE DEF m
  <2>5. IndexesLeft' < IndexesLeft
    BY <2>3, <2>4
  <2>6. CommandLeft = IndexesLeft /\ CommandLeft' = IndexesLeft'
    BY <2>1, Zenon DEF CommandLeft
  <2> QED BY <2>5, <2>6
<1>6. CASE SkipLine \/ InsertPlace
  <2>1. /\ pc = "lines" /\ pc' = "lines" /\ at' = at + 1 /\ file' = file
        /\ at <= Len(file)
    BY <1>0, <1>6 DEF SkipLine, InsertPlace, AtLine
  <2>2. LinesLeft' < LinesLeft
    BY <1>0, <2>1 DEF LinesLeft, IndexesLeft
  <2>3. CommandLeft = LinesLeft /\ CommandLeft' = LinesLeft'
    BY <2>1, Zenon DEF CommandLeft
  <2> QED BY <2>2, <2>3
<1>7. CASE \/ NothingToDo \/ CreateSQLiteDirectory \/ CreateDatabase \/ StatementRefused
           \/ CreateTable \/ IndexesCreated \/ EndOfFile \/ Select \/ Throw \/ Stop
  BY <1>2, <1>7 DEF NothingToDo, CreateSQLiteDirectory, CreateDatabase, StatementRefused,
     CreateTable, IndexesCreated, EndOfFile, Select, Throw, Stop, Report, EndSession
<1>8. /\ ~ \E c \in Given[type] : StartSession(c) \/ ResetConnectionString(c)
      /\ ~ \E c \in Commands : ReadCommand(c)
  BY DEF StartSession, ResetConnectionString, ReadCommand, Busy, Steps
<1> QED BY <1>3, <1>4, <1>5, <1>6, <1>7, <1>8 DEF Next, Work

(***************************************************************************)
(* A command never turns in circles: each step taken until its report, or  *)
(* the end of the program, lowers a natural number, however long the file  *)
(* is and whatever the database refuses.  It is what CommandEnds rests on, *)
(* beside the fairness of FairSpec.                                        *)
(***************************************************************************)
CommandAdvances == [][Busy => CommandLeft' < CommandLeft /\ CommandLeft' \in Nat]_vars

THEOREM CommandNeverCircles == Spec => CommandAdvances
<1>1. TypeInv => CommandLeft \in Nat
  BY CommandCounted
<1>2. TypeInv /\ (CommandLeft \in Nat)' /\ [Next]_vars
        => [Busy => CommandLeft' < CommandLeft /\ CommandLeft' \in Nat]_vars
  BY CommandFalls
<1> QED BY <1>1, <1>2, TypeInvariant, PTL DEF Spec, CommandAdvances
=============================================================================
