------------------------- MODULE MCDatabaseManager -------------------------
(***************************************************************************)
(* One path for SQLite, the strings of an administrator and of user trep   *)
(* for MySQL; files with a header, a repeated POR and a rejected line.     *)
(***************************************************************************)
EXTENDS DatabaseManager

CONSTANTS k1, k2

por(k) == [key |-> k, form |-> "por"]
header == [key |-> k1, form |-> "unnamed"]
broken == [key |-> k2, form |-> "malformed"]

MCGiven == [nodb |-> {"path"}, sqlite |-> {"path"}, mysql |-> {"admin", "path", "trep"}]

MCFiles == {<<por(k1), por(k1)>>,
            <<header, por(k1), por(k2)>>,
            <<por(k1), broken, por(k2)>>}
=============================================================================
