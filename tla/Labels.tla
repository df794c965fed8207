------------------------------- MODULE Labels -------------------------------
(***************************************************************************)
(* The enumerations of the library, and their conversions from and to the  *)
(* texts of the POR file, of the SQL table and of the callers: IATAType,   *)
(* DBType and OutputFormat.  A text out of the domain of a conversion      *)
(* makes it throw CodeConversionException.                                 *)
(***************************************************************************)
EXTENDS Naturals, Sequences

PlaceType == {"CTY_AIRP", "CTY_HPT", "CTY_RSTN", "CTY_BSTN", "CTY_FERRY",
              "CITY", "AIRP", "HPT", "RSTN", "BSTN", "FERRY", "OFF"}

\* from the text of the POR file
IATAType == [
    CA |-> "CTY_AIRP", CH |-> "CTY_HPT", CR |-> "CTY_RSTN",
    CB |-> "CTY_BSTN", CP |-> "CTY_FERRY",
    C |-> "CITY", A |-> "AIRP", H |-> "HPT", R |-> "RSTN",
    B |-> "BSTN", P |-> "FERRY", O |-> "OFF"]

\* to the column location_type, and back
TypeLabel == [
    CTY_AIRP |-> "a", CTY_HPT |-> "h", CTY_RSTN |-> "r",
    CTY_BSTN |-> "b", CTY_FERRY |-> "p",
    CITY |-> "C", AIRP |-> "A", HPT |-> "H", RSTN |-> "R",
    BSTN |-> "B", FERRY |-> "P", OFF |-> "O"]

TypeOfLabel == [
    a |-> "CTY_AIRP", h |-> "CTY_HPT", r |-> "CTY_RSTN",
    b |-> "CTY_BSTN", p |-> "CTY_FERRY",
    C |-> "CITY", A |-> "AIRP", H |-> "HPT", R |-> "RSTN",
    B |-> "BSTN", P |-> "FERRY", O |-> "OFF"]

DBType == [
    sqlite |-> "SQLITE3", sqlite3 |-> "SQLITE3",
    mysql |-> "MYSQL", mariadb |-> "MYSQL",
    nodb |-> "NODB"]

Format == [S |-> "SHORT", F |-> "FULL", J |-> "JSON", P |-> "PROTOBUF"]
=============================================================================
