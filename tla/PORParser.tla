----------------------------- MODULE PORParser ------------------------------
(***************************************************************************)
(* The parsing of a line of the POR file into a Location: the grammar of   *)
(* PORParserHelper.cpp, whose semantic actions write to the Location as    *)
(* the text is matched, and are not undone when what follows is not.       *)
(*                                                                         *)
(* The text of a column is abstracted to the place where it is read, a     *)
(* token <<POR of the line, column, item of the list>>, so that a Location *)
(* tells where each of its attributes comes from.  <<>> is the default     *)
(* value that the constructor gives.                                       *)
(***************************************************************************)
EXTENDS Labels, FiniteSets, Functions

CONSTANTS
    Languages,      \* language codes of the alternate names
    PorTypes,       \* texts of the column of the type
    MaxPors,        \* bound: PORs found on one line
    MaxItems,       \* bound: items of a list
    MaxOdd,         \* bound: columns that differ from the shape of their POR
    MaxErrors       \* bound: edit distance of a match

ASSUME BoundsAssumption ==
    /\ MaxPors \in Nat \ {0} /\ MaxItems \in Nat \ {0}
    /\ MaxOdd \in Nat /\ MaxErrors \in Nat

None == <<>>

(***************************************************************************)
(* The columns, in the blocks of the line that are read between two lists  *)
(* or dates; those that may be left empty have a minus sign in the grammar.*)
(***************************************************************************)
Needed == [
    key     |-> {"iata_code", "is_geonames", "geoname_id"},
    names   |-> {"common_name", "ascii_name", "feat_class", "feat_code"},
    country |-> {"country_code", "country_name"},
    figures |-> {},
    end     |-> {"por_type"}]

Optional == [
    key     |-> {"icao_code", "faa_code", "envelope_id"},
    names   |-> {"latitude", "longitude", "page_rank"},
    country |-> {"comments", "country_code2", "continent_name",
                 "adm1_code", "adm1_name_utf", "adm1_name_ascii",
                 "adm2_code", "adm2_name_utf", "adm2_name_ascii",
                 "adm3_code", "adm4_code"},
    figures |-> {"population", "elevation", "gtopo30", "time_zone",
                 "gmt_offset", "dst_offset", "raw_offset"},
    end     |-> {"state_code", "wiki_link"}]

\* matched, and dropped: the parser keeps nothing of them
Dropped == {"is_geonames", "comments", "date_from", "date_until"}

Plain == (UNION (Range(Needed) \cup Range(Optional))) \ Dropped

City == {"city_code", "city_utf_name", "city_ascii_name", "city_geonames_id"}

(***************************************************************************)
(* The attributes of a Location that a token is stored in.                 *)
(***************************************************************************)
Attribute == Plain \cup City \cup {"mod_date"}

Column == Plain \cup Dropped \cup {"mod_date", "city_code_list",
              "city_name_list", "city_detail_list", "tvl_por_code_list"}

Token == (1..MaxPors) \X Column \X (1..MaxItems)

ASSUME LanguagesAssumption == Languages \cap ({"", "text"} \cup Column) = {}

\* the text of an alternate name, with the language its item gives, or ""
NameToken == (1..MaxPors) \X (Languages \cup {""}) \X (1..MaxItems)

VARIABLES
    at,         \* the block about to be read; a verdict when the line is done
    por,        \* number of PORs begun on the line
    shape,      \* "full" or "bare": whether that POR gives its columns
    odd,        \* number of columns that differ from it
    rest,       \* what is known of the text of that POR
    item,       \* number of items read of the current list
    line,       \* all that was read so far, a set of tokens
    attr,       \* the attributes of the Location
    iataType,   \* its type, LAST_VALUE to begin with
    tvl,        \* its list of travel-related PORs
    nameMatrix, \* its alternate names, by language
    itDate,     \* _itYear, _itMonth and _itDay
    itTvl,      \* _itTvlPORList
    itLanguage, \* _itLanguageCode
    distance    \* its edit distances, once it answers a request

text == <<por, shape, odd, rest, item, line>>
staged == <<itDate, itTvl, itLanguage>>
location == <<attr, iataType, tvl, nameMatrix, distance>>
vars == <<at, text, location, staged>>

Block == {"key", "names", "dates", "country", "figures", "mod_date",
          "city_codes", "city_names", "city_details", "tvl_pors", "end",
          "alt_names"}

Verdict == {"accepted", "refused", "thrown", "located"}

Tok(col) == <<por, col, 1>>

NoNames == [l \in Languages \cup {"", "text"} |-> <<>>]

(***************************************************************************)
(* A line, and the Location its parser fills in: both are new for every    *)
(* line.                                                                   *)
(***************************************************************************)
NoAttributes == [a \in Attribute |-> None]

NoDistance == [actual |-> 0, allowable |-> 0]

Init ==
    /\ at = "start"
    /\ por = 0 /\ shape = "full" /\ odd = 0 /\ rest = "any" /\ item = 0
    /\ line = {}
    /\ attr = NoAttributes /\ iataType = "LAST_VALUE"
    /\ tvl = <<>> /\ nameMatrix = NoNames
    /\ distance = NoDistance
    /\ itDate = None /\ itTvl = <<>> /\ itLanguage = ""

(***************************************************************************)
(* start = eps >> *(header | por_rule): a line that is empty, or has the   *)
(* titles of the columns, is accepted, and nothing is stored.              *)
(***************************************************************************)
NoPor ==
    /\ at = "start"
    /\ at' = "accepted"
    /\ UNCHANGED <<text, location, staged>>

BeginPor(s) ==
    /\ por < MaxPors
    /\ at' = "key" /\ por' = por + 1 /\ shape' = s /\ item' = 0
    /\ UNCHANGED <<odd, line, location>>

FirstPor ==
    /\ at = "start"
    /\ \E s \in {"full", "bare"} : BeginPor(s)
    /\ UNCHANGED <<rest, staged>>

\* how far columns are from the shape of their POR
Oddity(given, could) ==
    IF shape = "full" THEN could - given ELSE given

Spend(given, could) ==
    /\ odd' = odd + Oddity(given, could)
    /\ odd' <= MaxOdd

Move(next) ==
    /\ at' = next
    /\ item' = 0
    /\ UNCHANGED <<por, shape, rest>>

(***************************************************************************)
(* A block of columns: each stores its text in the attribute of its name,  *)
(* setIataCode() for iata_code and so on.  A column left empty stores      *)
(* nothing.  The flag of Geonames and the comments are only matched.       *)
(***************************************************************************)
Store(given) ==
    attr' = [a \in Attribute |-> IF a \in given THEN Tok(a) ELSE attr[a]]

Columns(block, next) ==
    /\ at = block
    /\ \E given \in SUBSET Optional[block] :
           /\ Spend(Cardinality(given), Cardinality(Optional[block]))
           /\ line' = line \cup {Tok(c) : c \in Needed[block] \cup given}
           /\ Store(Needed[block] \cup given)
    /\ Move(next)
    /\ UNCHANGED <<tvl, nameMatrix, distance, staged>>

PorKey == Columns("key", "names") /\ UNCHANGED iataType
PorNames == Columns("names", "dates") /\ UNCHANGED iataType
PorCountry == Columns("country", "figures") /\ UNCHANGED iataType
PorFigures == Columns("figures", "mod_date") /\ UNCHANGED iataType

PorEnd ==
    /\ Columns("end", "alt_names")
    /\ \E t \in PorTypes \cap DOMAIN IATAType : iataType' = IATAType[t]

(***************************************************************************)
(* The dates of validity: the three elements of a date are staged in the   *)
(* Location, but storeDateFrom and storeDateUntil make nothing of them.    *)
(***************************************************************************)
ValidityDates ==
    /\ at = "dates"
    /\ \E given \in SUBSET {"date_from", "date_until"} :
           /\ Spend(Cardinality(given), 2)
           /\ line' = line \cup {Tok(c) : c \in given}
           /\ itDate' = IF "date_until" \in given THEN Tok("date_until")
                        ELSE IF "date_from" \in given THEN Tok("date_from")
                        ELSE itDate
    /\ Move("country")
    /\ UNCHANGED <<location, itTvl, itLanguage>>

(***************************************************************************)
(* The date of modification, staged then calculated, or -1.                *)
(***************************************************************************)
ModDate ==
    /\ at = "mod_date"
    /\ Spend(1, 1)
    /\ line' = line \cup {Tok("mod_date")}
    /\ itDate' = Tok("mod_date")
    /\ attr' = [attr EXCEPT !["mod_date"] = itDate']
    /\ Move("city_codes")
    /\ UNCHANGED <<iataType, tvl, nameMatrix, distance, itTvl, itLanguage>>

\* mutant of NoModDate: the date is calculated all the same
NoModDateCalculated ==
    /\ at = "mod_date"
    /\ Spend(0, 1)
    /\ attr' = [attr EXCEPT !["mod_date"] = itDate]
    /\ Move("city_codes")
    /\ UNCHANGED <<line, iataType, tvl, nameMatrix, distance, staged>>

NoModDate ==
    /\ at = "mod_date"
    /\ Spend(0, 1)
    /\ Move("city_codes")
    /\ UNCHANGED <<line, location, staged>>

(***************************************************************************)
(* calculateDate() throws on a year out of range, or a day that the month  *)
(* does not have; IATAType does on a type that it does not know, although  *)
(* the grammar takes any letters of ABCGHOPRZ.                             *)
(***************************************************************************)
DateThrows ==
    /\ at = "mod_date"
    /\ itDate' = Tok("mod_date") /\ at' = "thrown"
    /\ UNCHANGED <<text, location, itTvl, itLanguage>>

TypeThrows ==
    /\ at = "end" /\ PorTypes \ DOMAIN IATAType # {}
    /\ at' = "thrown"
    /\ UNCHANGED <<text, location, staged>>

-----------------------------------------------------------------------------

(***************************************************************************)
(* The lists.  Each item stores at once: of the cities of a POR, only the  *)
(* last is kept, be it given by its code, by its name or by its details.   *)
(***************************************************************************)
Item(list) ==
    /\ at = list /\ item < MaxItems
    /\ item' = item + 1
    /\ UNCHANGED <<at, por, shape, odd, rest>>

Keep(cols, col) ==
    /\ line' = line \cup {<<por, col, item + 1>>}
    /\ attr' = [a \in Attribute |->
                   IF a \in cols THEN <<por, col, item + 1>> ELSE attr[a]]
    /\ UNCHANGED <<iataType, tvl, nameMatrix, distance, staged>>

CityCode == Item("city_codes") /\ Keep({"city_code"}, "city_code_list")

CityName == Item("city_names") /\ Keep({"city_utf_name"}, "city_name_list")

\* mutant of CityDetails: the first city is kept, as for a list of one
FirstCityDetails ==
    /\ rest # "nobar"
    /\ Item("city_details")
    /\ Keep(IF item = 0 THEN City ELSE City \ {"city_utf_name"}, "city_detail_list")

\* a bar in the text is a matter of what is known of it
CityDetails ==
    /\ rest # "nobar"
    /\ Item("city_details") /\ Keep(City, "city_detail_list")

TvlPor ==
    /\ Item("tvl_pors")
    /\ line' = line \cup {<<por, "tvl_por_code_list", item + 1>>}
    /\ itTvl' = Append(itTvl, <<por, "tvl_por_code_list", item + 1>>)
    /\ UNCHANGED <<location, itDate, itLanguage>>

EndList(list, least, next) ==
    /\ at = list /\ item >= least
    /\ IF least = 0 THEN Spend(item, MaxItems) ELSE Spend(item - 1, MaxItems - 1)
    /\ Move(next)
    /\ UNCHANGED <<line, staged>>

EndCityCodes == EndList("city_codes", 1, "city_names") /\ UNCHANGED location

EndCityNames ==
    /\ rest = "equals" => item > 1
    /\ EndList("city_names", 0, "city_details")
    /\ UNCHANGED location

EndCityDetails == EndList("city_details", 0, "tvl_pors") /\ UNCHANGED location

\* consolidateTvlPORListString(), only when the list is there
EndTvlPors ==
    /\ EndList("tvl_pors", 0, "end")
    /\ tvl' = IF item > 0 THEN itTvl ELSE tvl
    /\ UNCHANGED <<attr, iataType, nameMatrix, distance>>

\* mutant of AddName: a language already there keeps its first name
AddFirstName(language, name) ==
    nameMatrix' = IF nameMatrix[language] = <<>>
                  THEN [nameMatrix EXCEPT ![language] = <<name>>]
                  ELSE nameMatrix

(***************************************************************************)
(* An alternate name: its language, if any, is staged, then addName() files*)
(* the name under the staged language, which is reset.                     *)
(***************************************************************************)
AddName(language, name) ==
    nameMatrix' = [nameMatrix EXCEPT ![language] = Append(@, name)]

\* mutant of AltName: the language is kept for the next name
AltNameKeepingLanguage ==
    /\ rest # "nobar"
    /\ Item("alt_names")
    /\ \E l \in Languages \cup {""} :
           LET language == IF l # "" THEN l ELSE itLanguage IN
           /\ AddName(language, <<por, l, item + 1>>)
           /\ line' = line \cup {<<por, l, item + 1>>}
           /\ itLanguage' = language
    /\ UNCHANGED <<attr, iataType, tvl, distance, itDate, itTvl>>

AltName ==
    /\ rest # "nobar"
    /\ Item("alt_names")
    /\ \E l \in Languages \cup {""} :
           LET language == IF l # "" THEN l ELSE itLanguage IN
           /\ AddName(language, <<por, l, item + 1>>)
           /\ line' = line \cup {<<por, l, item + 1>>}
           /\ itLanguage' = ""
    /\ UNCHANGED <<attr, iataType, tvl, distance, itDate, itTvl>>

(***************************************************************************)
(* The end of a POR.  The line may go on with another one, when its break  *)
(* was lost: then the same Location goes on being filled in.  If the first *)
(* POR has no alternate name, alt_lang_code has first taken the text of    *)
(* the second up to a bar or an equal sign, and staged it: the POR is read *)
(* only when no bar comes first, and the staged text stays.                *)
(***************************************************************************)
EndNames == at = "alt_names" /\ Spend(item, MaxItems)

EndOfLine ==
    /\ EndNames
    /\ at' = "accepted"
    /\ UNCHANGED <<por, shape, rest, item, line, location, staged>>

AnotherPor ==
    /\ EndNames
    /\ at' = "key" /\ por < MaxPors /\ por' = por + 1 /\ item' = 0
    /\ shape' \in {"full", "bare"}
    /\ IF item > 0 THEN rest' = "any" /\ itLanguage' = itLanguage
                   ELSE rest' \in {"nobar", "equals"} /\ itLanguage' = "text"
    /\ UNCHANGED <<line, location, itDate, itTvl>>

(***************************************************************************)
(* When a bar comes first, the whole of the second POR is the language of  *)
(* its own alternate name, here the only one, and is lost.                 *)
(***************************************************************************)
SwallowPor ==
    /\ EndNames /\ item = 0 /\ por < MaxPors
    /\ \E l \in Languages \cup {""} :
           /\ AddName("text", <<por + 1, l, 1>>)
           /\ line' = line \cup {<<por + 1, l, 1>>}
    /\ at' = "accepted"
    /\ itLanguage' = ""
    /\ UNCHANGED <<por, shape, rest, item, attr, iataType, tvl, distance>>
    /\ UNCHANGED <<itDate, itTvl>>

(***************************************************************************)
(* PorFileParsingException: a column that does not match, or some text is  *)
(* left at the end of the line.                                            *)
(***************************************************************************)
Refuse ==
    /\ at \in Block
    /\ at' = "refused"
    /\ UNCHANGED <<text, location, staged>>

(***************************************************************************)
(* The line is stored raw with the document and in the SQL table; parsed   *)
(* again for a request, its Location gets the edit distances of the match. *)
(***************************************************************************)
Locate ==
    /\ at = "accepted" /\ por > 0
    /\ at' = "located"
    /\ \E most \in 0..MaxErrors : \E dist \in 0..most :
           distance' = [actual |-> dist, allowable |-> most]
    /\ UNCHANGED <<text, attr, iataType, tvl, nameMatrix, staged>>

NextLine ==
    /\ at \in Verdict
    /\ at' = "start"
    /\ por' = 0 /\ shape' = "full" /\ odd' = 0 /\ rest' = "any" /\ item' = 0
    /\ line' = {}
    /\ attr' = NoAttributes /\ iataType' = "LAST_VALUE"
    /\ tvl' = <<>> /\ nameMatrix' = NoNames
    /\ distance' = NoDistance
    /\ itDate' = None /\ itTvl' = <<>> /\ itLanguage' = ""

ParseLists ==
    \/ CityCode \/ EndCityCodes \/ CityName \/ EndCityNames
    \/ CityDetails \/ EndCityDetails \/ TvlPor \/ EndTvlPors \/ AltName

ParseLine ==
    \/ NoPor \/ FirstPor
    \/ PorKey \/ PorNames \/ ValidityDates \/ PorCountry \/ PorFigures
    \/ ModDate \/ NoModDate \/ DateThrows
    \/ ParseLists
    \/ PorEnd \/ TypeThrows
    \/ EndOfLine \/ AnotherPor \/ SwallowPor \/ Refuse

Next == ParseLine \/ Locate \/ NextLine

Spec == Init /\ [][Next]_vars

-----------------------------------------------------------------------------

(***************************************************************************)
(* What is told of a Location: the attributes of the answers in JSON and   *)
(* as a Protobuf message, and the columns of its row in the SQL table.     *)
(* Offsets, dates and numbers are told as their column, units aside.       *)
(***************************************************************************)
InMessage == Attribute \ {"envelope_id", "city_geonames_id"}

InJSON == Attribute \ {"envelope_id", "city_geonames_id", "por_type",
              "common_name", "ascii_name", "feat_class", "feat_code",
              "country_code2", "population", "elevation", "gtopo30",
              "gmt_offset", "dst_offset", "raw_offset", "mod_date"}

(***************************************************************************)
(* exportLocation() sets edit_distance_actual twice, the second time with  *)
(* the allowable distance, and edit_distance_allowable never.              *)
(***************************************************************************)
Message ==
    LET first == [actual |-> distance.actual, allowable |-> 0] IN
    [attr |-> [a \in InMessage |-> attr[a]], loc_type |-> iataType,
     tvl |-> tvl, names |-> nameMatrix,
     distance |-> [first EXCEPT !.actual = distance.allowable]]

\* the names go without their language
JSON ==
    [attr |-> [a \in InJSON |-> attr[a]],
     tvl |-> tvl, names |-> UNION {Range(nameMatrix[l]) : l \in DOMAIN nameMatrix},
     distance |-> distance]

(***************************************************************************)
(* The key does not depend on the envelope; the flag is that of the key,   *)
(* which setGeonamesID() does not touch.                                   *)
(***************************************************************************)
Row ==
    [pk |-> <<attr["iata_code"], TypeLabel[iataType], attr["geoname_id"]>>,
     location_type |-> TypeLabel[iataType],
     is_geonames |-> "N",
     envelope_id |-> attr["envelope_id"],
     codes |-> [a \in {"iata_code", "icao_code", "faa_code"} |-> attr[a]]]

-----------------------------------------------------------------------------

TypeOK ==
    /\ at \in Block \cup Verdict \cup {"start"}
    /\ por \in 0..MaxPors /\ item \in 0..MaxItems /\ odd \in 0..MaxOdd
    /\ shape \in {"full", "bare"} /\ rest \in {"any", "nobar", "equals"}
    /\ line \subseteq Token \cup NameToken
    /\ attr \in [Attribute -> Token \cup {None}]
    /\ iataType \in PlaceType \cup {"LAST_VALUE"}
    /\ tvl \in Seq(Token) /\ itTvl \in Seq(Token)
    /\ nameMatrix \in [Languages \cup {"", "text"} -> Seq(NameToken)]
    /\ itDate \in Token \cup {None}
    /\ itLanguage \in {"", "text"}
    /\ distance \in [actual : Nat, allowable : Nat]

Done == at \in {"accepted", "located"}

\* the columns that tell an attribute, and the order of their tokens
Source(a) ==
    CASE a = "city_code" -> {"city_code_list", "city_detail_list"}
      [] a = "city_utf_name" -> {"city_name_list", "city_detail_list"}
      [] a \in City \ {"city_code", "city_utf_name"} -> {"city_detail_list"}
      [] OTHER -> {a}

Before(t, u) ==
    \/ t[1] < u[1]
    \/ t[1] = u[1] /\ t[2] # u[2] /\ u[2] = "city_detail_list"
    \/ t[1] = u[1] /\ t[2] = u[2] /\ t[3] < u[3]

(***************************************************************************)
(* Whatever is given, left empty or repeated, each attribute of the        *)
(* Location is what the line says of it last, or else its default.         *)
(***************************************************************************)
LastGiven ==
    \A a \in Attribute :
        LET told == {t \in line : t[2] \in Source(a)} IN
        \/ told = {} /\ attr[a] = None
        \/ attr[a] \in told /\ \A t \in told : t = attr[a] \/ Before(t, attr[a])

(***************************************************************************)
(* A POR with the details of its cities tells one of them, in full: its    *)
(* code, identifier and names do not come from two cities.                 *)
(***************************************************************************)
OneCity ==
    Done /\ (\E t \in line : t[1] = por /\ t[2] = "city_detail_list")
        => \A a, b \in City : attr[a] = attr[b]

(***************************************************************************)
(* An alternate name is filed under the language of its item.  Only a line *)
(* with more than one POR can file one elsewhere: under the text of the    *)
(* second POR, taken for a language.                                       *)
(***************************************************************************)
NamesUnderLanguage ==
    \A l \in DOMAIN nameMatrix : \A n \in Range(nameMatrix[l]) :
        n[2] = l \/ (l = "text" /\ n[1] > 1 /\ n[3] = 1)

(***************************************************************************)
(* The two answers and the row that tell a Location agree on it: on its    *)
(* codes and attributes, on all of its alternate names, and on its type,   *)
(* which the letter of the row gives back.  They tell of it nothing that   *)
(* the line does not say.                                                  *)
(***************************************************************************)
NamesOnLine == line \cap NameToken

AnswersAgree ==
    Done /\ por > 0 =>
        /\ \A a \in InMessage \cap InJSON : Message.attr[a] = JSON.attr[a]
        /\ \A a \in InMessage : Message.attr[a] \in line \cup {None}
        /\ JSON.names = NamesOnLine
        /\ NamesOnLine = UNION {Range(Message.names[l]) : l \in DOMAIN Message.names}
        /\ \A c \in DOMAIN Row.codes : Row.codes[c] = JSON.attr[c]
        /\ TypeOfLabel[Row.location_type] = Message.loc_type
=============================================================================
