-------------------------- MODULE PORParser_proofs --------------------------
(***************************************************************************)
(* Proofs about PORParser, for lines of any number of PORs, whose lists    *)
(* are of any length.                                                      *)
(***************************************************************************)
EXTENDS PORParser, FiniteSetTheorems, TLAPS

CityList == {"city_code_list", "city_name_list", "city_detail_list"}

List == CityList \cup {"tvl_por_code_list"}

Single == Plain \cup Dropped \cup {"mod_date"}

Blocks == {"key", "names", "country", "figures", "end"}

(***************************************************************************)
(* The columns of a block are none of the others.                          *)
(***************************************************************************)
LEMMA BlockColumns ==
    ASSUME NEW b \in Blocks, NEW c \in Needed[b] \cup Optional[b]
    PROVE  c \in Plain \cup Dropped /\ c \notin City \cup List \cup {"mod_date", ""}
<1>1. DOMAIN Needed = Blocks /\ DOMAIN Optional = Blocks
  BY DEF Needed, Optional, Blocks
<1>2. c \in Plain \cup Dropped
  BY <1>1 DEF Plain, Range
<1>3. c \notin City \cup List \cup {"mod_date", ""}
  <2>1. CASE b = "key"
    BY <2>1 DEF Needed, Optional, City, List, CityList
  <2>2. CASE b = "names"
    BY <2>2 DEF Needed, Optional, City, List, CityList
  <2>3. CASE b = "country"
    BY <2>3 DEF Needed, Optional, City, List, CityList
  <2>4. CASE b = "figures"
    BY <2>4 DEF Needed, Optional, City, List, CityList
  <2>5. CASE b = "end"
    BY <2>5 DEF Needed, Optional, City, List, CityList
  <2> QED
    BY <2>1, <2>2, <2>3, <2>4, <2>5 DEF Blocks
<1> QED
  BY <1>2, <1>3

LEMMA PlainColumns ==
    /\ Plain \cap (City \cup List \cup Dropped \cup {"mod_date"}) = {}
    /\ Column = Single \cup List
    /\ Single \cap List = {} /\ Dropped \cap (City \cup List \cup {"mod_date"}) = {}
    /\ City \cap (List \cup {"mod_date"}) = {}
    /\ "" \notin Column
<1>1. DOMAIN Needed = Blocks /\ DOMAIN Optional = Blocks
  BY DEF Needed, Optional, Blocks
<1>2. ASSUME NEW c \in Plain PROVE c \notin City \cup List \cup Dropped \cup {"mod_date", ""}
  <2>1. PICK b \in Blocks : c \in Needed[b] \cup Optional[b]
    BY <1>1 DEF Plain, Range
  <2> QED
    BY <2>1, BlockColumns DEF Plain
<1>3. Dropped \cap (City \cup List \cup {"mod_date"}) = {}
  BY DEF Dropped, City, List, CityList
<1>4. Column = Single \cup List
  BY DEF Column, Single, List, CityList
<1>5. City \cap (List \cup {"mod_date"}) = {}
  BY DEF City, List, CityList
<1>6. Single \cap List = {}
  BY <1>2, <1>3 DEF Single, List, CityList
<1>7. "" \notin Column
  BY <1>2, <1>4 DEF Single, List, CityList, Dropped
<1> QED
  BY <1>2, <1>3, <1>4, <1>5, <1>6, <1>7

LEMMA Sources ==
    ASSUME NEW a \in Attribute
    PROVE  /\ a \in Plain \cup {"mod_date"} => Source(a) = {a}
           /\ a \in City => Source(a) \subseteq CityList
           /\ a \in City => "city_detail_list" \in Source(a)
           /\ "city_code_list" \in Source(a) <=> a = "city_code"
           /\ "city_name_list" \in Source(a) <=> a = "city_utf_name"
           /\ a \in Plain \cup City \cup {"mod_date"}
<1>1. a \in Plain \cup City \cup {"mod_date"}
  BY DEF Attribute
<1>2. CASE a = "city_code"
  <2>1. Source(a) = {"city_code_list", "city_detail_list"}
    BY <1>2 DEF Source
  <2> QED
    BY <2>1, <1>2, <1>1, PlainColumns DEF City, CityList
<1>3. CASE a = "city_utf_name"
  <2>1. Source(a) = {"city_name_list", "city_detail_list"}
    BY <1>3 DEF Source
  <2> QED
    BY <2>1, <1>3, <1>1, PlainColumns DEF City, CityList
<1>4. CASE a \in City \ {"city_code", "city_utf_name"}
  <2>1. Source(a) = {"city_detail_list"}
    BY <1>4 DEF Source
  <2> QED
    BY <2>1, <1>4, <1>1, PlainColumns DEF City, CityList
<1>5. CASE a \in Plain \cup {"mod_date"}
  <2>1. a \notin City
    BY <1>5, PlainColumns
  <2>2. Source(a) = {a}
    BY <2>1 DEF Source, City
  <2> QED
    BY <2>1, <2>2, <1>5, <1>1, PlainColumns DEF City, CityList, List
<1> QED
  BY <1>1, <1>2, <1>3, <1>4, <1>5

-----------------------------------------------------------------------------
(***************************************************************************)
(* The places of the line that come before each of the lists of cities.    *)
(***************************************************************************)
Place == Block \cup Verdict \cup {"start"}

BeforeCodes ==
    {"start", "key", "names", "dates", "country", "figures", "mod_date"}

BeforeNames == BeforeCodes \cup {"city_codes"}

BeforeDetails == BeforeNames \cup {"city_names"}

TextInv ==
    /\ at \in Place
    /\ por \in 0..MaxPors /\ item \in 0..MaxItems
    /\ at \in Block => por >= 1
    /\ line \subseteq Token \cup NameToken
    /\ attr \in [Attribute -> Token \cup {None}]

(***************************************************************************)
(* What a token of the line says of the place that the parser has come to: *)
(* its POR is begun, its list is not ahead, and its item is not either.    *)
(***************************************************************************)
Behind(t) ==
    /\ t \in Token /\ t[1] <= por
    /\ t[2] \in Single => t[3] = 1
    /\ t[1] = por /\ t[2] = "city_code_list" =>
           at \notin BeforeCodes /\ (at = "city_codes" => t[3] <= item)
    /\ t[1] = por /\ t[2] = "city_name_list" =>
           at \notin BeforeNames /\ (at = "city_names" => t[3] <= item)
    /\ t[1] = por /\ t[2] = "city_detail_list" =>
           at \notin BeforeDetails /\ (at = "city_details" => t[3] <= item)

LineInv == \A t \in line : t[2] \in Column => Behind(t)

\* a POR with details of its cities has kept one of them
CityInv ==
    (\E t \in line : t[1] = por /\ t[2] = "city_detail_list")
        => \A a, b \in City : attr[a] = attr[b]

Inv == TextInv /\ LineInv /\ LastGiven /\ CityInv

(***************************************************************************)
(* The steps, by what they do to the line and to the attributes.           *)
(***************************************************************************)
Onward ==
    /\ por' = por
    /\ at' \in Place /\ item' \in 0..MaxItems
    /\ at' \in Block => at \in Block
    /\ at \notin BeforeCodes => at' \notin BeforeCodes
    /\ at \notin BeforeNames => at' \notin BeforeNames
    /\ at \notin BeforeDetails => at' \notin BeforeDetails
    /\ at' = "city_codes" => at \in BeforeCodes \/ (at = "city_codes" /\ item <= item')
    /\ at' = "city_names" => at \in BeforeNames \/ (at = "city_names" /\ item <= item')
    /\ at' = "city_details" => at \in BeforeDetails \/ (at = "city_details" /\ item <= item')

Silent == Onward /\ UNCHANGED <<line, attr>>

Reading(cols) ==
    /\ Onward /\ at \in Block
    /\ line' = line \cup {Tok(c) : c \in cols}
    /\ attr' = [a \in Attribute |-> IF a \in cols THEN Tok(a) ELSE attr[a]]

CityItem(list, cols, col) ==
    /\ at = list /\ at' = list /\ item < MaxItems /\ item' = item + 1 /\ por' = por
    /\ line' = line \cup {<<por, col, item + 1>>}
    /\ attr' = [a \in Attribute |->
                   IF a \in cols THEN <<por, col, item + 1>> ELSE attr[a]]

CityStep ==
    \/ CityItem("city_codes", {"city_code"}, "city_code_list")
    \/ CityItem("city_names", {"city_utf_name"}, "city_name_list")
    \/ CityItem("city_details", City, "city_detail_list")

OtherItem(t) ==
    /\ Onward /\ at \in Block
    /\ t \in Token \cup NameToken
    /\ t[2] \notin Single \cup CityList
    /\ t[2] \in Column => t \in Token /\ t[1] = por
    /\ line' = line \cup {t} /\ attr' = attr

NewPor ==
    /\ por < MaxPors /\ por' = por + 1 /\ item' = 0 /\ at' = "key"
    /\ UNCHANGED <<line, attr>>

NewLine ==
    /\ at' = "start" /\ por' = 0 /\ item' = 0
    /\ line' = {} /\ attr' = NoAttributes

Step ==
    \/ Silent \/ CityStep \/ NewPor \/ NewLine
    \/ \E cols \in SUBSET Single : Reading(cols)
    \/ \E t \in Token \cup NameToken : OtherItem(t)

LEMMA Bounds ==
    /\ MaxPors \in Nat /\ MaxPors >= 1 /\ MaxItems \in Nat /\ MaxItems >= 1
    /\ 1 \in 1..MaxPors /\ 1 \in 1..MaxItems
    /\ 0 \in 0..MaxPors /\ 0 \in 0..MaxItems
  BY BoundsAssumption DEF BoundsAssumption

LEMMA Successor ==
    \A n \in 1..MaxPors : n < MaxPors => n + 1 \in 1..MaxPors /\ n + 1 > 1
  BY BoundsAssumption DEF BoundsAssumption

LEMMA BlockBounds ==
    ASSUME TextInv, at \in Block
    PROVE  por \in 1..MaxPors /\ por \in Nat /\ por >= 1 /\ por + 1 > 1
  BY BoundsAssumption DEF BoundsAssumption, TextInv

LEMMA NextItem ==
    ASSUME TextInv, item < MaxItems
    PROVE  item + 1 \in 1..MaxItems /\ (item = 0 => item + 1 = 1)
  BY BoundsAssumption DEF BoundsAssumption, TextInv

LEMMA ColumnsReads ==
    ASSUME TextInv, NEW b \in Blocks, NEW next \in Block, Columns(b, next),
           <<b, next>> \in {<<"key", "names">>, <<"names", "dates">>,
                            <<"country", "figures">>, <<"figures", "mod_date">>,
                            <<"end", "alt_names">>}
    PROVE  Step
<1>1. PICK given \in SUBSET Optional[b] :
          /\ line' = line \cup {Tok(c) : c \in Needed[b] \cup given}
          /\ Store(Needed[b] \cup given)
  BY DEF Columns
<1> DEFINE cols == Needed[b] \cup given
<1>2. cols \subseteq Single
  BY BlockColumns DEF Single
<1>3. Onward
  BY Bounds DEF Onward, Columns, Move, TextInv, Place, Block, Blocks, BeforeCodes, BeforeNames, BeforeDetails
<1>4. at \in Block
  BY DEF Columns, Blocks, Block
<1>5. Reading(cols)
  BY <1>1, <1>3, <1>4 DEF Reading, Store
<1> QED
  BY <1>2, <1>5 DEF Step

LEMMA DatesRead ==
    ASSUME TextInv, ValidityDates \/ ModDate
    PROVE  Step
<1>0. Onward /\ at \in Block
  BY Bounds DEF Onward, ValidityDates, ModDate, Move, TextInv, Place, Block, BeforeCodes, BeforeNames, BeforeDetails
<1>1. CASE ValidityDates
  <2>1. PICK given \in SUBSET {"date_from", "date_until"} :
            line' = line \cup {Tok(c) : c \in given}
    BY <1>1 DEF ValidityDates
  <2>2. given \subseteq Single /\ given \cap Attribute = {}
    BY PlainColumns DEF Single, Dropped, Attribute, City
  <2>3. attr' = attr
    BY <1>1 DEF ValidityDates, location
  <2>4. attr' = [a \in Attribute |-> IF a \in given THEN Tok(a) ELSE attr[a]]
    BY <2>2, <2>3 DEF TextInv
  <2> QED
    BY <1>0, <2>1, <2>2, <2>4 DEF Step, Reading
<1>2. CASE ModDate
  <2>1. line' = line \cup {Tok(c) : c \in {"mod_date"}}
    BY <1>2 DEF ModDate
  <2>2. attr' = [attr EXCEPT !["mod_date"] = Tok("mod_date")]
    BY <1>2 DEF ModDate
  <2>3. attr' = [a \in Attribute |-> IF a \in {"mod_date"} THEN Tok(a) ELSE attr[a]]
    BY <2>2 DEF TextInv
  <2>4. {"mod_date"} \subseteq Single
    BY DEF Single
  <2> QED
    BY <1>0, <2>1, <2>3, <2>4 DEF Step, Reading
<1> QED
  BY <1>1, <1>2

LEMMA CitiesRead ==
    ASSUME TextInv, CityCode \/ CityName \/ CityDetails
    PROVE  Step
  BY DEF Step, CityStep, CityItem, CityCode, CityName, CityDetails, Item, Keep

LEMMA OthersRead ==
    ASSUME TextInv, TvlPor \/ AltName \/ SwallowPor
    PROVE  Step
<1>1. item + 1 \in 1..MaxItems /\ por \in 1..MaxPors /\ Onward /\ at \in Block
  <2>1. at \in {"tvl_pors", "alt_names"} /\ item < MaxItems
    <3>1. CASE TvlPor \/ AltName
      BY <3>1 DEF TvlPor, AltName, Item
    <3>2. CASE SwallowPor
      <4>1. at = "alt_names" /\ item = 0
        BY <3>2 DEF SwallowPor, EndNames
      <4> QED
        BY <4>1, Bounds
    <3> QED
      BY <3>1, <3>2
  <2>2. item' \in {item, item + 1} /\ por' = por
    BY DEF TvlPor, AltName, SwallowPor, Item
  <2>3. at' \in {at, "accepted"} /\ item \in 0..MaxItems /\ at \in Block
    BY <2>1 DEF TvlPor, AltName, SwallowPor, Item, TextInv, Block
  <2>4. item + 1 \in 1..MaxItems /\ item' \in 0..MaxItems
    BY <2>1, <2>2, <2>3, Bounds
  <2>5. Onward
    BY <2>1, <2>2, <2>3, <2>4 DEF Onward, Place, Block, Verdict, BeforeCodes, BeforeNames, BeforeDetails
  <2>6. por \in 1..MaxPors
    BY <2>3, Bounds DEF TextInv
  <2> QED
    BY <2>3, <2>4, <2>5, <2>6
<1>2. CASE TvlPor
  <2>1. <<por, "tvl_por_code_list", item + 1>> \in Token
    BY <1>1 DEF TextInv, Token, Column
  <2>2. "tvl_por_code_list" \notin Single \cup CityList
    BY PlainColumns DEF List, CityList
  <2>3. OtherItem(<<por, "tvl_por_code_list", item + 1>>)
    BY <1>1, <1>2, <2>1, <2>2 DEF OtherItem, TvlPor, location
  <2> QED
    BY <2>1, <2>3 DEF Step
<1>3. ASSUME NEW l \in Languages \cup {""} PROVE l \notin Column
  BY <1>3, LanguagesAssumption, PlainColumns DEF LanguagesAssumption
<1>4. CASE AltName
  <2>1. PICK l \in Languages \cup {""} : line' = line \cup {<<por, l, item + 1>>}
    BY <1>4 DEF AltName
  <2>2. <<por, l, item + 1>> \in NameToken
    BY <1>1 DEF NameToken
  <2>3. l \notin Single \cup CityList /\ l \notin Column
    BY <1>3, PlainColumns DEF List
  <2>4. OtherItem(<<por, l, item + 1>>)
    BY <1>1, <1>4, <2>1, <2>2, <2>3 DEF OtherItem, AltName
  <2> QED
    BY <2>2, <2>4 DEF Step
<1>5. CASE SwallowPor
  <2>1. PICK l \in Languages \cup {""} : line' = line \cup {<<por + 1, l, 1>>}
    BY <1>5 DEF SwallowPor
  <2>2. <<por + 1, l, 1>> \in NameToken
    <3>1. por < MaxPors
      BY <1>5 DEF SwallowPor
    <3>2. por + 1 \in 1..MaxPors
      BY <1>1, <3>1, Successor
    <3> QED
      BY <3>2, Bounds DEF NameToken
  <2>3. l \notin Single \cup CityList /\ l \notin Column
    BY <1>3, PlainColumns DEF List
  <2>4. OtherItem(<<por + 1, l, 1>>)
    BY <1>1, <1>5, <2>1, <2>2, <2>3 DEF OtherItem, SwallowPor
  <2> QED
    BY <2>2, <2>4 DEF Step
<1> QED
  BY <1>2, <1>4, <1>5

LEMMA Steps == ASSUME TextInv, [Next]_vars PROVE Step
<1>1. CASE PorKey
  BY <1>1, ColumnsReads DEF PorKey, Blocks, Block
<1>2. CASE PorNames
  BY <1>2, ColumnsReads DEF PorNames, Blocks, Block
<1>3. CASE PorCountry
  BY <1>3, ColumnsReads DEF PorCountry, Blocks, Block
<1>4. CASE PorFigures
  BY <1>4, ColumnsReads DEF PorFigures, Blocks, Block
<1>5. CASE PorEnd
  BY <1>5, ColumnsReads DEF PorEnd, Blocks, Block
<1>6. CASE ValidityDates \/ ModDate
  BY <1>6, DatesRead
<1>7. CASE CityCode \/ CityName \/ CityDetails
  BY <1>7, CitiesRead
<1>8. CASE TvlPor \/ AltName \/ SwallowPor
  BY <1>8, OthersRead
<1>9. CASE NoModDate \/ EndCityCodes \/ EndCityNames \/ EndCityDetails \/ EndTvlPors
  <2>1. Onward
    BY <1>9, Bounds DEF Onward, NoModDate, EndCityCodes, EndCityNames, EndCityDetails, EndTvlPors,
           EndList, Move, TextInv, Place, Block, BeforeCodes, BeforeNames, BeforeDetails
  <2>2. UNCHANGED <<line, attr>>
    BY <1>9 DEF NoModDate, EndCityCodes, EndCityNames, EndCityDetails, EndTvlPors, EndList, location
  <2> QED
    BY <2>1, <2>2 DEF Step, Silent
<1>10. CASE NoPor \/ DateThrows \/ TypeThrows \/ EndOfLine \/ Refuse
  <2>1. Onward
    BY <1>10 DEF Onward, NoPor, DateThrows, TypeThrows, EndOfLine, EndNames, Refuse, text, TextInv, Place,
           Block, Verdict, BeforeCodes, BeforeNames, BeforeDetails
  <2>2. UNCHANGED <<line, attr>>
    BY <1>10 DEF NoPor, DateThrows, TypeThrows, EndOfLine, Refuse, text, location
  <2> QED
    BY <2>1, <2>2 DEF Step, Silent
<1>11. CASE Locate \/ UNCHANGED vars
  <2>1. Onward
    BY <1>11 DEF Onward, Locate, vars, text, TextInv, Place,
           Block, Verdict, BeforeCodes, BeforeNames, BeforeDetails
  <2>2. UNCHANGED <<line, attr>>
    BY <1>11 DEF Locate, vars, text, location
  <2> QED
    BY <2>1, <2>2 DEF Step, Silent
<1>12. CASE FirstPor \/ AnotherPor
  <2>1. UNCHANGED <<line, attr>>
    BY <1>12 DEF FirstPor, BeginPor, AnotherPor, location
  <2> QED
    BY <1>12, <2>1 DEF FirstPor, BeginPor, AnotherPor, Step, NewPor
<1>13. CASE NextLine
  BY <1>13 DEF NextLine, Step, NewLine
<1> QED
  BY <1>1, <1>2, <1>3, <1>4, <1>5, <1>6, <1>7, <1>8, <1>9, <1>10, <1>11, <1>12, <1>13
     DEF Next, ParseLine, ParseLists

-----------------------------------------------------------------------------
(***************************************************************************)
(* Every kind of step keeps the types.                                     *)
(***************************************************************************)
LEMMA CityTokens ==
    ASSUME TextInv, item < MaxItems, at \in Block, NEW col \in CityList
    PROVE  item + 1 \in 1..MaxItems /\ <<por, col, item + 1>> \in Token
<1>1. item + 1 \in 1..MaxItems
  BY Bounds DEF TextInv
<1>2. por \in 1..MaxPors
  BY Bounds DEF TextInv
<1>3. col \in Column
  BY PlainColumns DEF List
<1> QED
  BY <1>1, <1>2, <1>3 DEF Token

LEMMA ReadTokens ==
    ASSUME TextInv, at \in Block, NEW c \in Single
    PROVE  Tok(c) \in Token
<1>1. por \in 1..MaxPors
  BY Bounds DEF TextInv
<1>2. c \in Column
  BY PlainColumns
<1> QED
  BY <1>1, <1>2, Bounds DEF Token, Tok

LEMMA CityStepIs ==
    ASSUME TextInv, CityStep
    PROVE  \E col \in CityList, cols \in SUBSET City :
               /\ CityItem(at, cols, col)
               /\ at \in Block
               /\ <<at, cols, col>> \in {<<"city_codes", {"city_code"}, "city_code_list">>,
                                       <<"city_names", {"city_utf_name"}, "city_name_list">>,
                                       <<"city_details", City, "city_detail_list">>}
<1>1. CASE CityItem("city_codes", {"city_code"}, "city_code_list")
  BY <1>1 DEF CityItem, CityList, City, Block
<1>2. CASE CityItem("city_names", {"city_utf_name"}, "city_name_list")
  BY <1>2 DEF CityItem, CityList, City, Block
<1>3. CASE CityItem("city_details", City, "city_detail_list")
  BY <1>3 DEF CityItem, CityList, City, Block
<1> QED
  BY <1>1, <1>2, <1>3 DEF CityStep

LEMMA TextStep == ASSUME TextInv, Step PROVE TextInv'
<1>1. CASE Silent
  BY <1>1 DEF Silent, Onward, TextInv
<1>2. CASE CityStep
  <2>1. PICK col \in CityList, cols \in SUBSET City : CityItem(at, cols, col) /\ at \in Block
    BY <1>2, CityStepIs
  <2>2. item + 1 \in 1..MaxItems /\ <<por, col, item + 1>> \in Token
    BY <2>1, CityTokens DEF CityItem
  <2>3. attr' \in [Attribute -> Token \cup {None}]
    BY <2>1, <2>2 DEF CityItem, TextInv
  <2>4. at' \in Place /\ item' \in 0..MaxItems /\ por' = por /\ at' = at
    BY <2>1, <2>2 DEF CityItem, Place
  <2>5. line' \subseteq Token \cup NameToken
    BY <2>1, <2>2 DEF CityItem, TextInv
  <2> QED
    BY <2>3, <2>4, <2>5 DEF TextInv
<1>3. CASE NewPor
  <2>1. por' \in 0..MaxPors /\ por' >= 1
    BY <1>3, Bounds DEF NewPor, TextInv
  <2> QED
    BY <1>3, <2>1, Bounds DEF NewPor, TextInv, Place, Block
<1>4. CASE NewLine
  BY <1>4, Bounds DEF NewLine, TextInv, Place, Block, NoAttributes
<1>5. ASSUME NEW cols \in SUBSET Single, Reading(cols) PROVE TextInv'
  <2>1. \A c \in cols : Tok(c) \in Token
    BY <1>5, ReadTokens DEF Reading
  <2>2. attr' \in [Attribute -> Token \cup {None}]
    BY <1>5, <2>1 DEF Reading, TextInv
  <2>3. line' \subseteq Token \cup NameToken
    BY <1>5, <2>1 DEF Reading, TextInv
  <2>4. at' \in Place /\ item' \in 0..MaxItems /\ por' = por /\ (at' \in Block => at \in Block)
    BY <1>5 DEF Reading, Onward
  <2> QED
    BY <2>2, <2>3, <2>4 DEF TextInv
<1>6. ASSUME NEW t \in Token \cup NameToken, OtherItem(t) PROVE TextInv'
  BY <1>6 DEF OtherItem, Onward, TextInv
<1> QED
  BY <1>1, <1>2, <1>3, <1>4, <1>5, <1>6 DEF Step

(***************************************************************************)
(* The tokens that were there stay behind, and the new one is.             *)
(***************************************************************************)
LEMMA StayBehind ==
    ASSUME TextInv, NEW t, Behind(t), Onward
    PROVE  Behind(t)'
<1>1. t \in Token /\ t[3] \in Nat /\ item \in Nat /\ item' \in Nat
  BY Bounds DEF Behind, Token, TextInv, Onward
<1>2. t[1] <= por' /\ (t[1] = por' => t[1] = por)
  BY DEF Behind, Onward
<1>3. t[1] = por /\ t[2] = "city_code_list" =>
           at' \notin BeforeCodes /\ (at' = "city_codes" => t[3] <= item')
  BY <1>1 DEF Behind, Onward
<1>4. t[1] = por /\ t[2] = "city_name_list" =>
           at' \notin BeforeNames /\ (at' = "city_names" => t[3] <= item')
  BY <1>1 DEF Behind, Onward
<1>5. t[1] = por /\ t[2] = "city_detail_list" =>
           at' \notin BeforeDetails /\ (at' = "city_details" => t[3] <= item')
  BY <1>1 DEF Behind, Onward
<1> QED
  BY <1>1, <1>2, <1>3, <1>4, <1>5 DEF Behind

LEMMA LineStep == ASSUME TextInv, LineInv, Step PROVE LineInv'
<1> SUFFICES ASSUME NEW t \in line', t[2] \in Column PROVE Behind(t)'
  BY DEF LineInv
<1>1. CASE Silent
  BY <1>1, StayBehind DEF Silent, LineInv
<1>2. CASE CityStep
  <2>1. PICK col \in CityList, cols \in SUBSET City :
            /\ CityItem(at, cols, col) /\ at \in Block
            /\ <<at, cols, col>> \in {<<"city_codes", {"city_code"}, "city_code_list">>,
                                    <<"city_names", {"city_utf_name"}, "city_name_list">>,
                                    <<"city_details", City, "city_detail_list">>}
    BY <1>2, CityStepIs
  <2>2. item + 1 \in 1..MaxItems /\ <<por, col, item + 1>> \in Token
    BY <2>1, CityTokens DEF CityItem
  <2>3. Onward
    BY <2>1, <2>2, Bounds DEF CityItem, Onward, Place, TextInv, BeforeCodes, BeforeNames, BeforeDetails
  <2>4. CASE t \in line
    BY <2>3, <2>4, StayBehind DEF LineInv
  <2>5. CASE t = <<por, col, item + 1>>
    <3>1. t[1] = por /\ t[2] = col /\ t[3] = item + 1 /\ por \in Nat /\ item + 1 \in Nat
      BY <2>5, <2>2, Bounds DEF TextInv
    <3>2. por' = por /\ at' = at /\ item' = item + 1
      BY <2>1 DEF CityItem
    <3>3. t[2] \notin Single
      BY <3>1, PlainColumns DEF List
    <3>4. <<at, col>> \in {<<"city_codes", "city_code_list">>, <<"city_names", "city_name_list">>,
                          <<"city_details", "city_detail_list">>}
      BY <2>1
    <3> QED
      BY <3>1, <3>2, <3>3, <3>4, <2>5, <2>2 DEF Behind, BeforeCodes, BeforeNames, BeforeDetails
  <2> QED
    BY <2>1, <2>4, <2>5 DEF CityItem
<1>3. CASE NewPor
  <2>1. Behind(t) /\ t[1] \in Nat /\ por \in Nat
    BY <1>3, Bounds DEF NewPor, LineInv, Behind, Token, TextInv
  <2>2. t[1] <= por' /\ t[1] # por'
    BY <1>3, <2>1 DEF NewPor, Behind
  <2> QED
    BY <2>1, <2>2 DEF Behind
<1>4. CASE NewLine
  BY <1>4 DEF NewLine
<1>5. ASSUME NEW cols \in SUBSET Single, Reading(cols) PROVE Behind(t)'
  <2>1. Onward /\ at \in Block
    BY <1>5 DEF Reading
  <2>2. CASE t \in line
    BY <2>1, <2>2, StayBehind DEF LineInv
  <2>3. ASSUME NEW c \in cols, t = Tok(c) PROVE Behind(t)'
    <3>1. t \in Token /\ c \notin CityList
      BY <2>1, <2>3, ReadTokens, PlainColumns DEF List
    <3>2. t[1] = por /\ t[2] = c /\ t[3] = 1 /\ por' = por /\ por \in Nat
      BY <2>1, <2>3, Bounds DEF Tok, TextInv, Onward
    <3> QED
      BY <3>1, <3>2 DEF Behind, CityList
  <2> QED
    BY <1>5, <2>2, <2>3 DEF Reading
<1>6. ASSUME NEW u \in Token \cup NameToken, OtherItem(u) PROVE Behind(t)'
  <2>1. Onward
    BY <1>6 DEF OtherItem
  <2>2. CASE t \in line
    BY <2>1, <2>2, StayBehind DEF LineInv
  <2>3. CASE t = u
    <3>1. t \in Token /\ t[1] = por /\ por' = por /\ por \in Nat /\ t[2] \notin Single \cup CityList
      BY <1>6, <2>3, Bounds DEF OtherItem, Onward, TextInv
    <3> QED
      BY <3>1 DEF Behind, CityList
  <2> QED
    BY <1>6, <2>2, <2>3 DEF OtherItem
<1> QED
  BY <1>1, <1>2, <1>3, <1>4, <1>5, <1>6 DEF Step

-----------------------------------------------------------------------------
(***************************************************************************)
(* What is told of an attribute: the tokens of its columns.                *)
(***************************************************************************)
Told(a) == {t \in line : t[2] \in Source(a)}

LastOf(a) ==
    \/ Told(a) = {} /\ attr[a] = None
    \/ attr[a] \in Told(a) /\ \A t \in Told(a) : t = attr[a] \/ Before(t, attr[a])

LEMMA LastGivenIs == LastGiven <=> \A a \in Attribute : LastOf(a)
  BY DEF LastGiven, LastOf, Told

LEMMA SourceColumns == \A a \in Attribute : Source(a) \subseteq Column
<1> SUFFICES ASSUME NEW a \in Attribute PROVE Source(a) \subseteq Column
  OBVIOUS
<1>1. a \in Plain \cup City \cup {"mod_date"}
  BY Sources
<1> QED
  <2>1. CASE a \in City
    BY <2>1, Sources, PlainColumns DEF List
  <2>2. CASE a \in Plain \cup {"mod_date"}
    <3>1. Source(a) = {a}
      BY <2>2, Sources
    <3>2. a \in Column
      BY <2>2, PlainColumns DEF Single
    <3> QED
      BY <3>1, <3>2
  <2> QED
    BY <1>1, <2>1, <2>2

(***************************************************************************)
(* An attribute that is not stored, when nothing is told of it either.     *)
(***************************************************************************)
LEMMA LastKept ==
    ASSUME NEW a \in Attribute, LastOf(a), attr'[a] = attr[a], Told(a)' = Told(a)
    PROVE  LastOf(a)'
  BY DEF LastOf, Before

(***************************************************************************)
(* An attribute that is stored, by a token behind which all the others are.*)
(***************************************************************************)
LEMMA LastStored ==
    ASSUME NEW a \in Attribute, NEW u, attr'[a] = u, u \in Told(a)',
           Told(a)' \subseteq Told(a) \cup {u},
           \A t \in Told(a) : t = u \/ Before(t, u)
    PROVE  LastOf(a)'
  BY DEF LastOf, Before

LEMMA LastStep ==
    ASSUME TextInv, LineInv, LastGiven, Step, NEW a \in Attribute
    PROVE  LastOf(a)'
<1>0. LastOf(a) /\ Source(a) \subseteq Column
  BY LastGivenIs, SourceColumns
<1>1. CASE Silent \/ NewPor
  <2>1. attr'[a] = attr[a] /\ Told(a)' = Told(a)
    BY <1>1 DEF Silent, NewPor, Told
  <2> QED
    BY <1>0, <2>1, LastKept
<1>2. CASE NewLine
  <2>1. Told(a)' = {} /\ attr'[a] = None
    BY <1>2 DEF NewLine, NoAttributes, Told
  <2> QED
    BY <2>1 DEF LastOf
<1>3. ASSUME NEW t \in Token \cup NameToken, OtherItem(t) PROVE LastOf(a)'
  <2>1. t[2] \notin Source(a)
    BY <1>3, Sources DEF OtherItem, Single
  <2>2. attr'[a] = attr[a] /\ Told(a)' = Told(a)
    BY <1>3, <2>1 DEF OtherItem, Told
  <2> QED
    BY <1>0, <2>2, LastKept
<1>4. ASSUME NEW cols \in SUBSET Single, Reading(cols) PROVE LastOf(a)'
  <2>1. CASE a \in cols
    <3>1. Source(a) = {a} /\ a \in Single
      BY <2>1, Sources, PlainColumns DEF Single
    <3>2. attr'[a] = Tok(a) /\ Tok(a) \in line' /\ Tok(a)[2] = a
      BY <1>4, <2>1 DEF Reading, Tok
    <3>3. Tok(a) \in Told(a)'
      BY <3>1, <3>2 DEF Told
    <3>4. Told(a)' = Told(a) \cup {Tok(a)}
      <4>1. ASSUME NEW c \in cols, Tok(c)[2] = a PROVE Tok(c) = Tok(a)
        BY <4>1 DEF Tok
      <4> QED
        BY <1>4, <2>1, <3>1, <3>2, <4>1 DEF Reading, Told
    <3>5. ASSUME NEW t \in Told(a) PROVE t = Tok(a) \/ Before(t, Tok(a))
      <4>1. t \in line /\ t[2] = a
        BY <3>1 DEF Told
      <4>2. Behind(t) /\ t[3] = 1
        BY <4>1, <3>1, PlainColumns DEF LineInv, Behind
      <4>3. t = <<t[1], t[2], t[3]>> /\ t[1] \in Nat /\ t[1] <= por /\ por \in Nat
        BY <4>2, Bounds DEF Behind, Token, TextInv
      <4>4. CASE t[1] = por
        BY <4>1, <4>2, <4>3, <4>4 DEF Tok
      <4>5. CASE t[1] < por
        BY <4>5 DEF Before, Tok
      <4> QED
        BY <4>3, <4>4, <4>5
    <3> QED
      BY <3>2, <3>3, <3>4, <3>5, LastStored
  <2>2. CASE a \notin cols
    <3>1. cols \cap Source(a) = {}
      <4>1. CASE a \in City
        BY <4>1, Sources, PlainColumns DEF List
      <4>2. CASE a \in Plain \cup {"mod_date"}
        BY <2>2, <4>2, Sources
      <4> QED
        BY <4>1, <4>2, Sources
    <3>2. attr'[a] = attr[a]
      BY <1>4, <2>2 DEF Reading
    <3>3. \A c \in cols : Tok(c)[2] \notin Source(a)
      BY <3>1 DEF Tok
    <3>4. Told(a)' = Told(a)
      BY <1>4, <3>3 DEF Reading, Told
    <3> QED
      BY <1>0, <3>2, <3>4, LastKept
  <2> QED
    BY <2>1, <2>2
<1>5. CASE CityStep
  <2>1. PICK col \in CityList, cols \in SUBSET City :
            /\ CityItem(at, cols, col) /\ at \in Block
            /\ <<at, cols, col>> \in {<<"city_codes", {"city_code"}, "city_code_list">>,
                                    <<"city_names", {"city_utf_name"}, "city_name_list">>,
                                    <<"city_details", City, "city_detail_list">>}
    BY <1>5, CityStepIs
  <2> DEFINE u == <<por, col, item + 1>>
  <2>2. line' = line \cup {u} /\ u[1] = por /\ u[2] = col /\ u[3] = item + 1
    BY <2>1 DEF CityItem
  <2>3. col \in Source(a) <=> a \in cols
    <3>1. CASE col = "city_code_list"
      BY <3>1, <2>1, Sources
    <3>2. CASE col = "city_name_list"
      BY <3>2, <2>1, Sources
    <3>3. CASE col = "city_detail_list"
      <4>1. cols = City
        BY <3>3, <2>1
      <4>2. a \notin City => Source(a) = {a} /\ a # col
        BY Sources, PlainColumns, <3>3 DEF Single, List, CityList
      <4> QED
        BY <4>1, <4>2, <3>3, Sources
    <3> QED
      BY <3>1, <3>2, <3>3 DEF CityList
  <2>4. CASE a \in cols
    <3>1. attr'[a] = u /\ u \in Told(a)'
      BY <2>1, <2>2, <2>3, <2>4 DEF CityItem, Told
    <3>2. Source(a) \subseteq CityList
      BY <2>4, Sources
    <3>3. ASSUME NEW t \in Told(a) PROVE Before(t, u)
      <4>1. Behind(t) /\ t[2] \in CityList
        BY <1>0, <3>2 DEF Told, LineInv
      <4>2. t[1] \in Nat /\ t[3] \in Nat /\ t[1] <= por /\ por \in Nat /\ item \in Nat
        BY <4>1, Bounds DEF Behind, Token, TextInv
      <4>3. CASE t[1] < por
        BY <4>3, <2>2 DEF Before
      <4>4. CASE t[1] = por
        <5>1. CASE col = "city_code_list"
          <6>1. at = "city_codes" /\ a = "city_code"
            BY <5>1, <2>1, <2>4
          <6>2. t[2] = "city_code_list"
            BY <6>1, <4>1, <4>4, Sources DEF Behind, Told, CityList, BeforeNames, BeforeDetails
          <6>3. t[3] <= item
            BY <6>1, <6>2, <4>1, <4>4 DEF Behind
          <6> QED
            BY <6>2, <6>3, <4>2, <4>4, <5>1, <2>2 DEF Before
        <5>2. CASE col = "city_name_list"
          <6>1. at = "city_names" /\ a = "city_utf_name"
            BY <5>2, <2>1, <2>4
          <6>2. t[2] = "city_name_list"
            <7>1. t[2] # "city_code_list"
              BY <6>1, Sources DEF Told
            <7>2. t[2] # "city_detail_list"
              BY <6>1, <4>1, <4>4 DEF Behind, BeforeDetails
            <7> QED
              BY <7>1, <7>2, <4>1 DEF CityList
          <6>3. t[3] <= item
            BY <6>1, <6>2, <4>1, <4>4 DEF Behind
          <6> QED
            BY <6>2, <6>3, <4>2, <4>4, <5>2, <2>2 DEF Before
        <5>3. CASE col = "city_detail_list"
          <6>1. at = "city_details"
            BY <5>3, <2>1
          <6>2. t[2] = col => t[3] <= item
            BY <6>1, <5>3, <4>1, <4>4 DEF Behind
          <6> QED
            BY <6>2, <4>2, <4>4, <5>3, <2>2 DEF Before
        <5> QED
          BY <5>1, <5>2, <5>3 DEF CityList
      <4> QED
        BY <4>2, <4>3, <4>4
    <3>4. Told(a)' \subseteq Told(a) \cup {u}
      BY <2>2 DEF Told
    <3> QED
      BY <3>1, <3>3, <3>4, LastStored
  <2>5. CASE a \notin cols
    <3>1. attr'[a] = attr[a]
      BY <2>1, <2>5 DEF CityItem
    <3>2. Told(a)' = Told(a)
      BY <2>2, <2>3, <2>5 DEF Told
    <3> QED
      BY <1>0, <3>1, <3>2, LastKept
  <2> QED
    BY <2>4, <2>5
<1> QED
  BY <1>1, <1>2, <1>3, <1>4, <1>5 DEF Step

(***************************************************************************)
(* The details of a city store all of its attributes at once, and nothing  *)
(* stores them after.                                                      *)
(***************************************************************************)
LEMMA CityKept ==
    ASSUME CityInv, por' = por, \A b \in City : attr'[b] = attr[b],
           \A t \in line' \ line : t[2] # "city_detail_list"
    PROVE  CityInv'
  BY DEF CityInv

LEMMA CityInvStep == ASSUME TextInv, LineInv, CityInv, Step PROVE CityInv'
<1>0. City \subseteq Attribute /\ "city_detail_list" \in Column
  BY DEF Attribute, Column
<1>1. CASE Silent
  BY <1>1, CityKept DEF Silent, Onward
<1>2. CASE NewPor
  <2>1. ASSUME NEW t \in line, t[1] = por', t[2] = "city_detail_list" PROVE FALSE
    BY <1>0, <1>2, <2>1, Bounds DEF NewPor, LineInv, Behind, TextInv
  <2> QED
    BY <1>2, <2>1 DEF NewPor, CityInv
<1>3. CASE NewLine
  BY <1>3 DEF NewLine, CityInv
<1>4. ASSUME NEW t \in Token \cup NameToken, OtherItem(t) PROVE CityInv'
  <2>1. t[2] # "city_detail_list" /\ line' = line \cup {t} /\ attr' = attr /\ por' = por
    BY <1>4 DEF OtherItem, Onward, CityList
  <2> QED
    BY <2>1, CityKept
<1>5. ASSUME NEW cols \in SUBSET Single, Reading(cols) PROVE CityInv'
  <2>1. cols \cap City = {} /\ "city_detail_list" \notin cols
    BY PlainColumns DEF Single, List, CityList
  <2>2. por' = por /\ \A b \in City : attr'[b] = attr[b]
    BY <1>0, <1>5, <2>1 DEF Reading, Onward
  <2>3. \A t \in line' \ line : t[2] # "city_detail_list"
    BY <1>5, <2>1 DEF Reading, Tok
  <2> QED
    BY <2>2, <2>3, CityKept
<1>6. CASE CityStep
  <2>1. PICK col \in CityList, cols \in SUBSET City :
            /\ CityItem(at, cols, col) /\ at \in Block
            /\ <<at, cols, col>> \in {<<"city_codes", {"city_code"}, "city_code_list">>,
                                    <<"city_names", {"city_utf_name"}, "city_name_list">>,
                                    <<"city_details", City, "city_detail_list">>}
    BY <1>6, CityStepIs
  <2>2. CASE col = "city_detail_list"
    <3>1. cols = City
      BY <2>1, <2>2
    <3> QED
      BY <1>0, <2>1, <3>1 DEF CityItem, CityInv
  <2>3. CASE col # "city_detail_list"
    <3>1. at \in {"city_codes", "city_names"}
      BY <2>1, <2>3
    <3>2. por' = por /\ line' = line \cup {<<por, col, item + 1>>}
      BY <2>1 DEF CityItem
    <3>3. ASSUME NEW t \in line', t[1] = por', t[2] = "city_detail_list" PROVE FALSE
      <4>1. t \in line
        BY <2>3, <3>2, <3>3
      <4> QED
        BY <1>0, <3>1, <3>2, <3>3, <4>1 DEF LineInv, Behind, BeforeNames, BeforeDetails
    <3> QED
      BY <3>3 DEF CityInv
  <2> QED
    BY <2>2, <2>3
<1> QED
  BY <1>1, <1>2, <1>3, <1>4, <1>5, <1>6 DEF Step

LEMMA InitInv == Init => Inv
<1> SUFFICES ASSUME Init PROVE Inv
  OBVIOUS
<1>1. TextInv
  <2>1. at \in Place /\ at \notin Block
    BY DEF Init, Place, Block
  <2>2. attr \in [Attribute -> Token \cup {None}]
    BY DEF Init, NoAttributes
  <2>3. por \in 0..MaxPors /\ item \in 0..MaxItems /\ line = {}
    BY Bounds DEF Init
  <2> QED
    BY <2>1, <2>2, <2>3 DEF TextInv
<1>2. LineInv /\ CityInv
  BY DEF Init, LineInv, CityInv
<1>3. LastGiven
  BY LastGivenIs DEF LastOf, Told, Init, NoAttributes
<1> QED
  BY <1>1, <1>2, <1>3 DEF Inv

LEMMA NextInv == Inv /\ [Next]_vars => Inv'
<1> SUFFICES ASSUME Inv, [Next]_vars PROVE Inv'
  OBVIOUS
<1>1. TextInv /\ LineInv /\ LastGiven /\ CityInv /\ Step
  BY Steps DEF Inv
<1>2. \A a \in Attribute : LastOf(a)'
  BY <1>1, LastStep
<1>3. LastGiven'
  BY <1>2 DEF LastGiven, LastOf, Told
<1> QED
  BY <1>1, <1>3, TextStep, LineStep, CityInvStep DEF Inv

LEMMA Invariance == Spec => []Inv
  BY InitInv, NextInv, PTL DEF Spec

(***************************************************************************)
(* Whatever the PORs of a line give, leave empty or repeat, and wherever   *)
(* the parser stops, an attribute of the Location is the last that the     *)
(* line says of it.                                                        *)
(***************************************************************************)
THEOREM LastGivenAlways == Spec => []LastGiven
<1>1. Inv => LastGiven
  BY DEF Inv
<1> QED
  BY <1>1, Invariance, PTL

(***************************************************************************)
(* However many cities and details of cities a POR has, the four           *)
(* attributes of the city come from the same one.                          *)
(***************************************************************************)
THEOREM OneCityAlways == Spec => []OneCity
<1>1. Inv => OneCity
  BY DEF Inv, CityInv, OneCity
<1> QED
  BY <1>1, Invariance, PTL

-----------------------------------------------------------------------------
(***************************************************************************)
(* The names.  A staged language that is not its own waits for the first   *)
(* alternate name of a POR that is not the first one of the line.          *)
(***************************************************************************)
StagedInv ==
    /\ itLanguage \in {"", "text"}
    /\ at = "start" => itLanguage = ""
    /\ itLanguage = "text" /\ at \in Block => por > 1
    /\ itLanguage = "text" /\ at = "alt_names" => item = 0

NamesType == nameMatrix \in [Languages \cup {"", "text"} -> Seq(NameToken)]

NamesInv == StagedInv /\ NamesType /\ NamesUnderLanguage

LEMMA RangeAppend ==
    ASSUME NEW S, NEW s \in Seq(S), NEW x \in S
    PROVE  Append(s, x) \in Seq(S) /\ Range(Append(s, x)) \subseteq Range(s) \cup {x}
<1>1. Append(s, x) \in Seq(S) /\ DOMAIN Append(s, x) = 1..(Len(s) + 1) /\ DOMAIN s = 1..Len(s)
  OBVIOUS
<1>2. ASSUME NEW i \in 1..(Len(s) + 1) PROVE Append(s, x)[i] \in Range(s) \cup {x}
  <2>1. CASE i = Len(s) + 1
    BY <2>1
  <2>2. CASE i \in 1..Len(s)
    BY <1>1, <2>2 DEF Range
  <2> QED
    BY <2>1, <2>2
<1> QED
  BY <1>1, <1>2 DEF Range

LEMMA NameFiled ==
    ASSUME NamesType, NamesUnderLanguage,
           NEW l \in Languages \cup {"", "text"}, NEW n \in NameToken, AddName(l, n),
           n[2] = l \/ (l = "text" /\ n[1] > 1 /\ n[3] = 1)
    PROVE  NamesType' /\ NamesUnderLanguage'
<1>1. nameMatrix' = [nameMatrix EXCEPT ![l] = Append(nameMatrix[l], n)]
  BY DEF AddName
<1>2. /\ Append(nameMatrix[l], n) \in Seq(NameToken)
      /\ Range(Append(nameMatrix[l], n)) \subseteq Range(nameMatrix[l]) \cup {n}
  BY RangeAppend DEF NamesType
<1>3. NamesType'
  BY <1>1, <1>2 DEF NamesType
<1>4. ASSUME NEW k \in DOMAIN nameMatrix', NEW m \in Range(nameMatrix'[k])
      PROVE  m[2] = k \/ (k = "text" /\ m[1] > 1 /\ m[3] = 1)
  <2>1. k \in DOMAIN nameMatrix
    BY <1>1
  <2>2. CASE k # l
    <3>1. nameMatrix'[k] = nameMatrix[k]
      BY <1>1, <2>1, <2>2
    <3> QED
      BY <1>4, <2>1, <3>1 DEF NamesUnderLanguage
  <2>3. CASE k = l
    <3>1. nameMatrix'[k] = Append(nameMatrix[l], n)
      BY <1>1, <2>1, <2>3
    <3>2. m \in Range(nameMatrix[l]) \cup {n}
      BY <1>2, <1>4, <3>1
    <3> QED
      BY <2>1, <2>3, <3>2 DEF NamesUnderLanguage
  <2> QED
    BY <2>2, <2>3
<1> QED
  BY <1>3, <1>4 DEF NamesUnderLanguage

LEMMA EmptyNames ==
    /\ NoNames \in [Languages \cup {"", "text"} -> Seq(NameToken)]
    /\ \A l \in DOMAIN NoNames : Range(NoNames[l]) = {}
<1>1. <<>> \in Seq(NameToken) /\ DOMAIN <<>> = {}
  OBVIOUS
<1>2. Range(<<>>) = {}
  BY <1>1 DEF Range
<1> QED
  BY <1>1, <1>2 DEF NoNames

NamesKept == UNCHANGED <<nameMatrix, itLanguage>>

LEMMA KeptStep ==
    ASSUME NamesInv, NamesKept, por' = por, at' \in Block => at \in Block,
           at' # "start" \/ at' = at,
           at' = "alt_names" => item' = 0 \/ (at = "alt_names" /\ item' = item)
    PROVE  NamesInv'
<1>1. NamesType' /\ NamesUnderLanguage'
  BY DEF NamesInv, NamesKept, NamesType, NamesUnderLanguage
<1>2. StagedInv'
  BY DEF NamesInv, NamesKept, StagedInv
<1> QED
  BY <1>1, <1>2 DEF NamesInv

LEMMA NamesStep == ASSUME TextInv, NamesInv, [Next]_vars PROVE NamesInv'
<1>1. CASE PorKey \/ PorNames \/ PorCountry \/ PorFigures \/ PorEnd
  <2>1. PICK b \in Blocks, next \in Block : Columns(b, next)
    BY <1>1 DEF PorKey, PorNames, PorCountry, PorFigures, PorEnd, Blocks, Block
  <2>2. NamesKept /\ at' # "start" /\ por' = por /\ at \in Block /\ item' = 0
    BY <2>1 DEF Columns, Move, NamesKept, staged, Blocks, Block
  <2> QED
    BY <2>2, KeptStep
<1>2. CASE ValidityDates \/ ModDate \/ NoModDate
  <2>1. NamesKept /\ at' # "start" /\ por' = por /\ at \in Block /\ item' = 0
    BY <1>2 DEF ValidityDates, ModDate, NoModDate, Move, NamesKept, staged, location, Block
  <2> QED
    BY <2>1, KeptStep
<1>3. CASE CityCode \/ CityName \/ CityDetails
  <2>1. NamesKept /\ at' # "start" /\ por' = por /\ at \in Block /\ at' # "alt_names"
    BY <1>3 DEF CityCode, CityName, CityDetails, Item, Keep, NamesKept, staged, Block
  <2> QED
    BY <2>1, KeptStep
<1>4. CASE EndCityCodes \/ EndCityNames \/ EndCityDetails \/ EndTvlPors
  <2>1. NamesKept /\ at' # "start" /\ por' = por /\ at \in Block /\ item' = 0
    BY <1>4 DEF EndCityCodes, EndCityNames, EndCityDetails, EndTvlPors, EndList, Move, NamesKept,
           staged, location, Block
  <2> QED
    BY <2>1, KeptStep
<1>5. CASE TvlPor
  <2>1. NamesKept /\ at' # "start" /\ por' = por /\ at \in Block /\ at' # "alt_names"
    BY <1>5 DEF TvlPor, Item, NamesKept, location, Block
  <2> QED
    BY <2>1, KeptStep
<1>6. CASE NoPor \/ DateThrows \/ TypeThrows \/ Refuse \/ EndOfLine
  <2>1. NamesKept /\ at' # "start" /\ por' = por /\ at' \notin Block
    BY <1>6 DEF NoPor, DateThrows, TypeThrows, Refuse, EndOfLine, NamesKept, text, staged, location, Block
  <2> QED
    BY <2>1, KeptStep DEF Block
<1>7. CASE Locate
  <2>1. NamesKept /\ at' # "start" /\ por' = por /\ at' \notin Block
    BY <1>7 DEF Locate, NamesKept, text, staged, Block
  <2> QED
    BY <2>1, KeptStep DEF Block
<1>8. CASE UNCHANGED vars
  <2>1. NamesKept /\ por' = por /\ at' = at /\ item' = item
    BY <1>8 DEF vars, NamesKept, text, staged, location
  <2> QED
    BY <2>1, KeptStep
<1>9. CASE FirstPor
  <2>1. nameMatrix' = nameMatrix /\ itLanguage' = itLanguage /\ at' = "key" /\ at = "start"
    BY <1>9 DEF FirstPor, BeginPor, location, staged
  <2>2. StagedInv'
    BY <2>1 DEF NamesInv, StagedInv
  <2> QED
    BY <2>1, <2>2 DEF NamesInv, NamesType, NamesUnderLanguage
<1>10. CASE AnotherPor
  <2>1. nameMatrix' = nameMatrix /\ itLanguage' \in {itLanguage, "text"} /\ at' = "key" /\ por' = por + 1
    BY <1>10 DEF AnotherPor, location
  <2>2. at \in Block
    BY <1>10 DEF AnotherPor, EndNames, Block
  <2>3. por + 1 > 1
    BY <2>2, BlockBounds
  <2>4. StagedInv'
    BY <2>1, <2>3 DEF NamesInv, StagedInv
  <2> QED
    BY <2>1, <2>4 DEF NamesInv, NamesType, NamesUnderLanguage
<1>11. CASE AltName
  <2>1. PICK l \in Languages \cup {""} :
            /\ AddName(IF l # "" THEN l ELSE itLanguage, <<por, l, item + 1>>)
            /\ itLanguage' = ""
    BY <1>11 DEF AltName
  <2> DEFINE n == <<por, l, item + 1>>
             k == IF l # "" THEN l ELSE itLanguage
  <2>2. at = "alt_names" /\ item < MaxItems /\ at \in Block
    BY <1>11 DEF AltName, Item, Block
  <2>3. por \in 1..MaxPors /\ item + 1 \in 1..MaxItems /\ (item = 0 => item + 1 = 1)
    BY <2>2, BlockBounds, NextItem
  <2>4. n \in NameToken
    BY <2>3 DEF NameToken
  <2>5. k \in Languages \cup {"", "text"}
    BY DEF NamesInv, StagedInv
  <2>6. n[2] = k \/ (k = "text" /\ n[1] > 1 /\ n[3] = 1)
    <3>1. CASE l # ""
      BY <3>1
    <3>2. CASE l = "" /\ itLanguage = ""
      BY <3>2
    <3>3. CASE l = "" /\ itLanguage = "text"
      <4>1. por > 1 /\ item = 0
        BY <3>3, <2>2 DEF NamesInv, StagedInv
      <4>2. n[1] = por /\ n[3] = item + 1 /\ k = "text"
        BY <3>3
      <4> QED
        BY <4>1, <4>2, <2>3
    <3> QED
      BY <3>1, <3>2, <3>3 DEF NamesInv, StagedInv
  <2>7. NamesType' /\ NamesUnderLanguage'
    BY <2>1, <2>4, <2>5, <2>6, NameFiled DEF NamesInv
  <2>8. StagedInv'
    BY <2>1 DEF StagedInv
  <2> QED
    BY <2>7, <2>8 DEF NamesInv
<1>12. CASE SwallowPor
  <2>1. PICK l \in Languages \cup {""} : AddName("text", <<por + 1, l, 1>>)
    BY <1>12 DEF SwallowPor
  <2>2. por < MaxPors /\ itLanguage' = ""
    BY <1>12 DEF SwallowPor
  <2>3. at \in Block
    BY <1>12 DEF SwallowPor, EndNames, Block
  <2>4. por \in 1..MaxPors
    BY <2>3, BlockBounds
  <2>5. por + 1 \in 1..MaxPors /\ por + 1 > 1
    BY <2>2, <2>4, Successor
  <2>6. <<por + 1, l, 1>> \in NameToken
    BY <2>5, Bounds DEF NameToken
  <2>7. NamesType' /\ NamesUnderLanguage'
    BY <2>1, <2>5, <2>6, NameFiled DEF NamesInv
  <2>8. StagedInv'
    BY <2>2 DEF StagedInv
  <2> QED
    BY <2>7, <2>8 DEF NamesInv
<1>13. CASE NextLine
  <2>1. nameMatrix' = NoNames /\ itLanguage' = ""
    BY <1>13 DEF NextLine
  <2>2. NamesType' /\ NamesUnderLanguage'
    BY <2>1, EmptyNames DEF NamesType, NamesUnderLanguage
  <2> QED
    BY <2>1, <2>2 DEF NamesInv, StagedInv
<1> QED
  BY <1>1, <1>2, <1>3, <1>4, <1>5, <1>6, <1>7, <1>8, <1>9, <1>10, <1>11, <1>12, <1>13
     DEF Next, ParseLine, ParseLists

LEMMA NamesInit == Init => NamesInv
<1> SUFFICES ASSUME Init PROVE NamesInv
  OBVIOUS
<1>1. nameMatrix = NoNames /\ itLanguage = ""
  BY DEF Init
<1>2. NamesType /\ NamesUnderLanguage
  BY <1>1, EmptyNames DEF NamesType, NamesUnderLanguage
<1> QED
  BY <1>1, <1>2 DEF NamesInv, StagedInv

(***************************************************************************)
(* An alternate name is filed under the language of its item, whatever was *)
(* staged before it, but for the first name of a POR that was found on the *)
(* line of another.                                                        *)
(***************************************************************************)
THEOREM NamesFiled == Spec => []NamesUnderLanguage
<1>1. TextInv /\ NamesInv /\ [Next]_vars => NamesInv'
  BY NamesStep
<1>2. NamesInv => NamesUnderLanguage
  BY DEF NamesInv
<1>3. Inv => TextInv
  BY DEF Inv
<1> QED
  BY <1>1, <1>2, <1>3, NamesInit, Invariance, PTL DEF Spec
-----------------------------------------------------------------------------
(***************************************************************************)
(* The answers.  The names filed are those that the line gives, and the    *)
(* type is read at the end of the columns of every POR.                    *)
(***************************************************************************)
AllNames == UNION {Range(nameMatrix[l]) : l \in DOMAIN nameMatrix}

FiledInv == AllNames = NamesOnLine

TypeRead ==
    /\ at = "start" => por = 0
    /\ at = "alt_names" \/ (Done /\ por > 0) => iataType \in PlaceType

LEMMA TypeLabels ==
    /\ \A t \in PlaceType : TypeOfLabel[TypeLabel[t]] = t
    /\ \A t \in DOMAIN IATAType : IATAType[t] \in PlaceType
  BY DEF TypeLabel, TypeOfLabel, IATAType, PlaceType

LEMMA NamesApart == \A n \in NameToken : n[2] \notin Column
  BY LanguagesAssumption, PlainColumns DEF LanguagesAssumption, NameToken

LEMMA AllNamesAre ==
    \A n : n \in AllNames <=> \E l \in DOMAIN nameMatrix : n \in Range(nameMatrix[l])
  BY DEF AllNames

\* the elements after one was appended
AppendAdds(s, x) == Range(Append(s, x)) = Range(s) \cup {x}

LEMMA ExactAppend ==
    ASSUME NEW S, NEW s \in Seq(S), NEW x \in S
    PROVE  Append(s, x) \in Seq(S) /\ Range(Append(s, x)) = Range(s) \cup {x}
<1>1. DOMAIN Append(s, x) = 1..(Len(s) + 1) /\ DOMAIN s = 1..Len(s) /\ Len(s) \in Nat
  OBVIOUS
<1>2. Append(s, x)[Len(s) + 1] = x /\ \A i \in 1..Len(s) : Append(s, x)[i] = s[i]
  OBVIOUS
<1>3. x \in Range(Append(s, x))
  BY <1>1, <1>2 DEF Range
<1>4. Range(s) \subseteq Range(Append(s, x))
  BY <1>1, <1>2 DEF Range
<1> QED
  BY <1>3, <1>4, RangeAppend

LEMMA ExactAppendAdds ==
    ASSUME NEW S, NEW s \in Seq(S), NEW x \in S
    PROVE  AppendAdds(s, x)
BY ExactAppend DEF AppendAdds

LEMMA FiledKept ==
    ASSUME FiledInv, nameMatrix' = nameMatrix, line \subseteq line',
           \A t \in line' \ line : t[2] \in Column
    PROVE  FiledInv'
<1>1. NamesOnLine' = NamesOnLine
  BY NamesApart DEF NamesOnLine
<1>2. AllNames' = AllNames
  BY DEF AllNames
<1> QED
  BY <1>1, <1>2 DEF FiledInv

LEMMA FiledAlso ==
    ASSUME FiledInv, NamesType, NEW l \in Languages \cup {"", "text"},
           NEW n \in NameToken, AddName(l, n), line' = line \cup {n}
    PROVE  FiledInv'
<1>1. nameMatrix' = [nameMatrix EXCEPT ![l] = Append(nameMatrix[l], n)]
  BY DEF AddName
<1>2. Range(Append(nameMatrix[l], n)) = Range(nameMatrix[l]) \cup {n}
  <2>1. nameMatrix[l] \in Seq(NameToken)
    BY DEF NamesType
  <2>2. PICK s \in Seq(NameToken) : s = nameMatrix[l]
    BY <2>1
  <2>3. AppendAdds(s, n)
    BY ExactAppendAdds
  <2> QED
    BY ONLY <2>2, <2>3 DEF AppendAdds
<1>3. /\ DOMAIN nameMatrix' = DOMAIN nameMatrix /\ l \in DOMAIN nameMatrix
      /\ nameMatrix'[l] = Append(nameMatrix[l], n)
      /\ \A k \in DOMAIN nameMatrix : k # l => nameMatrix'[k] = nameMatrix[k]
  BY <1>1 DEF NamesType
<1>4. \A m : m \in AllNames' <=> \E k \in DOMAIN nameMatrix' : m \in Range(nameMatrix'[k])
  BY DEF AllNames
<1>5. \A m : m \in AllNames' <=> m \in AllNames \cup {n}
  BY <1>2, <1>3, <1>4, AllNamesAre
<1>6. NamesOnLine' = NamesOnLine \cup {n}
  BY DEF NamesOnLine
<1> QED
  BY <1>5, <1>6 DEF FiledInv

LEMMA FiledStep ==
    ASSUME TextInv, NamesInv, FiledInv, [Next]_vars
    PROVE  FiledInv'
<1>1. CASE PorKey \/ PorNames \/ PorCountry \/ PorFigures \/ PorEnd
  <2>1. PICK b \in Blocks, next \in Block : Columns(b, next)
    BY <1>1 DEF PorKey, PorNames, PorCountry, PorFigures, PorEnd, Blocks, Block
  <2>2. PICK given \in SUBSET Optional[b] :
            line' = line \cup {Tok(c) : c \in Needed[b] \cup given}
    BY <2>1 DEF Columns
  <2>3. \A c \in Needed[b] \cup given : c \in Column
    BY BlockColumns DEF Column
  <2>4. nameMatrix' = nameMatrix
    BY <2>1 DEF Columns
  <2> QED
    BY <2>2, <2>3, <2>4, FiledKept DEF Tok
<1>2. CASE ValidityDates
  <2>1. PICK given \in SUBSET {"date_from", "date_until"} :
            line' = line \cup {Tok(c) : c \in given}
    BY <1>2 DEF ValidityDates
  <2>2. \A c \in given : c \in Column
    BY DEF Column, Dropped
  <2>3. nameMatrix' = nameMatrix
    BY <1>2 DEF ValidityDates, location
  <2> QED
    BY <2>1, <2>2, <2>3, FiledKept DEF Tok
<1>3. CASE ModDate
  <2>1. line' = line \cup {Tok("mod_date")} /\ nameMatrix' = nameMatrix
    BY <1>3 DEF ModDate
  <2> QED
    BY <2>1, FiledKept DEF Tok, Column
<1>4. CASE CityCode \/ CityName \/ CityDetails \/ TvlPor
  <2>1. PICK c \in List : line' = line \cup {<<por, c, item + 1>>}
    BY <1>4 DEF CityCode, CityName, CityDetails, TvlPor, Keep, List, CityList
  <2>2. nameMatrix' = nameMatrix
    BY <1>4 DEF CityCode, CityName, CityDetails, TvlPor, Keep, location
  <2>3. c \in Column
    BY PlainColumns
  <2> QED
    BY <2>1, <2>2, <2>3, FiledKept
<1>5. CASE \/ NoPor \/ FirstPor \/ NoModDate \/ DateThrows \/ TypeThrows
           \/ EndCityCodes \/ EndCityNames \/ EndCityDetails \/ EndTvlPors
           \/ EndOfLine \/ AnotherPor \/ Refuse
  <2>1. line' = line /\ nameMatrix' = nameMatrix
    BY <1>5 DEF NoPor, FirstPor, BeginPor, NoModDate, DateThrows, TypeThrows, EndCityCodes,
           EndCityNames, EndCityDetails, EndTvlPors, EndList, EndOfLine, AnotherPor, Refuse,
           text, location
  <2> QED
    BY <2>1, FiledKept
<1>6. CASE Locate \/ UNCHANGED vars
  <2>1. line' = line /\ nameMatrix' = nameMatrix
    BY <1>6 DEF Locate, vars, text, location
  <2> QED
    BY <2>1, FiledKept
<1>7. CASE AltName
  <2>1. PICK l \in Languages \cup {""} :
            /\ AddName(IF l # "" THEN l ELSE itLanguage, <<por, l, item + 1>>)
            /\ line' = line \cup {<<por, l, item + 1>>}
    BY <1>7 DEF AltName
  <2>2. at = "alt_names" /\ item < MaxItems /\ at \in Block
    BY <1>7 DEF AltName, Item, Block
  <2>3. <<por, l, item + 1>> \in NameToken
    BY <2>2, BlockBounds, NextItem DEF NameToken
  <2>4. (IF l # "" THEN l ELSE itLanguage) \in Languages \cup {"", "text"}
    BY DEF NamesInv, StagedInv
  <2> QED
    BY <2>1, <2>3, <2>4, FiledAlso DEF NamesInv
<1>8. CASE SwallowPor
  <2>1. PICK l \in Languages \cup {""} :
            AddName("text", <<por + 1, l, 1>>) /\ line' = line \cup {<<por + 1, l, 1>>}
    BY <1>8 DEF SwallowPor
  <2>2. por < MaxPors /\ at \in Block
    BY <1>8 DEF SwallowPor, EndNames, Block
  <2>3. por + 1 \in 1..MaxPors
    BY <2>2, BlockBounds, Successor
  <2>4. <<por + 1, l, 1>> \in NameToken
    BY <2>3, Bounds DEF NameToken
  <2>5. PICK n \in NameToken : n = <<por + 1, l, 1>>
    BY <2>4
  <2>6. AddName("text", n) /\ line' = line \cup {n}
    BY <2>1, <2>5
  <2>7. NamesType /\ "text" \in Languages \cup {"", "text"}
    BY DEF NamesInv
  <2>8. n \in NameToken
    OBVIOUS
  <2>9. FiledInv
    OBVIOUS
  <2> QED
    BY ONLY <2>6, <2>7, <2>8, <2>9, FiledAlso
<1>9. CASE NextLine
  <2>1. nameMatrix' = NoNames /\ line' = {}
    BY <1>9 DEF NextLine
  <2>2. AllNames' = {}
    BY <2>1, EmptyNames DEF AllNames
  <2>3. NamesOnLine' = {}
    BY <2>1 DEF NamesOnLine
  <2> QED
    BY <2>2, <2>3 DEF FiledInv
<1> QED
  BY <1>1, <1>2, <1>3, <1>4, <1>5, <1>6, <1>7, <1>8, <1>9 DEF Next, ParseLine, ParseLists

(***************************************************************************)
(* No step but the reading of the type leads to the alternate names, and   *)
(* only from there is a line with a POR accepted.                          *)
(***************************************************************************)
LEMMA TypeReadStep == ASSUME TextInv, TypeRead, [Next]_vars PROVE TypeRead'
<1>1. CASE PorEnd
  <2>1. iataType' \in PlaceType /\ at' = "alt_names"
    BY <1>1, TypeLabels DEF PorEnd, Columns, Move
  <2> QED
    BY <2>1 DEF TypeRead
<1>2. CASE PorKey \/ PorNames \/ PorCountry \/ PorFigures \/ ValidityDates \/ ModDate \/ NoModDate
  <2>1. at' \in {"names", "dates", "country", "figures", "mod_date", "city_codes"}
    BY <1>2 DEF PorKey, PorNames, PorCountry, PorFigures, Columns, ValidityDates, ModDate, NoModDate, Move
  <2> QED
    BY <2>1 DEF TypeRead, Done
<1>3. CASE CityCode \/ CityName \/ CityDetails \/ TvlPor
  <2>1. at' \in {"city_codes", "city_names", "city_details", "tvl_pors"}
    BY <1>3 DEF CityCode, CityName, CityDetails, TvlPor, Item
  <2> QED
    BY <2>1 DEF TypeRead, Done
<1>4. CASE EndCityCodes \/ EndCityNames \/ EndCityDetails \/ EndTvlPors
  <2>1. at' \in {"city_names", "city_details", "tvl_pors", "end"}
    BY <1>4 DEF EndCityCodes, EndCityNames, EndCityDetails, EndTvlPors, EndList, Move
  <2> QED
    BY <2>1 DEF TypeRead, Done
<1>5. CASE AltName \/ EndOfLine \/ SwallowPor
  <2>1. at = "alt_names" /\ at' \in {"alt_names", "accepted"} /\ iataType' = iataType
    BY <1>5 DEF AltName, Item, EndOfLine, SwallowPor, EndNames, location
  <2> QED
    BY <2>1 DEF TypeRead
<1>6. CASE FirstPor \/ AnotherPor \/ DateThrows \/ TypeThrows \/ Refuse
  <2>1. at' \in {"key", "thrown", "refused"}
    BY <1>6 DEF FirstPor, BeginPor, AnotherPor, DateThrows, TypeThrows, Refuse
  <2> QED
    BY <2>1 DEF TypeRead, Done
<1>7. CASE NoPor
  <2>1. at = "start" /\ at' = "accepted" /\ por' = por
    BY <1>7 DEF NoPor, text
  <2>2. por' = 0
    BY <2>1 DEF TypeRead
  <2> QED
    BY <2>1, <2>2 DEF TypeRead, Done
<1>8. CASE Locate
  <2>1. at = "accepted" /\ at' = "located" /\ por > 0 /\ iataType' = iataType
    BY <1>8 DEF Locate
  <2> QED
    BY <2>1 DEF TypeRead, Done
<1>9. CASE NextLine
  <2>1. at' = "start" /\ por' = 0
    BY <1>9 DEF NextLine
  <2> QED
    BY <2>1 DEF TypeRead, Done
<1>10. CASE UNCHANGED vars
  BY <1>10 DEF vars, text, location, TypeRead, Done
<1> QED
  BY <1>1, <1>2, <1>3, <1>4, <1>5, <1>6, <1>7, <1>8, <1>9, <1>10 DEF Next, ParseLine, ParseLists

AnswersInv == NamesInv /\ FiledInv /\ TypeRead

LEMMA AnswersInit == Init => AnswersInv
<1> SUFFICES ASSUME Init PROVE AnswersInv
  OBVIOUS
<1>1. nameMatrix = NoNames /\ line = {} /\ at = "start" /\ por = 0
  BY DEF Init
<1>2. FiledInv
  BY <1>1, EmptyNames DEF FiledInv, AllNames, NamesOnLine
<1>3. TypeRead
  BY <1>1 DEF TypeRead, Done
<1> QED
  BY <1>2, <1>3, NamesInit DEF AnswersInv

(***************************************************************************)
(* What an attribute tells is on the line: LastGiven says which token.     *)
(***************************************************************************)
LEMMA ToldOnLine == ASSUME LastGiven, NEW a \in Attribute PROVE attr[a] \in line \cup {None}
  BY DEF LastGiven

LEMMA Agreement == Inv /\ AnswersInv => AnswersAgree
<1> SUFFICES ASSUME Inv, AnswersInv, Done, por > 0
             PROVE  /\ \A a \in InMessage \cap InJSON : Message.attr[a] = JSON.attr[a]
                    /\ \A a \in InMessage : Message.attr[a] \in line \cup {None}
                    /\ JSON.names = NamesOnLine
                    /\ NamesOnLine = UNION {Range(Message.names[l]) : l \in DOMAIN Message.names}
                    /\ \A c \in DOMAIN Row.codes : Row.codes[c] = JSON.attr[c]
                    /\ TypeOfLabel[Row.location_type] = Message.loc_type
  BY DEF AnswersAgree
<1>1. /\ Message.attr = [a \in InMessage |-> attr[a]] /\ Message.loc_type = iataType
      /\ Message.names = nameMatrix
  BY DEF Message
<1>2. JSON.attr = [a \in InJSON |-> attr[a]] /\ JSON.names = AllNames
  BY DEF JSON, AllNames
<1>3. /\ Row.codes = [a \in {"iata_code", "icao_code", "faa_code"} |-> attr[a]]
      /\ Row.location_type = TypeLabel[iataType]
  BY DEF Row
<1>4. \A a \in InMessage : Message.attr[a] \in line \cup {None}
  BY <1>1, ToldOnLine DEF Inv, InMessage
<1>5. AllNames = NamesOnLine
  BY DEF AnswersInv, FiledInv
<1>6. {"iata_code", "icao_code", "faa_code"} \subseteq InJSON
  <2>1. "iata_code" \in Needed["key"] /\ {"icao_code", "faa_code"} \subseteq Optional["key"]
    BY DEF Needed, Optional
  <2>2. DOMAIN Needed = Blocks /\ DOMAIN Optional = Blocks /\ "key" \in Blocks
    BY DEF Needed, Optional, Blocks
  <2>3. {"iata_code", "icao_code", "faa_code"} \subseteq Plain
    BY <2>1, <2>2 DEF Plain, Range, Dropped
  <2> QED
    BY <2>3 DEF InJSON, Attribute
<1>7. iataType \in PlaceType
  BY DEF AnswersInv, TypeRead
<1>8. NamesOnLine = UNION {Range(Message.names[l]) : l \in DOMAIN Message.names}
  BY <1>1, <1>5 DEF AllNames
<1>9. \A c \in DOMAIN Row.codes : Row.codes[c] = JSON.attr[c]
  BY <1>2, <1>3, <1>6
<1>10. \A a \in InMessage \cap InJSON : Message.attr[a] = JSON.attr[a]
  BY <1>1, <1>2
<1> QED
  BY <1>1, <1>2, <1>3, <1>4, <1>5, <1>7, <1>8, <1>9, <1>10, TypeLabels

(***************************************************************************)
(* The answer in JSON, the Protobuf message and the row of a Location that *)
(* has been read agree on its attributes, on all of its names and on its   *)
(* type, however many PORs and items its line has.                         *)
(***************************************************************************)
THEOREM AnswersAlwaysAgree == Spec => []AnswersAgree
<1>1. TextInv /\ AnswersInv /\ [Next]_vars => AnswersInv'
  BY NamesStep, FiledStep, TypeReadStep DEF AnswersInv
<1>2. Inv => TextInv
  BY DEF Inv
<1> QED
  BY <1>1, <1>2, AnswersInit, Agreement, Invariance, PTL DEF Spec

-----------------------------------------------------------------------------
(***************************************************************************)
(* Types.  What is left to show is that the number of odd columns stays    *)
(* within its bound: a block is never short of more columns than it has.   *)
(***************************************************************************)
ShapeInv == shape \in {"full", "bare"} /\ rest \in {"any", "nobar", "equals"}

OddInv == odd \in 0..MaxOdd

TvlInv == tvl \in Seq(Token) /\ itTvl \in Seq(Token)

DateInv == itDate \in Token \cup {None}

KindInv ==
    /\ iataType \in PlaceType \cup {"LAST_VALUE"}
    /\ distance \in [actual : Nat, allowable : Nat]

OthersInv == ShapeInv /\ OddInv /\ TvlInv /\ DateInv /\ KindInv

LEMMA ThreeMore ==
    ASSUME NEW S, IsFiniteSet(S), NEW x, NEW y, NEW z
    PROVE  IsFiniteSet(S \cup {x, y, z})
<1>1. PICK T : T = S \cup {x} /\ IsFiniteSet(T)
  BY FS_AddElement
<1>2. PICK U : U = T \cup {y} /\ IsFiniteSet(U)
  BY <1>1, FS_AddElement
<1>3. IsFiniteSet(U \cup {z})
  BY <1>2, FS_AddElement
<1>4. U \cup {z} = S \cup {x, y, z}
  BY <1>1, <1>2
<1> QED
  BY <1>3, <1>4

LEMMA OptionalFinite == \A b \in Blocks : IsFiniteSet(Optional[b])
<1>0. IsFiniteSet({})
  BY FS_EmptySet
<1>1. IsFiniteSet(Optional["key"])
  <2>1. IsFiniteSet({} \cup {"icao_code", "faa_code", "envelope_id"})
    BY <1>0, ThreeMore
  <2>2. Optional["key"] = {} \cup {"icao_code", "faa_code", "envelope_id"}
    BY DEF Optional
  <2> QED
    BY <2>1, <2>2
<1>2. IsFiniteSet(Optional["names"])
  <2>1. IsFiniteSet({} \cup {"latitude", "longitude", "page_rank"})
    BY <1>0, ThreeMore
  <2>2. Optional["names"] = {} \cup {"latitude", "longitude", "page_rank"}
    BY DEF Optional
  <2> QED
    BY <2>1, <2>2
<1>3. IsFiniteSet(Optional["country"])
  <2>1. PICK A : A = {} \cup {"comments", "country_code2", "continent_name"} /\ IsFiniteSet(A)
    BY <1>0, ThreeMore
  <2>2. PICK B : B = A \cup {"adm1_code", "adm1_name_utf", "adm1_name_ascii"} /\ IsFiniteSet(B)
    BY <2>1, ThreeMore
  <2>3. PICK C : C = B \cup {"adm2_code", "adm2_name_utf", "adm2_name_ascii"} /\ IsFiniteSet(C)
    BY <2>2, ThreeMore
  <2>4. IsFiniteSet(C \cup {"adm3_code", "adm4_code", "adm4_code"})
    BY <2>3, ThreeMore
  <2>5. Optional["country"] = C \cup {"adm3_code", "adm4_code", "adm4_code"}
    BY <2>1, <2>2, <2>3 DEF Optional
  <2> QED
    BY <2>4, <2>5
<1>4. IsFiniteSet(Optional["figures"])
  <2>1. PICK A : A = {} \cup {"population", "elevation", "gtopo30"} /\ IsFiniteSet(A)
    BY <1>0, ThreeMore
  <2>2. PICK B : B = A \cup {"time_zone", "gmt_offset", "dst_offset"} /\ IsFiniteSet(B)
    BY <2>1, ThreeMore
  <2>3. IsFiniteSet(B \cup {"raw_offset"})
    BY <2>2, FS_AddElement
  <2>4. Optional["figures"] = B \cup {"raw_offset"}
    BY <2>1, <2>2 DEF Optional
  <2> QED
    BY <2>3, <2>4
<1>5. IsFiniteSet(Optional["end"])
  <2>1. IsFiniteSet({"state_code"} \cup {"wiki_link"})
    BY FS_Singleton, FS_AddElement
  <2>2. Optional["end"] = {"state_code"} \cup {"wiki_link"}
    BY DEF Optional
  <2> QED
    BY <2>1, <2>2
<1> QED
  BY <1>1, <1>2, <1>3, <1>4, <1>5 DEF Blocks

LEMMA GivenCounted ==
    ASSUME NEW b \in Blocks, NEW given \in SUBSET Optional[b]
    PROVE  /\ Cardinality(given) \in Nat /\ Cardinality(Optional[b]) \in Nat
           /\ Cardinality(given) <= Cardinality(Optional[b])
<1>1. IsFiniteSet(Optional[b])
  BY OptionalFinite
<1>2. IsFiniteSet(given) /\ Cardinality(given) <= Cardinality(Optional[b])
  BY <1>1, FS_Subset
<1> QED
  BY <1>1, <1>2, FS_CardinalityType

LEMMA DatesCounted ==
    ASSUME NEW given \in SUBSET {"date_from", "date_until"}
    PROVE  Cardinality(given) \in Nat /\ Cardinality(given) <= 2
<1>1. IsFiniteSet({"date_from"}) /\ Cardinality({"date_from"}) = 1
  BY FS_Singleton
<1>2. PICK dates : dates = {"date_from"} \cup {"date_until"}
  OBVIOUS
<1>3. IsFiniteSet(dates) /\ Cardinality(dates) = 2
  BY <1>1, <1>2, FS_AddElement
<1>4. given \in SUBSET dates
  BY <1>2
<1>5. IsFiniteSet(given) /\ Cardinality(given) <= Cardinality(dates)
  BY <1>3, <1>4, FS_Subset
<1> QED
  BY <1>3, <1>5, FS_CardinalityType

LEMMA SpendBounded ==
    ASSUME OddInv, NEW given \in Nat, NEW could \in Nat, given <= could, Spend(given, could)
    PROVE  OddInv'
<1>1. Oddity(given, could) \in Nat
  BY DEF Oddity
<1>2. odd \in Nat /\ MaxOdd \in Nat
  BY BoundsAssumption DEF OddInv, BoundsAssumption
<1>3. odd' = odd + Oddity(given, could) /\ odd' <= MaxOdd
  BY DEF Spend
<1> QED
  BY <1>1, <1>2, <1>3 DEF OddInv

LEMMA OddStep == ASSUME TextInv, OddInv, [Next]_vars PROVE OddInv'
<1>0. item \in Nat /\ item <= MaxItems /\ MaxItems \in Nat /\ MaxItems >= 1
  BY Bounds DEF TextInv
<1>1. CASE PorKey \/ PorNames \/ PorCountry \/ PorFigures \/ PorEnd
  <2>1. PICK b \in Blocks, next \in Block : Columns(b, next)
    BY <1>1 DEF PorKey, PorNames, PorCountry, PorFigures, PorEnd, Blocks, Block
  <2>2. PICK given \in SUBSET Optional[b] :
            Spend(Cardinality(given), Cardinality(Optional[b]))
    BY <2>1 DEF Columns
  <2>3. PICK g \in Nat, c \in Nat :
            g = Cardinality(given) /\ c = Cardinality(Optional[b]) /\ g <= c
    BY GivenCounted
  <2> QED
    BY <2>2, <2>3, SpendBounded
<1>2. CASE ValidityDates
  <2>1. PICK given \in SUBSET {"date_from", "date_until"} : Spend(Cardinality(given), 2)
    BY <1>2 DEF ValidityDates
  <2>2. PICK g \in Nat : g = Cardinality(given) /\ g <= 2
    BY DatesCounted
  <2> QED
    BY <2>1, <2>2, SpendBounded
<1>3. CASE ModDate \/ NoModDate
  <2>1. PICK g \in {0, 1} : Spend(g, 1)
    BY <1>3 DEF ModDate, NoModDate
  <2> QED
    BY <2>1, SpendBounded
<1>4. CASE EndCityCodes \/ EndCityNames \/ EndCityDetails \/ EndTvlPors
  <2>1. Spend(item, MaxItems) \/ (item >= 1 /\ Spend(item - 1, MaxItems - 1))
    BY <1>4 DEF EndCityCodes, EndCityNames, EndCityDetails, EndTvlPors, EndList
  <2>2. CASE Spend(item, MaxItems)
    BY <1>0, <2>2, SpendBounded
  <2>3. CASE item >= 1 /\ Spend(item - 1, MaxItems - 1)
    <3>1. PICK g \in Nat, c \in Nat : g = item - 1 /\ c = MaxItems - 1 /\ g <= c
      BY <1>0, <2>3
    <3> QED
      BY <2>3, <3>1, SpendBounded
  <2> QED
    BY <2>1, <2>2, <2>3
<1>5. CASE EndOfLine \/ AnotherPor \/ SwallowPor
  <2>1. Spend(item, MaxItems)
    BY <1>5 DEF EndOfLine, AnotherPor, SwallowPor, EndNames
  <2> QED
    BY <1>0, <2>1, SpendBounded
<1>6. CASE NextLine
  <2>1. odd' = 0
    BY <1>6 DEF NextLine
  <2> QED
    BY <2>1, BoundsAssumption DEF OddInv, BoundsAssumption
<1>7. CASE \/ NoPor \/ FirstPor \/ DateThrows \/ TypeThrows \/ Refuse \/ Locate
           \/ CityCode \/ CityName \/ CityDetails \/ TvlPor \/ AltName \/ UNCHANGED vars
  <2>1. odd' = odd
    BY <1>7 DEF NoPor, FirstPor, BeginPor, DateThrows, TypeThrows, Refuse, Locate, CityCode,
           CityName, CityDetails, TvlPor, AltName, Item, vars, text
  <2> QED
    BY <2>1 DEF OddInv
<1> QED
  BY <1>1, <1>2, <1>3, <1>4, <1>5, <1>6, <1>7 DEF Next, ParseLine, ParseLists

LEMMA ShapeStep == ASSUME ShapeInv, [Next]_vars PROVE ShapeInv'
<1>1. CASE \/ PorKey \/ PorNames \/ PorCountry \/ PorFigures \/ PorEnd
           \/ ValidityDates \/ ModDate \/ NoModDate
           \/ EndCityCodes \/ EndCityNames \/ EndCityDetails \/ EndTvlPors
  <2>1. shape' = shape /\ rest' = rest
    BY <1>1 DEF PorKey, PorNames, PorCountry, PorFigures, PorEnd, Columns, ValidityDates,
           ModDate, NoModDate, EndCityCodes, EndCityNames, EndCityDetails, EndTvlPors,
           EndList, Move
  <2> QED
    BY <2>1 DEF ShapeInv
<1>2. CASE FirstPor \/ AnotherPor \/ NextLine
  BY <1>2 DEF FirstPor, BeginPor, AnotherPor, NextLine, ShapeInv
<1>3. CASE \/ NoPor \/ DateThrows \/ TypeThrows \/ Refuse \/ Locate \/ EndOfLine \/ SwallowPor
           \/ CityCode \/ CityName \/ CityDetails \/ TvlPor \/ AltName \/ UNCHANGED vars
  <2>1. shape' = shape /\ rest' = rest
    BY <1>3 DEF NoPor, DateThrows, TypeThrows, Refuse, Locate, EndOfLine, SwallowPor, CityCode,
           CityName, CityDetails, TvlPor, AltName, Item, vars, text
  <2> QED
    BY <2>1 DEF ShapeInv
<1> QED
  BY <1>1, <1>2, <1>3 DEF Next, ParseLine, ParseLists

LEMMA TvlStep == ASSUME TextInv, TvlInv, [Next]_vars PROVE TvlInv'
<1>1. CASE TvlPor
  <2>1. at = "tvl_pors" /\ item < MaxItems /\ at \in Block
    BY <1>1 DEF TvlPor, Item, Block
  <2>2. por \in 1..MaxPors /\ item + 1 \in 1..MaxItems
    BY <2>1, BlockBounds, NextItem
  <2>3. "tvl_por_code_list" \in Column
    BY DEF Column
  <2>4. PICK t \in Token : t = <<por, "tvl_por_code_list", item + 1>>
    BY <2>2, <2>3 DEF Token
  <2>5. itTvl' = Append(itTvl, t) /\ tvl' = tvl
    BY <1>1, <2>4 DEF TvlPor, location
  <2>6. Append(itTvl, t) \in Seq(Token)
    BY RangeAppend DEF TvlInv
  <2> QED
    BY <2>5, <2>6 DEF TvlInv
<1>2. CASE EndTvlPors
  <2>1. tvl' \in {itTvl, tvl} /\ itTvl' = itTvl
    BY <1>2 DEF EndTvlPors, EndList, staged
  <2> QED
    BY <2>1 DEF TvlInv
<1>3. CASE NextLine
  <2>1. tvl' = <<>> /\ itTvl' = <<>>
    BY <1>3 DEF NextLine
  <2> QED
    BY <2>1 DEF TvlInv
<1>4. CASE \/ PorKey \/ PorNames \/ PorCountry \/ PorFigures \/ PorEnd
           \/ ValidityDates \/ ModDate \/ NoModDate
           \/ EndCityCodes \/ EndCityNames \/ EndCityDetails
  <2>1. tvl' = tvl /\ itTvl' = itTvl
    BY <1>4 DEF PorKey, PorNames, PorCountry, PorFigures, PorEnd, Columns, ValidityDates,
           ModDate, NoModDate, EndCityCodes, EndCityNames, EndCityDetails, EndList,
           staged, location
  <2> QED
    BY <2>1 DEF TvlInv
<1>5. CASE \/ NoPor \/ FirstPor \/ DateThrows \/ TypeThrows \/ Refuse \/ Locate \/ EndOfLine
           \/ AnotherPor \/ SwallowPor \/ CityCode \/ CityName \/ CityDetails \/ AltName
           \/ UNCHANGED vars
  <2>1. tvl' = tvl /\ itTvl' = itTvl
    BY <1>5 DEF NoPor, FirstPor, BeginPor, DateThrows, TypeThrows, Refuse, Locate, EndOfLine,
           AnotherPor, SwallowPor, CityCode, CityName, CityDetails, Keep, AltName, vars,
           staged, location
  <2> QED
    BY <2>1 DEF TvlInv
<1> QED
  BY <1>1, <1>2, <1>3, <1>4, <1>5 DEF Next, ParseLine, ParseLists

LEMMA DateStep == ASSUME TextInv, DateInv, [Next]_vars PROVE DateInv'
<1>1. CASE ModDate \/ DateThrows \/ ValidityDates
  <2>1. at \in Block
    BY <1>1 DEF ModDate, DateThrows, ValidityDates, Block
  <2>2. {"mod_date", "date_from", "date_until"} \subseteq Single
    BY DEF Single, Dropped
  <2>3. \A c \in {"mod_date", "date_from", "date_until"} : Tok(c) \in Token
    BY <2>1, <2>2, ReadTokens
  <2>4. itDate' = itDate \/ \E c \in {"mod_date", "date_from", "date_until"} : itDate' = Tok(c)
    BY <1>1 DEF ModDate, DateThrows, ValidityDates
  <2> QED
    BY <2>3, <2>4 DEF DateInv
<1>2. CASE NextLine
  BY <1>2 DEF NextLine, DateInv
<1>3. CASE \/ PorKey \/ PorNames \/ PorCountry \/ PorFigures \/ PorEnd \/ NoModDate
           \/ EndCityCodes \/ EndCityNames \/ EndCityDetails \/ EndTvlPors
  <2>1. itDate' = itDate
    BY <1>3 DEF PorKey, PorNames, PorCountry, PorFigures, PorEnd, Columns, NoModDate,
           EndCityCodes, EndCityNames, EndCityDetails, EndTvlPors, EndList, staged
  <2> QED
    BY <2>1 DEF DateInv
<1>4. CASE \/ NoPor \/ FirstPor \/ TypeThrows \/ Refuse \/ Locate \/ EndOfLine
           \/ AnotherPor \/ SwallowPor \/ CityCode \/ CityName \/ CityDetails \/ TvlPor
           \/ AltName \/ UNCHANGED vars
  <2>1. itDate' = itDate
    BY <1>4 DEF NoPor, FirstPor, TypeThrows, Refuse, Locate, EndOfLine, AnotherPor, SwallowPor,
           CityCode, CityName, CityDetails, Keep, TvlPor, AltName, vars, staged
  <2> QED
    BY <2>1 DEF DateInv
<1> QED
  BY <1>1, <1>2, <1>3, <1>4 DEF Next, ParseLine, ParseLists

LEMMA KindStep == ASSUME KindInv, [Next]_vars PROVE KindInv'
<1>1. CASE PorEnd
  <2>1. iataType' \in PlaceType /\ distance' = distance
    BY <1>1, TypeLabels DEF PorEnd, Columns
  <2> QED
    BY <2>1 DEF KindInv
<1>2. CASE Locate
  <2>1. PICK most \in 0..MaxErrors : \E dist \in 0..most :
            distance' = [actual |-> dist, allowable |-> most]
    BY <1>2 DEF Locate
  <2>2. most \in Nat /\ 0..most \subseteq Nat
    BY <2>1, BoundsAssumption DEF BoundsAssumption
  <2>3. iataType' = iataType
    BY <1>2 DEF Locate
  <2> QED
    BY <2>1, <2>2, <2>3 DEF KindInv
<1>3. CASE NextLine
  BY <1>3 DEF NextLine, NoDistance, KindInv
<1>4. CASE \/ PorKey \/ PorNames \/ PorCountry \/ PorFigures
           \/ ValidityDates \/ ModDate \/ NoModDate
           \/ EndCityCodes \/ EndCityNames \/ EndCityDetails \/ EndTvlPors
  <2>1. iataType' = iataType /\ distance' = distance
    BY <1>4 DEF PorKey, PorNames, PorCountry, PorFigures, Columns, ValidityDates,
           ModDate, NoModDate, EndCityCodes, EndCityNames, EndCityDetails, EndTvlPors, location
  <2> QED
    BY <2>1 DEF KindInv
<1>5. CASE \/ NoPor \/ FirstPor \/ DateThrows \/ TypeThrows \/ Refuse \/ EndOfLine
           \/ AnotherPor \/ SwallowPor \/ CityCode \/ CityName \/ CityDetails \/ TvlPor
           \/ AltName \/ UNCHANGED vars
  <2>1. iataType' = iataType /\ distance' = distance
    BY <1>5 DEF NoPor, FirstPor, BeginPor, DateThrows, TypeThrows, Refuse, EndOfLine, AnotherPor,
           SwallowPor, CityCode, CityName, CityDetails, Keep, TvlPor, AltName, vars, location
  <2> QED
    BY <2>1 DEF KindInv
<1> QED
  BY <1>1, <1>2, <1>3, <1>4, <1>5 DEF Next, ParseLine, ParseLists

LEMMA OthersInit == Init => OthersInv
<1> SUFFICES ASSUME Init PROVE OthersInv
  OBVIOUS
<1>1. OddInv
  <2>1. odd = 0
    BY DEF Init
  <2> QED
    BY <2>1, BoundsAssumption DEF OddInv, BoundsAssumption
<1>2. TvlInv
  <2>1. tvl = <<>> /\ itTvl = <<>>
    BY DEF Init
  <2> QED
    BY <2>1 DEF TvlInv
<1>3. ShapeInv /\ DateInv /\ KindInv
  BY DEF Init, ShapeInv, DateInv, KindInv, NoDistance
<1> QED
  BY <1>1, <1>2, <1>3 DEF OthersInv

(***************************************************************************)
(* Every state of the parser has its type, for any bounds: an attribute is *)
(* a token of a POR, a column and an item that exist, or was never given.  *)
(***************************************************************************)
THEOREM ParsesTyped == Spec => []TypeOK
<1>1. TextInv /\ OthersInv /\ [Next]_vars => OthersInv'
  BY ShapeStep, OddStep, TvlStep, DateStep, KindStep DEF OthersInv
<1>2. TextInv /\ NamesInv /\ [Next]_vars => NamesInv'
  BY NamesStep
<1>3. Inv => TextInv
  BY DEF Inv
<1>4. TextInv /\ NamesInv /\ OthersInv => TypeOK
  BY DEF TypeOK, TextInv, Place, NamesInv, NamesType, StagedInv, OthersInv, ShapeInv, OddInv,
         TvlInv, DateInv, KindInv
<1> QED
  BY <1>1, <1>2, <1>3, <1>4, OthersInit, NamesInit, Invariance, PTL DEF Spec
=============================================================================
