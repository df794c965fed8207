----------------------------- MODULE PlaceTerms -----------------------------
(***************************************************************************)
(* The terms a POR is indexed by, Place::buildIndexSets().  The sets of    *)
(* terms of the Place, one for each weight, are copied out, added to, and  *)
(* merged back at the end, while the names of the POR go to the same sets  *)
(* by copies of their own.  The document and the spelling dictionary are   *)
(* filled in from these sets.  A term is a sequence of words, the empty    *)
(* sequence for an empty string.                                           *)
(***************************************************************************)
EXTENDS StringPartition

CONSTANTS Word, Locations,
          Weights,      \* the weights of terms that occur
          Features,     \* feature code -> its feature names
          Normal        \* OTransliterator::normalise(), word by word

Term == Seq(Word)

(***************************************************************************)
(* K_DEFAULT_INDEXING_STD_WEIGHT.  The weight of a location is two, plus a *)
(* fifth of its PageRank.                                                  *)
(***************************************************************************)
StdWeight == 1

Codes == {"iata", "icao", "faa"}
Areas == {"cityUtf", "cityAscii", "adm1Utf", "adm1Ascii", "adm2Utf", "adm2Ascii"}
Plain == Areas \cup {"feature", "state", "countryName"}
Field == Codes \cup Plain
         \cup {"geonames", "city", "country", "continent", "adm1", "adm2", "common", "ascii"}

Location == [field : [Field -> Term], names : SUBSET Term, weight : Weights \ {StdWeight}]

PlaceTermsAssumption ==
    /\ Locations \subseteq Location
    /\ StdWeight \in Weights
    /\ \A l \in Locations : l.field["feature"] \in DOMAIN Features
    /\ \A f \in DOMAIN Features : Features[f] \subseteq Term
    /\ Normal \in [Word -> Word]
ASSUME PlaceTermsAssumption

VARIABLES
    pc,
    place,      \* _location
    termSets,   \* _termSetMap, an empty set for a weight that is not there
    spelling,   \* _spellingSet
    weighted,   \* lWeightedTermSet
    std,        \* lStdTermSet
    indexed,    \* the location and the terms of the last document added,
    dictionary  \* and the spellings added along with it
vars == <<pc, place, termSets, spelling, weighted, std, indexed, dictionary>>

NoTerm == [w \in Weights |-> {}]

(***************************************************************************)
(* Location::getFeatureList() is a table.                                  *)
(***************************************************************************)
FeatureNames(l) == Features[l.field["feature"]]

Given(l, fields) == {l.field[f] : f \in fields} \ {<<>>}
Normalised(t) == [i \in DOMAIN t |-> Normal[t[i]]]
Qualified(terms, qualifiers) == {t \o q : t \in terms, q \in qualifiers}

\* mutant of AddTermSet: the given set replaces the existing one
ReplaceTermSet(sets, weight, terms) == [sets EXCEPT ![weight] = terms]

(***************************************************************************)
(* Place::addTermSet(), which merges (its callers "insert or replace").    *)
(***************************************************************************)
AddTermSet(sets, weight, terms) == [sets EXCEPT ![weight] = @ \cup terms]

(***************************************************************************)
(* The two addNameToXapianSets(): a code with the names of the feature; a  *)
(* name, and its normal form, alone and beside all that tells where it is. *)
(* The copy of the set is taken before the other additions to it.          *)
(***************************************************************************)
AddFeatureNames(sets, weight, bases) ==
    AddTermSet(sets, weight,
        sets[weight] \cup Qualified(bases, FeatureNames(place)))

Around(l) ==
    Given(l, Areas) \cup {l.field[f] : f \in {"state", "country", "countryName", "continent"}}

AddNameToSets(sets, name) ==
    LET bases == {name, Normalised(name)}
    IN  AddTermSet(AddFeatureNames(sets, StdWeight, bases), StdWeight,
                   sets[StdWeight] \cup bases \cup Qualified(bases, Around(place)))

-----------------------------------------------------------------------------

Init ==
    /\ pc = "idle" /\ place \in Locations
    /\ termSets = NoTerm /\ spelling = {} /\ weighted = {} /\ std = {}
    /\ indexed = [place |-> place, terms |-> NoTerm] /\ dictionary = {}

SetLocation(l) ==
    /\ pc = "idle"
    /\ place' = l /\ pc' = "copy"
    /\ UNCHANGED <<termSets, spelling, weighted, std, indexed, dictionary>>

CopyTermSets ==
    /\ pc = "copy"
    /\ weighted' = termSets[place.weight] /\ std' = termSets[StdWeight]
    /\ pc' = "codes"
    /\ UNCHANGED <<place, termSets, spelling, indexed, dictionary>>

AddCodes ==
    /\ pc = "codes"
    /\ weighted' = weighted \cup Given(place, Codes)
    /\ spelling' = spelling \cup Given(place, Codes)
    /\ termSets' = AddFeatureNames(termSets, place.weight, Given(place, Codes))
    /\ pc' = "details"
    /\ UNCHANGED <<place, std, indexed, dictionary>>

(***************************************************************************)
(* The other fields.  The code of the administrative level 1 is read for   *)
(* that of the level 2 as well; the country code, the continent and the    *)
(* administrative codes are no part of the spelling dictionary.            *)
(***************************************************************************)
CityCode == Given(place, {"city"}) \ {place.field["iata"]}

AddDetails ==
    /\ pc = "details"
    /\ LET spelled == Given(place, Plain) \cup CityCode
       IN  /\ weighted' = weighted \cup spelled \cup Given(place, {"adm1"})
                          \cup {place.field["country"], place.field["continent"]}
           /\ std' = std \cup Given(place, {"geonames"})
           /\ spelling' = spelling \cup spelled \cup Given(place, {"geonames"})
    /\ pc' = "common"
    /\ UNCHANGED <<place, termSets, indexed, dictionary>>

AddName(f, next) ==
    /\ pc = f
    /\ IF place.field[f] = <<>>
       THEN UNCHANGED <<termSets, spelling>>
       ELSE /\ termSets' = AddNameToSets(termSets, place.field[f])
            /\ spelling' = spelling \cup {place.field[f], Normalised(place.field[f])}
    /\ pc' = next
    /\ UNCHANGED <<place, weighted, std, indexed, dictionary>>

\* mutant of AddAlternateNames: only the normal forms go to the index
AddNormalisedNames ==
    /\ pc = "names"
    /\ LET terms == UNION {WordCombinations(n) : n \in place.names \ {<<>>}}
       IN  /\ std' = std \cup {Normalised(t) : t \in terms}
           /\ spelling' = spelling \cup terms \cup {Normalised(t) : t \in terms}
    /\ pc' = "merge"
    /\ UNCHANGED <<place, termSets, weighted, indexed, dictionary>>

(***************************************************************************)
(* All the combinations of the words of the alternate names.               *)
(***************************************************************************)
AddAlternateNames ==
    /\ pc = "names"
    /\ LET combinations == UNION {WordCombinations(n) : n \in place.names \ {<<>>}}
           terms == combinations \cup {Normalised(t) : t \in combinations}
       IN  std' = std \cup terms /\ spelling' = spelling \cup terms
    /\ pc' = "merge"
    /\ UNCHANGED <<place, termSets, weighted, indexed, dictionary>>

MergeBack ==
    /\ pc = "merge"
    /\ termSets' = AddTermSet(AddTermSet(termSets, place.weight, weighted), StdWeight, std)
    /\ weighted' = {} /\ std' = {}
    /\ pc' = "built"
    /\ UNCHANGED <<place, spelling, indexed, dictionary>>

(***************************************************************************)
(* addToXapian(): index_text() for each term, add_spelling() for each      *)
(* spelling.                                                               *)
(***************************************************************************)
AddToXapian ==
    /\ pc = "built"
    /\ indexed' = [place |-> place, terms |-> termSets] /\ dictionary' = spelling
    /\ pc' = "reset"
    /\ UNCHANGED <<place, termSets, spelling, weighted, std>>

\* mutant of ResetIndexSets: the spellings only are cleared
ResetSpellings ==
    /\ pc = "reset"
    /\ spelling' = {}
    /\ pc' = "idle"
    /\ UNCHANGED <<place, termSets, weighted, std, indexed, dictionary>>

ResetIndexSets ==
    /\ pc = "reset"
    /\ termSets' = NoTerm /\ spelling' = {}
    /\ pc' = "idle"
    /\ UNCHANGED <<place, weighted, std, indexed, dictionary>>

Next ==
    \/ \E l \in Locations : SetLocation(l)
    \/ CopyTermSets \/ AddCodes \/ AddDetails
    \/ AddName("common", "ascii") \/ AddName("ascii", "names")
    \/ AddAlternateNames \/ MergeBack
    \/ AddToXapian \/ ResetIndexSets

Spec == Init /\ [][Next]_vars

-----------------------------------------------------------------------------

TermSets == [Weights -> SUBSET Term]

TypeOK ==
    /\ pc \in {"idle", "copy", "codes", "details", "common", "ascii", "names",
               "merge", "built", "reset"}
    /\ place \in Locations
    /\ termSets \in TermSets
    /\ spelling \subseteq Term /\ weighted \subseteq Term /\ std \subseteq Term
    /\ indexed.place \in Locations /\ indexed.terms \in TermSets
    /\ dictionary \subseteq Term

(***************************************************************************)
(* A spelling the dictionary suggests is indexed: the search that follows  *)
(* a correction cannot be without a match ("not consistent with the        *)
(* existence of the spelling correction", the assertion of fullTextMatch). *)
(***************************************************************************)
AllTerms(sets) == UNION {sets[w] : w \in Weights}

SpellingIndexed == dictionary \subseteq AllTerms(indexed.terms)

(***************************************************************************)
(* No copy of a set of terms loses what is added to another: the codes of  *)
(* the document, with the names of its feature, have the weight of its     *)
(* PageRank; each of its names is there with what it is known by.          *)
(***************************************************************************)
NamesOf(l) ==
    Given(l, {"common", "ascii"}) \cup {Normalised(n) : n \in Given(l, {"common", "ascii"})}

QualifiersOf(l) == {<<>>} \cup FeatureNames(l) \cup Around(l)

NoTermLost ==
    LET l == indexed.place
        codes == Given(l, Codes)
    IN  indexed.terms # NoTerm =>
        /\ codes \cup Qualified(codes, FeatureNames(l)) \subseteq indexed.terms[l.weight]
        /\ Qualified(NamesOf(l), QualifiersOf(l)) \subseteq indexed.terms[StdWeight]
        /\ \A n \in l.names \ {<<>>} : WordCombinations(n) \subseteq indexed.terms[StdWeight]

(***************************************************************************)
(* A document holds no word but those of its own POR and its feature.      *)
(***************************************************************************)
WordsOf(terms) == UNION {{t[i] : i \in DOMAIN t} : t \in terms}

OwnWords(l) ==
    LET words == WordsOf({l.field[f] : f \in Field} \cup l.names \cup FeatureNames(l))
    IN  words \cup {Normal[w] : w \in words}

NoForeignWord == WordsOf(AllTerms(indexed.terms)) \subseteq OwnWords(indexed.place)

(***************************************************************************)
(* "Add the administrative level 2 code": it is among the terms.           *)
(***************************************************************************)
Admin2CodeIndexed ==
    indexed.terms # NoTerm => Given(indexed.place, {"adm2"}) \subseteq AllTerms(indexed.terms)
=============================================================================
