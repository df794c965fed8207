------------------------- MODULE PlaceTerms_proofs -------------------------
(***************************************************************************)
(* Proofs about PlaceTerms: whatever the locations, their names and their  *)
(* weights, the spelling dictionary suggests nothing that is not indexed,  *)
(* and no term of a location is lost on the way to its document.           *)
(***************************************************************************)
EXTENDS PlaceTerms, StringPartition_proofs, TLAPS

(***************************************************************************)
(* Nothing is lost by an addition, whatever the weight it is for.          *)
(***************************************************************************)
LEMMA AddKeeps ==
  ASSUME NEW sets, DOMAIN sets = Weights, NEW w \in Weights, NEW terms
  PROVE  /\ DOMAIN AddTermSet(sets, w, terms) = Weights
         /\ AllTerms(AddTermSet(sets, w, terms)) = AllTerms(sets) \cup terms
         /\ AddTermSet(sets, w, terms)[w] = sets[w] \cup terms
<1>1. \A v \in Weights :
          AddTermSet(sets, w, terms)[v] = IF v = w THEN sets[v] \cup terms ELSE sets[v]
  BY DEF AddTermSet
<1>2. DOMAIN AddTermSet(sets, w, terms) = Weights
  BY DEF AddTermSet
<1> QED BY <1>1, <1>2 DEF AllTerms

LEMMA AddNameKeeps ==
  ASSUME NEW sets, DOMAIN sets = Weights, NEW name
  PROVE  /\ DOMAIN AddNameToSets(sets, name) = Weights
         /\ AllTerms(sets) \cup {name, Normalised(name)} \subseteq AllTerms(AddNameToSets(sets, name))
<1> DEFINE bases == {name, Normalised(name)}
           featured == AddFeatureNames(sets, StdWeight, bases)
           around == sets[StdWeight] \cup bases \cup Qualified(bases, Around(place))
<1>1. StdWeight \in Weights
  BY PlaceTermsAssumption DEF PlaceTermsAssumption
<1>2. DOMAIN featured = Weights /\ AllTerms(sets) \subseteq AllTerms(featured)
  BY <1>1, AddKeeps DEF AddFeatureNames
<1>3. AddNameToSets(sets, name) = AddTermSet(featured, StdWeight, around)
  BY DEF AddNameToSets
<1> HIDE DEF featured
<1> QED BY <1>1, <1>2, <1>3, AddKeeps

LEMMA WeightsOfPlaces ==
  /\ StdWeight \in Weights
  /\ \A l \in Locations : l.weight \in Weights
  BY PlaceTermsAssumption DEF PlaceTermsAssumption, Location

(***************************************************************************)
(* While a document is prepared, a spelling is in the sets of the Place or *)
(* in one of the two copies, which are there between the copy and the      *)
(* merge only.                                                             *)
(***************************************************************************)
Building == pc \in {"codes", "details", "common", "ascii", "names", "merge"}

Inv ==
    /\ place \in Locations
    /\ DOMAIN termSets = Weights
    /\ spelling \subseteq AllTerms(termSets) \cup weighted \cup std
    /\ ~ Building => weighted = {} /\ std = {}
    /\ SpellingIndexed

THEOREM InitInv == Init => Inv
  BY DEF Init, Inv, Building, SpellingIndexed, NoTerm

THEOREM NextInv == Inv /\ [Next]_vars => Inv'
<1> SUFFICES ASSUME Inv, [Next]_vars PROVE Inv'
  OBVIOUS
<1> USE DEF Inv, Building
<1>0. place.weight \in Weights /\ StdWeight \in Weights
  BY WeightsOfPlaces
<1>1. CASE UNCHANGED vars
  BY <1>1 DEF vars, SpellingIndexed, AllTerms
<1>2. ASSUME NEW l \in Locations, SetLocation(l) PROVE Inv'
  BY <1>2 DEF SetLocation, SpellingIndexed, AllTerms
<1>3. CASE CopyTermSets
  BY <1>3 DEF CopyTermSets, SpellingIndexed, AllTerms
<1>4. CASE AddCodes
  <2> DEFINE codes == Given(place, Codes)
             more == termSets[place.weight] \cup Qualified(codes, FeatureNames(place))
  <2>1. termSets' = AddTermSet(termSets, place.weight, more)
    BY <1>4 DEF AddCodes, AddFeatureNames
  <2> HIDE DEF more
  <2>2. DOMAIN termSets' = Weights /\ AllTerms(termSets) \subseteq AllTerms(termSets')
    BY <1>0, <2>1, AddKeeps
  <2>3. spelling' = spelling \cup codes /\ weighted' = weighted \cup codes
    BY <1>4 DEF AddCodes
  <2>4. SpellingIndexed'
    BY <1>4 DEF AddCodes, SpellingIndexed, AllTerms
  <2>5. pc' = "details" /\ UNCHANGED <<place, std>>
    BY <1>4 DEF AddCodes
  <2> HIDE DEF codes
  <2>6. spelling' \subseteq AllTerms(termSets') \cup weighted' \cup std'
    BY <2>2, <2>3, <2>5
  <2> QED BY <2>2, <2>4, <2>5, <2>6
<1>5. CASE AddDetails
  <2> DEFINE spelled == Given(place, Plain) \cup CityCode
             number == Given(place, {"geonames"})
  <2>1. /\ weighted \cup spelled \subseteq weighted'
        /\ std' = std \cup number
        /\ spelling' = spelling \cup spelled \cup number
    BY <1>5 DEF AddDetails
  <2>2. pc' = "common" /\ UNCHANGED <<place, termSets, indexed, dictionary>>
    BY <1>5 DEF AddDetails
  <2> HIDE DEF spelled, number
  <2> QED BY <2>1, <2>2 DEF SpellingIndexed, AllTerms
<1>6. ASSUME NEW f \in {"common", "ascii"}, NEW next \in {"ascii", "names"}, AddName(f, next)
      PROVE  Inv'
  <2> DEFINE name == place.field[f]
  <2>1. pc' = next /\ UNCHANGED <<place, weighted, std, indexed, dictionary>> /\ Building
    BY <1>6 DEF AddName
  <2>2. SpellingIndexed'
    BY <2>1 DEF SpellingIndexed, AllTerms
  <2>3. /\ DOMAIN termSets' = Weights
        /\ spelling' \subseteq AllTerms(termSets') \cup weighted' \cup std'
    <3>1. CASE name = <<>>
      BY <3>1, <1>6, <2>1 DEF AddName, AllTerms
    <3>2. CASE name # <<>>
      <4>1. /\ termSets' = AddNameToSets(termSets, name)
            /\ spelling' = spelling \cup {name, Normalised(name)}
        BY <1>6, <3>2 DEF AddName
      <4> HIDE DEF name
      <4> QED BY <4>1, <2>1, AddNameKeeps
    <3> QED BY <3>1, <3>2
  <2> QED BY <2>1, <2>2, <2>3
<1>7. CASE AddAlternateNames
  BY <1>7 DEF AddAlternateNames, SpellingIndexed, AllTerms
<1>8. CASE MergeBack
  <2> DEFINE merged == AddTermSet(termSets, place.weight, weighted)
  <2>1. DOMAIN merged = Weights /\ AllTerms(merged) = AllTerms(termSets) \cup weighted
    BY <1>0, AddKeeps
  <2>2. termSets' = AddTermSet(merged, StdWeight, std)
    BY <1>8 DEF MergeBack
  <2> HIDE DEF merged
  <2>3. DOMAIN termSets' = Weights /\ AllTerms(termSets') = AllTerms(termSets) \cup weighted \cup std
    BY <1>0, <2>1, <2>2, AddKeeps
  <2> QED BY <1>8, <2>3 DEF MergeBack, SpellingIndexed, AllTerms
<1>9. CASE AddToXapian
  <2>1. indexed'.terms = termSets /\ dictionary' = spelling /\ spelling \subseteq AllTerms(termSets)
    BY <1>9 DEF AddToXapian
  <2>2. SpellingIndexed'
    BY <2>1 DEF SpellingIndexed, AllTerms
  <2> QED BY <1>9, <2>2 DEF AddToXapian, AllTerms
<1>10. CASE ResetIndexSets
  BY <1>10 DEF ResetIndexSets, SpellingIndexed, AllTerms, NoTerm
<1> QED BY <1>1, <1>2, <1>3, <1>4, <1>5, <1>6, <1>7, <1>8, <1>9, <1>10 DEF Next

(***************************************************************************)
(* The assertion of Result::fullTextMatch() holds: what the dictionary     *)
(* suggests is indexed, for every list of PORs.                            *)
(***************************************************************************)
THEOREM SpellingIndexedAlways == Spec => []SpellingIndexed
<1>1. Inv => SpellingIndexed
  BY DEF Inv
<1> QED BY InitInv, NextInv, <1>1, PTL DEF Spec

-----------------------------------------------------------------------------

(***************************************************************************)
(* From a step to the next, no weight loses a term.                        *)
(***************************************************************************)
Grown(before, after) == \A w \in Weights : before[w] \subseteq after[w]

LEMMA AddGrows ==
  ASSUME NEW sets, DOMAIN sets = Weights, NEW w \in Weights, NEW terms
  PROVE  /\ DOMAIN AddTermSet(sets, w, terms) = Weights
         /\ Grown(sets, AddTermSet(sets, w, terms))
         /\ terms \subseteq AddTermSet(sets, w, terms)[w]
<1>1. \A v \in Weights :
          AddTermSet(sets, w, terms)[v] = IF v = w THEN sets[v] \cup terms ELSE sets[v]
  BY DEF AddTermSet
<1>2. DOMAIN AddTermSet(sets, w, terms) = Weights
  BY DEF AddTermSet
<1> QED BY <1>1, <1>2 DEF Grown

LEMMA InQualified ==
  ASSUME NEW terms, NEW qualifiers, NEW x
  PROVE  x \in Qualified(terms, qualifiers) <=> \E t \in terms, q \in qualifiers : x = t \o q
  BY DEF Qualified

LEMMA QualifiedBySets ==
  ASSUME NEW terms \in SUBSET Term, NEW F, NEW A
  PROVE  Qualified(terms, {<<>>} \cup F \cup A)
             \subseteq terms \cup Qualified(terms, F) \cup Qualified(terms, A)
<1>1. \A t \in terms : t \o <<>> = t
  BY DEF Term
<1> SUFFICES ASSUME NEW x \in Qualified(terms, {<<>>} \cup F \cup A)
             PROVE  x \in terms \cup Qualified(terms, F) \cup Qualified(terms, A)
  OBVIOUS
<1>2. PICK t \in terms, q \in {<<>>} \cup F \cup A : x = t \o q
  BY InQualified
<1>3. CASE q = <<>>
  BY <1>1, <1>2, <1>3
<1>4. CASE q \in F
  BY <1>2, <1>4, InQualified
<1>5. CASE q \in A
  BY <1>2, <1>5, InQualified
<1> QED BY <1>3, <1>4, <1>5

LEMMA NormalisedIsTerm ==
  ASSUME NEW t \in Term
  PROVE  Normalised(t) \in Term
<1>1. Normal \in [Word -> Word]
  BY PlaceTermsAssumption DEF PlaceTermsAssumption
<1>2. t \in [1..Len(t) -> Word] /\ Len(t) \in Nat /\ DOMAIN t = 1..Len(t)
  BY DEF Term
<1>3. Normalised(t) \in [1..Len(t) -> Word]
  BY <1>1, <1>2 DEF Normalised
<1> QED BY <1>2, <1>3 DEF Term

(***************************************************************************)
(* A name goes to the terms of the standard weight, and its normal form    *)
(* beside it, with all that they are known by.                             *)
(***************************************************************************)
LEMMA NameIsAdded ==
  ASSUME NEW sets, DOMAIN sets = Weights, NEW name \in Term
  PROVE  /\ DOMAIN AddNameToSets(sets, name) = Weights
         /\ Grown(sets, AddNameToSets(sets, name))
         /\ Qualified({name, Normalised(name)}, QualifiersOf(place))
                \subseteq AddNameToSets(sets, name)[StdWeight]
<1> DEFINE bases == {name, Normalised(name)}
           withFeature == sets[StdWeight] \cup Qualified(bases, FeatureNames(place))
           featured == AddTermSet(sets, StdWeight, withFeature)
           around == sets[StdWeight] \cup bases \cup Qualified(bases, Around(place))
           added == AddTermSet(featured, StdWeight, around)
<1>1. StdWeight \in Weights
  BY PlaceTermsAssumption DEF PlaceTermsAssumption
<1>2. AddNameToSets(sets, name) = added
  BY DEF AddNameToSets, AddFeatureNames
<1>3. bases \in SUBSET Term
  BY NormalisedIsTerm
<1>4. Qualified(bases, QualifiersOf(place)) \subseteq
          bases \cup Qualified(bases, FeatureNames(place)) \cup Qualified(bases, Around(place))
  <2> HIDE DEF bases
  <2> QED BY <1>3, QualifiedBySets DEF QualifiersOf
<1> HIDE DEF bases
<1>5. DOMAIN featured = Weights /\ Grown(sets, featured) /\ withFeature \subseteq featured[StdWeight]
  <2> HIDE DEF withFeature
  <2> QED BY <1>1, AddGrows
<1>6. DOMAIN added = Weights /\ Grown(featured, added) /\ around \subseteq added[StdWeight]
  <2> HIDE DEF around, featured
  <2> QED BY <1>1, <1>5, AddGrows
<1> HIDE DEF featured, added
<1>7. Grown(sets, added)
  BY <1>5, <1>6 DEF Grown
<1>8. featured[StdWeight] \subseteq added[StdWeight]
  BY <1>1, <1>6 DEF Grown
<1>9. Qualified(bases, QualifiersOf(place)) \subseteq added[StdWeight]
  BY <1>4, <1>5, <1>6, <1>8
<1> QED BY <1>2, <1>6, <1>7, <1>9 DEF bases

(***************************************************************************)
(* Where the terms of the location in hand are, at each step of the        *)
(* preparation of its document.                                            *)
(***************************************************************************)
After(step) ==
    CASE step = "codes"  -> {"details", "common", "ascii", "names", "merge", "built"}
      [] step = "common" -> {"ascii", "names", "merge", "built"}
      [] step = "ascii"  -> {"names", "merge", "built"}

NameForms(l, f) == Given(l, {f}) \cup {Normalised(n) : n \in Given(l, {f})}

CodesIn(l, sets) == Given(l, Codes) \subseteq sets[l.weight]
CodeFeaturesIn(l, sets) ==
    Qualified(Given(l, Codes), FeatureNames(l)) \subseteq sets[l.weight]
NameIn(l, f, sets) ==
    Qualified(NameForms(l, f), QualifiersOf(l)) \subseteq sets[StdWeight]
CombinationsIn(l, terms) ==
    \A n \in l.names \ {<<>>} : WordCombinations(n) \subseteq terms

PlaceInv == place \in Locations /\ DOMAIN termSets = Weights
CodesInv ==
    /\ pc \in After("codes") => CodeFeaturesIn(place, termSets)
    /\ pc \in After("codes") \ {"built"} => Given(place, Codes) \subseteq weighted
    /\ pc = "built" => CodesIn(place, termSets)
NamesInv ==
    \A f \in {"common", "ascii"} : pc \in After(f) => NameIn(place, f, termSets)
CombinationsInv ==
    /\ pc = "merge" => CombinationsIn(place, std)
    /\ pc = "built" => CombinationsIn(place, termSets[StdWeight])

TermsInv == PlaceInv /\ CodesInv /\ NamesInv /\ CombinationsInv /\ NoTermLost

LEMMA GrownKeeps ==
  ASSUME NEW before, NEW after, Grown(before, after), NEW l \in Locations
  PROVE  /\ CodesIn(l, before) => CodesIn(l, after)
         /\ CodeFeaturesIn(l, before) => CodeFeaturesIn(l, after)
         /\ \A f \in {"common", "ascii"} : NameIn(l, f, before) => NameIn(l, f, after)
  BY WeightsOfPlaces DEF Grown, CodesIn, CodeFeaturesIn, NameIn

THEOREM InitTerms == Init => TermsInv
<1> SUFFICES ASSUME Init PROVE TermsInv
  OBVIOUS
<1>1. pc = "idle" /\ PlaceInv
  BY DEF Init, PlaceInv, NoTerm
<1>2. NoTermLost
  BY DEF Init, NoTermLost
<1> QED BY <1>1, <1>2 DEF TermsInv, CodesInv, NamesInv, CombinationsInv, After

(***************************************************************************)
(* The document that was added stays as it is until the next one.          *)
(***************************************************************************)
LEMMA LostKept == NoTermLost /\ UNCHANGED indexed => NoTermLost'
  BY DEF NoTermLost

THEOREM NextTerms == TermsInv /\ [Next]_vars => TermsInv'
<1> SUFFICES ASSUME TermsInv, [Next]_vars PROVE TermsInv'
  OBVIOUS
<1>0. PlaceInv /\ CodesInv /\ NamesInv /\ CombinationsInv /\ NoTermLost
      /\ place \in Locations /\ place.weight \in Weights /\ StdWeight \in Weights
  BY WeightsOfPlaces DEF TermsInv, PlaceInv
<1>1. CASE UNCHANGED vars
  BY <1>1, <1>0, LostKept DEF vars, TermsInv, PlaceInv, CodesInv, NamesInv, CombinationsInv
<1>2. ASSUME NEW l \in Locations, SetLocation(l) PROVE TermsInv'
  <2>1. pc' = "copy" /\ PlaceInv' /\ UNCHANGED indexed
    BY <1>2, <1>0 DEF SetLocation, PlaceInv
  <2> QED BY <2>1, <1>0, LostKept DEF TermsInv, CodesInv, NamesInv, CombinationsInv, After
<1>3. CASE CopyTermSets
  <2>1. pc' = "codes" /\ PlaceInv' /\ UNCHANGED indexed
    BY <1>3, <1>0 DEF CopyTermSets, PlaceInv
  <2> QED BY <2>1, <1>0, LostKept DEF TermsInv, CodesInv, NamesInv, CombinationsInv, After
<1>4. CASE AddCodes
  <2> DEFINE codes == Given(place, Codes)
             featured == Qualified(codes, FeatureNames(place))
             more == termSets[place.weight] \cup featured
  <2>1. /\ pc' = "details" /\ UNCHANGED <<place, indexed>>
        /\ weighted' = weighted \cup codes
        /\ termSets' = AddTermSet(termSets, place.weight, more)
    BY <1>4 DEF AddCodes, AddFeatureNames
  <2>2. DOMAIN termSets' = Weights /\ more \subseteq termSets'[place.weight]
    <3> HIDE DEF more
    <3> QED BY <2>1, <1>0, AddGrows DEF PlaceInv
  <2>3. CodeFeaturesIn(place, termSets)'
    BY <2>1, <2>2 DEF CodeFeaturesIn
  <2> QED BY <2>1, <2>2, <2>3, <1>0, LostKept
      DEF TermsInv, PlaceInv, CodesInv, NamesInv, CombinationsInv, After
<1>5. CASE AddDetails
  <2>1. /\ pc = "details" /\ pc' = "common" /\ UNCHANGED <<place, termSets, indexed>>
        /\ weighted \subseteq weighted'
    BY <1>5 DEF AddDetails
  <2>2. PlaceInv' /\ NoTermLost'
    BY <2>1, <1>0, LostKept DEF PlaceInv
  <2>3. CodesInv'
    BY <2>1, <1>0 DEF CodesInv, After, CodeFeaturesIn
  <2> QED BY <2>1, <2>2, <2>3 DEF TermsInv, NamesInv, CombinationsInv, After
<1>6. ASSUME NEW f \in {"common", "ascii"},
             NEW next \in {"ascii", "names"},
             f = "common" <=> next = "ascii",
             AddName(f, next)
      PROVE  TermsInv'
  <2> DEFINE name == place.field[f]
  <2>1. pc = f /\ pc' = next /\ UNCHANGED <<place, weighted, std, indexed>>
    BY <1>6 DEF AddName
  <2>2. name \in Term
    BY <1>0, PlaceTermsAssumption DEF PlaceTermsAssumption, Location, Field, Term
  <2>3. DOMAIN termSets' = Weights /\ Grown(termSets, termSets') /\ NameIn(place, f, termSets')
    <3>1. CASE name = <<>>
      <4>1. termSets' = termSets
        BY <3>1, <1>6 DEF AddName
      <4>2. Given(place, {f}) = {}
        BY <3>1 DEF Given
      <4>3. NameForms(place, f) = {}
        BY <4>2 DEF NameForms
      <4>4. NameIn(place, f, termSets')
        BY <4>3 DEF NameIn, Qualified
      <4> QED BY <4>1, <4>4, <1>0 DEF PlaceInv, Grown
    <3>2. CASE name # <<>>
      <4>1. termSets' = AddNameToSets(termSets, name)
        BY <3>2, <1>6 DEF AddName
      <4>2. Given(place, {f}) = {name}
        BY <3>2 DEF Given
      <4>3. NameForms(place, f) = {name, Normalised(name)}
        BY <4>2 DEF NameForms
      <4> HIDE DEF name
      <4> QED BY <4>1, <4>3, <2>2, <1>0, NameIsAdded DEF NameIn, PlaceInv
    <3> QED BY <3>1, <3>2
  <2>4. PlaceInv' /\ NoTermLost'
    BY <2>1, <2>3, <1>0, LostKept DEF PlaceInv
  <2>5. CodesInv'
    BY <2>1, <2>3, <1>0, GrownKeeps DEF CodesInv, After
  <2>6. NamesInv'
    <3> SUFFICES ASSUME NEW g \in {"common", "ascii"}, pc' \in After(g)
                 PROVE  NameIn(place, g, termSets')
      BY <2>1 DEF NamesInv, NameIn
    <3>1. g = f \/ pc \in After(g)
      BY <1>6, <2>1 DEF After
    <3> QED BY <3>1, <2>3, <1>0, GrownKeeps DEF NamesInv
  <2> QED BY <2>1, <2>4, <2>5, <2>6 DEF TermsInv, CombinationsInv
<1>7. CASE AddAlternateNames
  <2> DEFINE combinations == UNION {WordCombinations(n) : n \in place.names \ {<<>>}}
  <2>1. /\ pc = "names" /\ pc' = "merge" /\ UNCHANGED <<place, termSets, weighted, indexed>>
        /\ combinations \subseteq std'
    BY <1>7 DEF AddAlternateNames
  <2>2. CombinationsIn(place, std)'
    BY <2>1 DEF CombinationsIn
  <2>3. PlaceInv' /\ NoTermLost'
    BY <2>1, <1>0, LostKept DEF PlaceInv
  <2>4. CodesInv'
    BY <2>1, <1>0 DEF CodesInv, After, CodeFeaturesIn
  <2>5. NamesInv'
    BY <2>1, <1>0 DEF NamesInv, After, NameIn
  <2> QED BY <2>1, <2>2, <2>3, <2>4, <2>5 DEF TermsInv, CombinationsInv
<1>8. CASE MergeBack
  <2> DEFINE merged == AddTermSet(termSets, place.weight, weighted)
  <2>1. /\ pc = "merge" /\ pc' = "built" /\ UNCHANGED <<place, indexed>>
        /\ termSets' = AddTermSet(merged, StdWeight, std)
    BY <1>8 DEF MergeBack
  <2>2. /\ DOMAIN merged = Weights /\ Grown(termSets, merged)
        /\ weighted \subseteq merged[place.weight]
    BY <1>0, AddGrows DEF PlaceInv
  <2> HIDE DEF merged
  <2>3. /\ DOMAIN termSets' = Weights /\ Grown(merged, termSets')
        /\ std \subseteq termSets'[StdWeight]
    BY <2>1, <2>2, <1>0, AddGrows
  <2>4. Grown(termSets, termSets') /\ weighted \subseteq termSets'[place.weight]
    BY <2>2, <2>3, <1>0 DEF Grown
  <2>5. PlaceInv' /\ NoTermLost'
    BY <2>1, <2>3, <1>0, LostKept DEF PlaceInv
  <2>6. CodesInv'
    <3>1. Given(place, Codes) \subseteq weighted /\ CodeFeaturesIn(place, termSets)
      BY <2>1, <1>0 DEF CodesInv, After
    <3>2. CodesIn(place, termSets')
      BY <3>1, <2>4 DEF CodesIn
    <3>3. CodeFeaturesIn(place, termSets')
      BY <3>1, <2>4, <1>0, GrownKeeps
    <3>4. CodesIn(place, termSets)' /\ CodeFeaturesIn(place, termSets)'
      BY <3>2, <3>3, <2>1 DEF CodesIn, CodeFeaturesIn
    <3> QED BY <3>4, <2>1 DEF CodesInv, After
  <2>7. NamesInv'
    <3> SUFFICES ASSUME NEW g \in {"common", "ascii"} PROVE NameIn(place, g, termSets')
      BY <2>1 DEF NamesInv, NameIn
    <3>1. pc \in After(g)
      BY <2>1 DEF After
    <3> QED BY <3>1, <2>4, <1>0, GrownKeeps DEF NamesInv
  <2>8. CombinationsIn(place, termSets[StdWeight])'
    BY <2>1, <2>3, <1>0 DEF CombinationsIn, CombinationsInv
  <2> QED BY <2>1, <2>5, <2>6, <2>7, <2>8 DEF TermsInv, CombinationsInv
<1>9. CASE AddToXapian
  <2>1. /\ pc = "built" /\ pc' = "reset" /\ UNCHANGED <<place, termSets>>
        /\ indexed'.place = place /\ indexed'.terms = termSets
    BY <1>9 DEF AddToXapian
  <2>2. /\ CodesIn(place, termSets) /\ CodeFeaturesIn(place, termSets)
        /\ NameIn(place, "common", termSets) /\ NameIn(place, "ascii", termSets)
        /\ CombinationsIn(place, termSets[StdWeight])
    BY <2>1, <1>0 DEF CodesInv, NamesInv, CombinationsInv, After
  <2>3. NamesOf(place) = NameForms(place, "common") \cup NameForms(place, "ascii")
    BY DEF NamesOf, NameForms, Given
  <2>4. Qualified(NamesOf(place), QualifiersOf(place)) \subseteq termSets[StdWeight]
    BY <2>2, <2>3 DEF NameIn, Qualified
  <2>5. NoTermLost'
    BY <2>1, <2>2, <2>4 DEF NoTermLost, CodesIn, CodeFeaturesIn, CombinationsIn
  <2>6. PlaceInv'
    BY <2>1, <1>0 DEF PlaceInv
  <2> QED BY <2>1, <2>5, <2>6 DEF TermsInv, CodesInv, NamesInv, CombinationsInv, After
<1>10. CASE ResetIndexSets
  <2>1. pc' = "idle" /\ PlaceInv' /\ UNCHANGED indexed
    BY <1>10, <1>0 DEF ResetIndexSets, PlaceInv, NoTerm
  <2> QED BY <2>1, <1>0, LostKept DEF TermsInv, CodesInv, NamesInv, CombinationsInv, After
<1> QED BY <1>1, <1>2, <1>3, <1>4, <1>5, <1>6, <1>7, <1>8, <1>9, <1>10 DEF Next

(***************************************************************************)
(* Whatever the location, its document has its codes, each of its names    *)
(* with what it is known by, and the combinations of its alternate names,  *)
(* under their weights: no copy of the sets of terms in buildIndexSets()   *)
(* drops what was added to another.                                        *)
(***************************************************************************)
THEOREM NoTermLostAlways == Spec => []NoTermLost
<1>1. TermsInv => NoTermLost
  BY DEF TermsInv
<1> QED BY InitTerms, NextTerms, <1>1, PTL DEF Spec

-----------------------------------------------------------------------------
(***************************************************************************)
(* The words a location is described with, before and after they are       *)
(* normalised; a term made of them is an own term of it.                   *)
(***************************************************************************)
BaseWords(l) == WordsOf({l.field[f] : f \in Field} \cup l.names \cup FeatureNames(l))

OwnTerm(l) == Seq(OwnWords(l))

LEMMA BaseAndOwn ==
  ASSUME NEW l
  PROVE  /\ OwnWords(l) = BaseWords(l) \cup {Normal[w] : w \in BaseWords(l)}
         /\ Seq(BaseWords(l)) \subseteq OwnTerm(l)
<1>1. OwnWords(l) = BaseWords(l) \cup {Normal[w] : w \in BaseWords(l)}
  BY DEF OwnWords, BaseWords
<1>2. BaseWords(l) \subseteq OwnWords(l)
  BY <1>1
<1> QED BY <1>1, <1>2, SeqMonotonic DEF OwnTerm

\* a term is made of its own words
LEMMA TermOfWords ==
  ASSUME NEW terms, terms \subseteq Term
  PROVE  terms \subseteq Seq(WordsOf(terms))
<1> SUFFICES ASSUME NEW t \in terms PROVE t \in Seq(WordsOf(terms))
  OBVIOUS
<1>1. t \in [1..Len(t) -> Word] /\ Len(t) \in Nat /\ DOMAIN t = 1..Len(t)
  BY DEF Term
<1>2. \A i \in 1..Len(t) : t[i] \in WordsOf(terms)
  BY <1>1 DEF WordsOf
<1>3. t \in [1..Len(t) -> WordsOf(terms)]
  BY <1>1, <1>2
<1> QED BY <1>1, <1>3

LEMMA DescribedByWords ==
  ASSUME NEW l \in Locations
  PROVE  /\ \A f \in Field : l.field[f] \in Seq(BaseWords(l))
         /\ l.names \subseteq Seq(BaseWords(l))
         /\ FeatureNames(l) \subseteq Seq(BaseWords(l))
<1> DEFINE terms == {l.field[f] : f \in Field} \cup l.names \cup FeatureNames(l)
<1>1. l \in Location /\ l.field["feature"] \in DOMAIN Features
  BY PlaceTermsAssumption DEF PlaceTermsAssumption
<1>2. l.field \in [Field -> Term] /\ l.names \subseteq Term
  BY <1>1 DEF Location
<1>3. FeatureNames(l) \subseteq Term
  BY <1>1, PlaceTermsAssumption DEF PlaceTermsAssumption, FeatureNames
<1>4. terms \subseteq Term
  BY <1>2, <1>3
<1>5. terms \subseteq Seq(BaseWords(l))
  <2>1. BaseWords(l) = WordsOf(terms)
    BY DEF BaseWords
  <2> HIDE DEF terms
  <2> QED BY <1>4, <2>1, TermOfWords
<1> QED BY <1>5

LEMMA NormalisedIsOwn ==
  ASSUME NEW l, NEW t \in Seq(BaseWords(l))
  PROVE  Normalised(t) \in OwnTerm(l) /\ t \in OwnTerm(l)
<1>1. t \in [1..Len(t) -> BaseWords(l)] /\ Len(t) \in Nat /\ DOMAIN t = 1..Len(t)
  BY LenProperties
<1>2. \A i \in 1..Len(t) : Normal[t[i]] \in OwnWords(l)
  BY <1>1, BaseAndOwn
<1>3. Normalised(t) \in [1..Len(t) -> OwnWords(l)]
  BY <1>1, <1>2 DEF Normalised
<1>4. Normalised(t) \in OwnTerm(l)
  BY <1>1, <1>3 DEF OwnTerm
<1> QED BY <1>4, BaseAndOwn

LEMMA GivenIsOwn ==
  ASSUME NEW l \in Locations, NEW fields \in SUBSET Field
  PROVE  Given(l, fields) \subseteq OwnTerm(l)
  BY DescribedByWords, BaseAndOwn DEF Given

LEMMA QualifiedIsOwn ==
  ASSUME NEW l, NEW terms, terms \subseteq OwnTerm(l), NEW qualifiers, qualifiers \subseteq OwnTerm(l)
  PROVE  Qualified(terms, qualifiers) \subseteq OwnTerm(l)
<1> SUFFICES ASSUME NEW x \in Qualified(terms, qualifiers) PROVE x \in OwnTerm(l)
  OBVIOUS
<1>1. PICK t \in terms, q \in qualifiers : x = t \o q
  BY InQualified
<1>2. t \in Seq(OwnWords(l)) /\ q \in Seq(OwnWords(l))
  BY DEF OwnTerm
<1> QED BY <1>1, <1>2, ConcatProperties DEF OwnTerm

(***************************************************************************)
(* A combination of the words of a name has no other word.                 *)
(***************************************************************************)
LEMMA CombinationsOfWords ==
  ASSUME NEW S, NEW phrase \in Seq(S), phrase # <<>>
  PROVE  WordCombinations(phrase) \subseteq Seq(S)
<1> DEFINE l == Len(phrase)
<1>0. l \in Nat
  BY LenProperties
<1>1. \A a \in 0..l : \A b \in a..l : SubSeq(phrase, a + 1, b) \in Seq(S)
  BY SubSeqLen
<1> HIDE DEF l
<1>2. ASSUME NEW x \in Combinations(phrase) PROVE x \in Seq(S)
  <2>1. SubString(phrase, 0, x)
    BY CombinationsAreSubStrings
  <2>2. PICK a \in 0..(l - 1) : \E b \in (a + 1)..l : x = SubSeq(phrase, a + 1, b)
    BY <2>1 DEF SubString, l
  <2>3. PICK b \in (a + 1)..l : x = SubSeq(phrase, a + 1, b)
    BY <2>2
  <2>4. a \in 0..l /\ b \in a..l
    BY <1>0
  <2> QED BY <1>1, <2>3, <2>4
<1>3. ASSUME NEW x \in MiddleRemoved(phrase) PROVE x \in Seq(S)
  <2>1. PICK first \in 2..(l - 1) : \E last \in first..(l - 1) :
            x = SubSeq(phrase, 1, first - 1) \o SubSeq(phrase, last + 1, l)
    BY <1>0, MiddleRemovedAre DEF l
  <2>2. PICK last \in first..(l - 1) : x = SubSeq(phrase, 1, first - 1) \o SubSeq(phrase, last + 1, l)
    BY <2>1
  <2>3. /\ 0 \in 0..l /\ first - 1 \in 0..l /\ 0 + 1 = 1
        /\ last \in 0..l /\ l \in last..l
    BY <1>0
  <2>4. SubSeq(phrase, 1, first - 1) \in Seq(S)
    <3>1. SubSeq(phrase, 0 + 1, first - 1) \in Seq(S)
      BY <1>1, <2>3
    <3> QED BY <2>3, <3>1
  <2>5. SubSeq(phrase, last + 1, l) \in Seq(S)
    BY <1>1, <2>3
  <2> QED BY <2>2, <2>4, <2>5, ConcatProperties
<1> QED BY <1>2, <1>3 DEF WordCombinations

(***************************************************************************)
(* The terms of the Place and those of the copies are made of the words of *)
(* its location.  Nothing is left of the former location when the next one *)
(* is set.                                                                 *)
(***************************************************************************)
CopiesInv ==
    /\ weighted \subseteq OwnTerm(place) /\ std \subseteq OwnTerm(place)
    /\ ~ Building => weighted = {} /\ std = {}

SetsInv ==
    /\ AllTerms(termSets) \subseteq OwnTerm(place)
    /\ pc = "idle" => AllTerms(termSets) = {}

OwnInv == PlaceInv /\ CopiesInv /\ SetsInv /\ NoForeignWord

LEMMA QualifiersAreOwn ==
  ASSUME NEW l \in Locations
  PROVE  Around(l) \subseteq OwnTerm(l) /\ FeatureNames(l) \subseteq OwnTerm(l)
<1>1. Areas \subseteq Field /\ {"state", "country", "countryName", "continent"} \subseteq Field
  BY DEF Areas, Field, Plain, Codes
<1>2. Given(l, Areas) \subseteq OwnTerm(l)
  BY <1>1, GivenIsOwn
<1>3. \A f \in Field : l.field[f] \in OwnTerm(l)
  BY DescribedByWords, BaseAndOwn
<1>4. FeatureNames(l) \subseteq OwnTerm(l)
  BY DescribedByWords, BaseAndOwn
<1> QED BY <1>1, <1>2, <1>3, <1>4 DEF Around

LEMMA AddIsOwn ==
  ASSUME NEW sets, DOMAIN sets = Weights, NEW w \in Weights, NEW l,
         AllTerms(sets) \subseteq OwnTerm(l), NEW terms, terms \subseteq OwnTerm(l)
  PROVE  /\ DOMAIN AddTermSet(sets, w, terms) = Weights
         /\ AllTerms(AddTermSet(sets, w, terms)) \subseteq OwnTerm(l)
         /\ sets[w] \subseteq OwnTerm(l)
  BY AddKeeps DEF AllTerms

LEMMA FeaturesAreOwn ==
  ASSUME NEW sets, DOMAIN sets = Weights, NEW w \in Weights, place \in Locations,
         AllTerms(sets) \subseteq OwnTerm(place), NEW bases, bases \subseteq OwnTerm(place)
  PROVE  /\ DOMAIN AddFeatureNames(sets, w, bases) = Weights
         /\ AllTerms(AddFeatureNames(sets, w, bases)) \subseteq OwnTerm(place)
<1> DEFINE featured == Qualified(bases, FeatureNames(place))
<1>1. featured \subseteq OwnTerm(place)
  BY QualifiersAreOwn, QualifiedIsOwn
<1>2. sets[w] \subseteq OwnTerm(place)
  BY DEF AllTerms
<1> DEFINE more == sets[w] \cup featured
<1>3. more \subseteq OwnTerm(place)
  BY <1>1, <1>2
<1>4. AddFeatureNames(sets, w, bases) = AddTermSet(sets, w, more)
  BY DEF AddFeatureNames
<1> HIDE DEF more
<1> QED BY <1>3, <1>4, AddIsOwn

LEMMA NameIsOwn ==
  ASSUME NEW sets, DOMAIN sets = Weights, place \in Locations,
         AllTerms(sets) \subseteq OwnTerm(place), NEW name \in Seq(BaseWords(place))
  PROVE  /\ DOMAIN AddNameToSets(sets, name) = Weights
         /\ AllTerms(AddNameToSets(sets, name)) \subseteq OwnTerm(place)
<1> DEFINE bases == {name, Normalised(name)}
           featured == AddFeatureNames(sets, StdWeight, bases)
           around == sets[StdWeight] \cup bases \cup Qualified(bases, Around(place))
<1>0. StdWeight \in Weights
  BY WeightsOfPlaces
<1>1. bases \subseteq OwnTerm(place)
  BY NormalisedIsOwn
<1>2. AddNameToSets(sets, name) = AddTermSet(featured, StdWeight, around)
  BY DEF AddNameToSets
<1> HIDE DEF bases
<1>3. DOMAIN featured = Weights /\ AllTerms(featured) \subseteq OwnTerm(place)
  BY <1>0, <1>1, FeaturesAreOwn
<1>4. around \subseteq OwnTerm(place)
  <2>1. sets[StdWeight] \subseteq OwnTerm(place)
    BY <1>0 DEF AllTerms
  <2>2. Qualified(bases, Around(place)) \subseteq OwnTerm(place)
    BY <1>1, QualifiersAreOwn, QualifiedIsOwn
  <2> QED BY <1>1, <2>1, <2>2
<1> HIDE DEF featured, around
<1> QED BY <1>0, <1>2, <1>3, <1>4, AddIsOwn

\* the terms of the combinations of the alternate names, and their normal forms
LEMMA CombinationsAreOwn ==
  ASSUME NEW l \in Locations
  PROVE  LET combinations == UNION {WordCombinations(n) : n \in l.names \ {<<>>}}
         IN  combinations \cup {Normalised(t) : t \in combinations} \subseteq OwnTerm(l)
<1> DEFINE combinations == UNION {WordCombinations(n) : n \in l.names \ {<<>>}}
<1>1. ASSUME NEW n \in l.names \ {<<>>} PROVE WordCombinations(n) \subseteq Seq(BaseWords(l))
  BY DescribedByWords, CombinationsOfWords
<1>2. combinations \subseteq Seq(BaseWords(l))
  BY <1>1
<1> HIDE DEF combinations
<1>3. \A t \in combinations : t \in OwnTerm(l) /\ Normalised(t) \in OwnTerm(l)
  BY <1>2, NormalisedIsOwn
<1>4. combinations \cup {Normalised(t) : t \in combinations} \subseteq OwnTerm(l)
  BY <1>3
<1> QED BY <1>4 DEF combinations

LEMMA ForeignKept == NoForeignWord /\ UNCHANGED indexed => NoForeignWord'
  BY DEF NoForeignWord

LEMMA OwnTermsOwnWords ==
  ASSUME AllTerms(termSets) \subseteq OwnTerm(place)
  PROVE  WordsOf(AllTerms(termSets)) \subseteq OwnWords(place)
<1> SUFFICES ASSUME NEW t \in AllTerms(termSets), NEW i \in DOMAIN t PROVE t[i] \in OwnWords(place)
  BY DEF WordsOf
<1>1. t \in Seq(OwnWords(place))
  BY DEF OwnTerm
<1> QED BY <1>1, LenProperties, ElementOfSeq

LEMMA InitOwn == Init => OwnInv
<1> SUFFICES ASSUME Init PROVE OwnInv
  OBVIOUS
<1>1. pc = "idle" /\ weighted = {} /\ std = {} /\ place \in Locations /\ termSets = NoTerm
      /\ indexed.terms = NoTerm
  BY DEF Init
<1>2. AllTerms(NoTerm) = {} /\ DOMAIN NoTerm = Weights
  BY DEF AllTerms, NoTerm
<1>3. NoForeignWord
  BY <1>1, <1>2 DEF NoForeignWord, WordsOf
<1> QED BY <1>1, <1>2, <1>3 DEF OwnInv, PlaceInv, CopiesInv, SetsInv, Building

LEMMA NextOwn == OwnInv /\ [Next]_vars => OwnInv'
<1> SUFFICES ASSUME OwnInv, [Next]_vars PROVE OwnInv'
  OBVIOUS
<1>0. /\ place \in Locations /\ place.weight \in Weights /\ StdWeight \in Weights
      /\ DOMAIN termSets = Weights /\ AllTerms(termSets) \subseteq OwnTerm(place)
      /\ weighted \subseteq OwnTerm(place) /\ std \subseteq OwnTerm(place)
      /\ (~ Building => weighted = {} /\ std = {})
      /\ (pc = "idle" => AllTerms(termSets) = {})
      /\ NoForeignWord
  BY WeightsOfPlaces DEF OwnInv, PlaceInv, CopiesInv, SetsInv
<1>a. Codes \subseteq Field /\ Plain \subseteq Field
      /\ {"geonames", "city", "country", "continent", "adm1"} \subseteq Field
  BY DEF Codes, Plain, Field, Areas
<1>b. \A f \in Field : place.field[f] \in OwnTerm(place) /\ place.field[f] \in Seq(BaseWords(place))
  BY <1>0, DescribedByWords, BaseAndOwn
<1>1. CASE UNCHANGED vars
  BY <1>1, <1>0, ForeignKept DEF vars, OwnInv, PlaceInv, CopiesInv, SetsInv, Building
<1>2. ASSUME NEW l \in Locations, SetLocation(l) PROVE OwnInv'
  <2>1. /\ pc = "idle" /\ pc' = "copy" /\ place' = l
        /\ UNCHANGED <<termSets, weighted, std, indexed>>
    BY <1>2 DEF SetLocation
  <2>2. AllTerms(termSets) = {} /\ weighted = {} /\ std = {}
    BY <1>0, <2>1 DEF Building
  <2> QED BY <1>0, <2>1, <2>2, ForeignKept DEF OwnInv, PlaceInv, CopiesInv, SetsInv, Building
<1>3. CASE CopyTermSets
  <2>1. /\ pc = "copy" /\ pc' = "codes" /\ UNCHANGED <<place, termSets, indexed>>
        /\ weighted' = termSets[place.weight] /\ std' = termSets[StdWeight]
    BY <1>3 DEF CopyTermSets
  <2>2. weighted' \subseteq AllTerms(termSets) /\ std' \subseteq AllTerms(termSets)
    BY <1>0, <2>1 DEF AllTerms
  <2> QED BY <1>0, <2>1, <2>2, ForeignKept DEF OwnInv, PlaceInv, CopiesInv, SetsInv, Building
<1>4. CASE AddCodes
  <2> DEFINE codes == Given(place, Codes)
  <2>1. /\ pc' = "details" /\ UNCHANGED <<place, std, indexed>>
        /\ weighted' = weighted \cup codes
        /\ termSets' = AddFeatureNames(termSets, place.weight, codes)
    BY <1>4 DEF AddCodes
  <2>2. codes \subseteq OwnTerm(place)
    BY <1>0, <1>a, GivenIsOwn
  <2> HIDE DEF codes
  <2>3. DOMAIN termSets' = Weights /\ AllTerms(termSets') \subseteq OwnTerm(place)
    BY <1>0, <2>1, <2>2, FeaturesAreOwn
  <2> QED BY <1>0, <2>1, <2>2, <2>3, ForeignKept DEF OwnInv, PlaceInv, CopiesInv, SetsInv, Building
<1>5. CASE AddDetails
  <2> DEFINE spelled == Given(place, Plain) \cup CityCode
             added == spelled \cup Given(place, {"adm1"})
                      \cup {place.field["country"], place.field["continent"]}
             number == Given(place, {"geonames"})
  <2>1. /\ pc' = "common" /\ UNCHANGED <<place, termSets, indexed>>
        /\ weighted' = weighted \cup added /\ std' = std \cup number
    BY <1>5 DEF AddDetails
  <2>2. CityCode \subseteq Given(place, {"city"})
    BY DEF CityCode
  <2>3. added \subseteq OwnTerm(place)
    <3>1. Given(place, {"city"}) \subseteq OwnTerm(place) /\ Given(place, Plain) \subseteq OwnTerm(place)
          /\ Given(place, {"adm1"}) \subseteq OwnTerm(place)
      BY <1>0, <1>a, GivenIsOwn
    <3> QED BY <1>a, <1>b, <2>2, <3>1
  <2>4. number \subseteq OwnTerm(place)
    BY <1>0, <1>a, GivenIsOwn
  <2> HIDE DEF added, number
  <2> QED BY <1>0, <2>1, <2>3, <2>4, ForeignKept DEF OwnInv, PlaceInv, CopiesInv, SetsInv, Building
<1>6. ASSUME NEW f \in {"common", "ascii"}, NEW next \in {"ascii", "names"}, AddName(f, next)
      PROVE  OwnInv'
  <2> DEFINE name == place.field[f]
  <2>1. pc' = next /\ pc = f /\ UNCHANGED <<place, weighted, std, indexed>>
    BY <1>6 DEF AddName
  <2>2. name \in Seq(BaseWords(place))
    BY <1>b DEF Field
  <2>3. DOMAIN termSets' = Weights /\ AllTerms(termSets') \subseteq OwnTerm(place)
    <3>1. CASE name = <<>>
      BY <1>0, <1>6, <3>1 DEF AddName
    <3>2. CASE name # <<>>
      <4>1. termSets' = AddNameToSets(termSets, name)
        BY <1>6, <3>2 DEF AddName
      <4> HIDE DEF name
      <4> QED BY <1>0, <2>2, <4>1, NameIsOwn
    <3> QED BY <3>1, <3>2
  <2> QED BY <1>0, <2>1, <2>3, ForeignKept DEF OwnInv, PlaceInv, CopiesInv, SetsInv, Building
<1>7. CASE AddAlternateNames
  <2> DEFINE combinations == UNION {WordCombinations(n) : n \in place.names \ {<<>>}}
             terms == combinations \cup {Normalised(t) : t \in combinations}
  <2>1. /\ pc' = "merge" /\ UNCHANGED <<place, termSets, weighted, indexed>>
        /\ std' = std \cup terms
    BY <1>7 DEF AddAlternateNames
  <2>2. terms \subseteq OwnTerm(place)
    BY <1>0, CombinationsAreOwn
  <2> HIDE DEF terms
  <2> QED BY <1>0, <2>1, <2>2, ForeignKept DEF OwnInv, PlaceInv, CopiesInv, SetsInv, Building
<1>8. CASE MergeBack
  <2> DEFINE merged == AddTermSet(termSets, place.weight, weighted)
  <2>1. /\ pc' = "built" /\ weighted' = {} /\ std' = {} /\ UNCHANGED <<place, indexed>>
        /\ termSets' = AddTermSet(merged, StdWeight, std)
    BY <1>8 DEF MergeBack
  <2>2. DOMAIN merged = Weights /\ AllTerms(merged) \subseteq OwnTerm(place)
    BY <1>0, AddIsOwn
  <2> HIDE DEF merged
  <2>3. DOMAIN termSets' = Weights /\ AllTerms(termSets') \subseteq OwnTerm(place)
    BY <1>0, <2>1, <2>2, AddIsOwn
  <2> QED BY <1>0, <2>1, <2>3, ForeignKept DEF OwnInv, PlaceInv, CopiesInv, SetsInv, Building
<1>9. CASE AddToXapian
  <2>1. /\ pc = "built" /\ pc' = "reset" /\ UNCHANGED <<place, termSets, weighted, std>>
        /\ indexed'.place = place /\ indexed'.terms = termSets
    BY <1>9 DEF AddToXapian
  <2>2. NoForeignWord'
    BY <1>0, <2>1, OwnTermsOwnWords DEF NoForeignWord
  <2> QED BY <1>0, <2>1, <2>2 DEF OwnInv, PlaceInv, CopiesInv, SetsInv, Building
<1>10. CASE ResetIndexSets
  <2>1. /\ pc = "reset" /\ pc' = "idle" /\ UNCHANGED <<place, weighted, std, indexed>>
        /\ termSets' = NoTerm
    BY <1>10 DEF ResetIndexSets
  <2>2. DOMAIN termSets' = Weights /\ AllTerms(termSets') = {}
    BY <2>1 DEF NoTerm, AllTerms
  <2> QED BY <1>0, <2>1, <2>2, ForeignKept DEF OwnInv, PlaceInv, CopiesInv, SetsInv, Building
<1> QED BY <1>1, <1>2, <1>3, <1>4, <1>5, <1>6, <1>7, <1>8, <1>9, <1>10 DEF Next

(***************************************************************************)
(* Whatever the names of a location, no word of another POR gets into its  *)
(* document: the one Place that every POR goes through is emptied between  *)
(* two of them, and the combinations of a name are made of its own words.  *)
(***************************************************************************)
THEOREM NoForeignWordAlways == Spec => []NoForeignWord
<1>1. OwnInv => NoForeignWord
  BY DEF OwnInv
<1> QED BY InitOwn, NextOwn, <1>1, PTL DEF Spec

(***************************************************************************)
(* Types.  Whatever is added to a set, be it a name beside its qualifiers, *)
(* its normal form or a combination of its words, is a sequence of words.  *)
(***************************************************************************)
LEMMA AddTyped ==
  ASSUME NEW sets \in TermSets, NEW w \in Weights, NEW terms \in SUBSET Term
  PROVE  AddTermSet(sets, w, terms) \in TermSets
<1>1. sets[w] \cup terms \in SUBSET Term
  BY DEF TermSets
<1> QED BY <1>1 DEF AddTermSet, TermSets

LEMMA QualifiedTyped ==
  ASSUME NEW terms \in SUBSET Term, NEW qualifiers \in SUBSET Term
  PROVE  Qualified(terms, qualifiers) \in SUBSET Term
<1> SUFFICES ASSUME NEW x \in Qualified(terms, qualifiers) PROVE x \in Term
  OBVIOUS
<1>1. PICK t \in Term, q \in Term : x = t \o q
  BY InQualified
<1>2. t \o q \in Seq(Word)
  BY ConcatProperties DEF Term
<1> QED BY <1>1, <1>2 DEF Term

LEMMA LocationTyped ==
  ASSUME NEW l \in Locations
  PROVE  /\ \A f \in Field : l.field[f] \in Term
         /\ l.names \in SUBSET Term
         /\ FeatureNames(l) \in SUBSET Term
         /\ Around(l) \in SUBSET Term
         /\ \A fields \in SUBSET Field : Given(l, fields) \in SUBSET Term
<1>1. /\ l.field \in [Field -> Term] /\ l.names \in SUBSET Term
      /\ l.field["feature"] \in DOMAIN Features
      /\ \A f \in DOMAIN Features : Features[f] \subseteq Term
  BY PlaceTermsAssumption DEF PlaceTermsAssumption, Location
<1>2. \A f \in Field : l.field[f] \in Term
  BY <1>1
<1>3. FeatureNames(l) \in SUBSET Term
  BY <1>1 DEF FeatureNames
<1>4. Areas \subseteq Field /\ {"state", "country", "countryName", "continent"} \subseteq Field
  BY DEF Areas, Field, Plain, Codes
<1>5. \A fields \in SUBSET Field : Given(l, fields) \in SUBSET Term
  BY <1>2 DEF Given
<1>6. Around(l) \in SUBSET Term
  BY <1>2, <1>4, <1>5 DEF Around
<1> QED BY <1>1, <1>2, <1>3, <1>5, <1>6

LEMMA FeaturesTyped ==
  ASSUME NEW sets \in TermSets, NEW w \in Weights, place \in Locations,
         NEW bases \in SUBSET Term
  PROVE  AddFeatureNames(sets, w, bases) \in TermSets
<1>1. Qualified(bases, FeatureNames(place)) \in SUBSET Term
  BY LocationTyped, QualifiedTyped
<1>2. sets[w] \in SUBSET Term
  BY DEF TermSets
<1>3. PICK added \in SUBSET Term : added = sets[w] \cup Qualified(bases, FeatureNames(place))
  BY <1>1, <1>2
<1>4. AddTermSet(sets, w, added) \in TermSets
  BY AddTyped
<1> QED BY <1>3, <1>4 DEF AddFeatureNames

LEMMA NameTyped ==
  ASSUME NEW sets \in TermSets, place \in Locations, NEW name \in Term
  PROVE  AddNameToSets(sets, name) \in TermSets
<1> DEFINE featured == AddFeatureNames(sets, StdWeight, {name, Normalised(name)})
<1>1. PICK bases \in SUBSET Term : bases = {name, Normalised(name)}
  BY NormalisedIsTerm
<1>2. featured \in TermSets /\ StdWeight \in Weights
  BY <1>1, WeightsOfPlaces, FeaturesTyped
<1>3. Qualified(bases, Around(place)) \in SUBSET Term
  BY LocationTyped, QualifiedTyped
<1>4. sets[StdWeight] \in SUBSET Term
  BY WeightsOfPlaces DEF TermSets
<1>5. PICK added \in SUBSET Term :
          added = sets[StdWeight] \cup bases \cup Qualified(bases, Around(place))
  BY <1>3, <1>4
<1>6. AddNameToSets(sets, name) = AddTermSet(featured, StdWeight, added)
  BY <1>1, <1>5 DEF AddNameToSets
<1> HIDE DEF featured
<1> QED BY <1>2, <1>6, AddTyped

LEMMA CombinationsTyped ==
  ASSUME NEW l \in Locations
  PROVE  LET combinations == UNION {WordCombinations(n) : n \in l.names \ {<<>>}}
         IN  combinations \cup {Normalised(t) : t \in combinations} \in SUBSET Term
<1> DEFINE combinations == UNION {WordCombinations(n) : n \in l.names \ {<<>>}}
<1>1. ASSUME NEW n \in l.names \ {<<>>} PROVE WordCombinations(n) \subseteq Term
  <2>1. n \in Seq(Word) /\ n # <<>>
    BY LocationTyped DEF Term
  <2> QED BY <2>1, CombinationsOfWords DEF Term
<1>2. combinations \subseteq Term
  BY <1>1
<1> HIDE DEF combinations
<1>3. {Normalised(t) : t \in combinations} \subseteq Term
  BY <1>2, NormalisedIsTerm
<1> QED BY <1>2, <1>3 DEF combinations

LEMMA TypeInit == Init => TypeOK
<1> SUFFICES ASSUME Init PROVE TypeOK
  OBVIOUS
<1>1. NoTerm \in TermSets
  BY DEF NoTerm, TermSets
<1> QED BY <1>1 DEF Init, TypeOK

LEMMA TypeNext == TypeOK /\ [Next]_vars => TypeOK'
<1> SUFFICES ASSUME TypeOK, [Next]_vars PROVE TypeOK'
  OBVIOUS
<1>0. /\ place \in Locations /\ place.weight \in Weights /\ StdWeight \in Weights
      /\ termSets \in TermSets /\ \A w \in Weights : termSets[w] \in SUBSET Term
      /\ spelling \subseteq Term /\ weighted \subseteq Term /\ std \subseteq Term
  BY WeightsOfPlaces DEF TypeOK, TermSets
<1>a. NoTerm \in TermSets
  BY DEF NoTerm, TermSets
<1>b. \A fields \in SUBSET Field : Given(place, fields) \subseteq Term
  BY <1>0, LocationTyped
<1>c. /\ Codes \subseteq Field /\ Plain \subseteq Field /\ {"city"} \subseteq Field
      /\ {"geonames"} \subseteq Field /\ {"adm1"} \subseteq Field
      /\ "country" \in Field /\ "continent" \in Field
  BY DEF Codes, Plain, Areas, Field
<1>1. CASE UNCHANGED vars
  BY <1>1 DEF vars, TypeOK
<1>2. ASSUME NEW l \in Locations, SetLocation(l) PROVE TypeOK'
  BY <1>2 DEF SetLocation, TypeOK
<1>3. CASE CopyTermSets
  BY <1>0, <1>3 DEF CopyTermSets, TypeOK
<1>4. CASE AddCodes
  <2>1. Given(place, Codes) \in SUBSET Term
    BY <1>b, <1>c
  <2>2. termSets' \in TermSets
    BY <1>0, <1>4, <2>1, FeaturesTyped DEF AddCodes
  <2> QED BY <1>4, <2>1, <2>2 DEF AddCodes, TypeOK
<1>5. CASE AddDetails
  <2>1. /\ Given(place, Plain) \cup CityCode \subseteq Term
        /\ Given(place, {"adm1"}) \subseteq Term /\ Given(place, {"geonames"}) \subseteq Term
        /\ place.field["country"] \in Term /\ place.field["continent"] \in Term
    BY <1>0, <1>b, <1>c, LocationTyped DEF CityCode
  <2> QED BY <1>5, <2>1 DEF AddDetails, TypeOK
<1>6. ASSUME NEW f \in {"common", "ascii"}, NEW next \in {"ascii", "names"}, AddName(f, next)
      PROVE  TypeOK'
  <2>1. f \in Field
    BY DEF Field
  <2>2. PICK name \in Term : name = place.field[f]
    BY <1>0, <2>1, LocationTyped
  <2>3. CASE name = <<>>
    <3>1. UNCHANGED <<place, termSets, spelling, weighted, std, indexed, dictionary>> /\ pc' = next
      BY <1>6, <2>2, <2>3 DEF AddName
    <3> QED BY <3>1 DEF TypeOK
  <2>4. CASE name # <<>>
    <3>1. /\ termSets' = AddNameToSets(termSets, name)
          /\ spelling' = spelling \cup {name, Normalised(name)}
          /\ pc' = next /\ UNCHANGED <<place, weighted, std, indexed, dictionary>>
      BY <1>6, <2>2, <2>4 DEF AddName
    <3>2. termSets' \in TermSets /\ Normalised(name) \in Term
      BY <1>0, <3>1, NameTyped, NormalisedIsTerm
    <3> QED BY <3>1, <3>2 DEF TypeOK
  <2> QED BY <2>3, <2>4
<1>7. CASE AddAlternateNames
  <2> DEFINE combinations == UNION {WordCombinations(n) : n \in place.names \ {<<>>}}
             terms == combinations \cup {Normalised(t) : t \in combinations}
  <2>1. terms \in SUBSET Term
    BY <1>0, CombinationsTyped
  <2>2. /\ std' = std \cup terms /\ spelling' = spelling \cup terms /\ pc' = "merge"
        /\ UNCHANGED <<place, termSets, weighted, indexed, dictionary>>
    BY <1>7 DEF AddAlternateNames
  <2> HIDE DEF terms
  <2> QED BY <2>1, <2>2 DEF TypeOK
<1>8. CASE MergeBack
  <2> DEFINE merged == AddTermSet(termSets, place.weight, weighted)
  <2>1. /\ termSets' = AddTermSet(merged, StdWeight, std) /\ pc' = "built"
        /\ weighted' = {} /\ std' = {} /\ UNCHANGED <<place, spelling, indexed, dictionary>>
    BY <1>8 DEF MergeBack
  <2>2. merged \in TermSets
    BY <1>0, AddTyped
  <2> HIDE DEF merged
  <2>3. termSets' \in TermSets
    BY <1>0, <2>1, <2>2, AddTyped
  <2> QED BY <2>1, <2>3 DEF TypeOK
<1>9. CASE AddToXapian
  BY <1>9 DEF AddToXapian, TypeOK
<1>10. CASE ResetIndexSets
  BY <1>10, <1>a DEF ResetIndexSets, TypeOK
<1> QED
  BY <1>1, <1>2, <1>3, <1>4, <1>5, <1>6, <1>7, <1>8, <1>9, <1>10 DEF Next

(***************************************************************************)
(* Every state of the preparation of a document has its type: what is made *)
(* of the fields of a location is again a set of terms, for each weight.   *)
(***************************************************************************)
THEOREM TermsTyped == Spec => []TypeOK
  BY TypeInit, TypeNext, PTL DEF Spec
=============================================================================
