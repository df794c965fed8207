--------------------------- MODULE TravelRequest ---------------------------
(***************************************************************************)
(* The answer to a travel query, interpretTravelRequest(): the query is    *)
(* cut in slices (module QuerySlices); a slice made of codes is looked up  *)
(* in the SQL database; any other one, or one the database does not know,  *)
(* is searched in the index, all its partitions (module StringPartition)   *)
(* being weighed against each other.  The weights are products, held here  *)
(* by their logarithms: a weight is a number of thousandths of log10 of    *)
(* its ratio to 100%, and Zero stands for a weight of 0%.                  *)
(***************************************************************************)
EXTENDS QuerySlices, StringPartition, Integers, FiniteSetsExt

CONSTANTS
    Indexes,    \* sequences of documents, the most relevant to Xapian first
    Meant,      \* the word a (misspelled) word is meant for
    Filtered,   \* the words black-listed, or of less than three letters
    Kind,       \* what a word looks like: "iata", "icao", "geoid" or "none"
    DBs,        \* types of SQL database the service may be given
    MatchingSetSize

Document(d) ==
    /\ d.text \in Seq(Word)             \* the indexed terms, by position
    /\ d.names \subseteq SubSeqs(d.text) \* its part of the spelling dictionary
    /\ d.rank \in Int /\ d.rank <= 0 /\ d.relevance \in -2000..0 /\ d.expired \in BOOLEAN
    /\ DOMAIN d.code = {"iata", "icao", "geoid"}

Index(docs) ==
    /\ docs \in Seq(ToSet(docs)) /\ \A d \in ToSet(docs) : Document(d)
    /\ \A i, j \in DOMAIN docs :
           i < j => docs[i].relevance >= docs[j].relevance /\ docs[i].id # docs[j].id

RequestAssumption ==
    /\ \A docs \in Indexes : Index(docs)
    /\ Meant \in [Word -> Word] /\ Filtered \subseteq Word
    /\ Kind \in [Word -> {"iata", "icao", "geoid", "none"}]
    /\ DBs \subseteq {"nodb", "sqlite", "mysql"} /\ MatchingSetSize \in Nat \ {0}
ASSUME RequestAssumption

VARIABLES
    db,         \* type of the SQL database
    index,      \* the documents of the index, and the rows of the database
    rpc,        \* the step about to be taken for the slice
    cur,        \* the slice being answered
    results,    \* the Result of each string of the partitions of the slice
    weights,    \* the combined weights of the string sets of the slice
    best,       \* _bestMatchingResultHolder, 0 when NULL
    locations,  \* ioLocationList
    unmatched   \* ioWordList
request == <<db, index, rpc, cur, results, weights, best, locations, unmatched>>

(***************************************************************************)
(* The strings to be matched are sequences of positions within the query.  *)
(***************************************************************************)
Text(p) == [i \in DOMAIN p |-> query[p[i]]]

Zero == -1000000
IsPositive(weight) == weight > Zero \div 2

(***************************************************************************)
(* The loops that keep the first element with the highest weight, 0.0 to   *)
(* start with: 0 if no weight is positive.                                 *)
(***************************************************************************)
FirstBest(scores) ==
    LET some == {i \in DOMAIN scores : IsPositive(scores[i])}
    IN  IF some = {} THEN 0
        ELSE Min({i \in some : \A j \in some : scores[j] <= scores[i]})

\* SelectSeq of module Sequences, which no prover knows anything of
Picked(s, Test(_)) ==
    LET some[i \in 0..Len(s)] ==
            IF i = 0 THEN <<>>
            ELSE IF Test(s[i]) THEN Append(some[i - 1], s[i]) ELSE some[i - 1]
    IN  some[Len(s)]

(***************************************************************************)
(* Filter::shouldKeep ("", phrase) and Filter::trim().                     *)
(***************************************************************************)
Keep(phrase) == Len(phrase) > 1 \/ (Len(phrase) = 1 /\ phrase[1] \notin Filtered)

Trim(phrase) ==
    LET kept == {i \in DOMAIN phrase : phrase[i] \notin Filtered}
    IN  IF kept = {} THEN <<>> ELSE SubSeq(phrase, Min(kept), Max(kept))

-----------------------------------------------------------------------------
(***************************************************************************)
(* The full-text match.  A phrase matches the documents that hold its      *)
(* words next to each other; the spelling dictionary is asked for another  *)
(* phrase when there is none.                                              *)
(***************************************************************************)
Holds(d, phrase) ==
    \E k \in 0..(Len(d.text) - Len(phrase)) :
        \A i \in DOMAIN phrase : d.text[k + i] = phrase[i]

Matching(phrase) ==
    LET all == Picked(index, LAMBDA d : Holds(d, phrase))
    IN  SubSeq(all, 1, Min({Len(all), MatchingSetSize}))

IsKnown(phrase) == \E i \in DOMAIN index : Holds(index[i], phrase)

Correction(phrase) == [i \in DOMAIN phrase |-> Meant[phrase[i]]]
InDictionary(phrase) == \E i \in DOMAIN index : phrase \in index[i].names

Searched(phrase) ==
    IF ~ IsKnown(phrase) /\ InDictionary(Correction(phrase))
    THEN Correction(phrase) ELSE phrase

(***************************************************************************)
(* A Result: what is searched, what for, and what is found.                *)
(***************************************************************************)
FullTextMatch(phrase) ==
    LET as == Searched(phrase)
    IN  [query |-> phrase, as |-> as, best |-> 0,
         docs  |-> IF Keep(phrase) THEN Matching(as) ELSE <<>>]

HasMatched(r) == r.docs # <<>>

\* the edit distance, with one error in each misspelled word
Errors(r) == Cardinality({i \in DOMAIN r.query : r.as[i] # r.query[i]})

-----------------------------------------------------------------------------
(***************************************************************************)
(* The weights: 0.1% for an expired POR (or rather for one with an         *)
(* envelope), 110,000% for a code, 850 to divide by for each string.       *)
(***************************************************************************)
EnvelopeWeight == -3000
CodeWeight == 3041
AttenuationWeight == -2929
Log10 == <<301, 477, 602, 699, 778, 845, 903, 954, 1000>>       \* of 2 to 10

SpellingWeight(errors) ==
    IF errors < 2 THEN 0 ELSE -3 * Log10[IF errors > 10 THEN 9 ELSE errors - 1]

\* mutant of CodeMatches: the string is not trimmed
CodeMatchesUntrimmed(r, d) == r.as = r.query /\ r.query = <<d.code.iata>>

CodeMatches(r, d) == r.as = r.query /\ Trim(r.query) = <<d.code.iata>>

EnvelopeScore(d) == IF d.expired THEN EnvelopeWeight ELSE 0

DocumentWeight(r, d) ==
    IF d.rank <= Zero THEN Zero
    ELSE d.rank + (d.relevance - r.docs[1].relevance)
         + SpellingWeight(Errors(r))
         + EnvelopeScore(d)
         + (IF CodeMatches(r, d) THEN CodeWeight ELSE 0)

BestDocument(r) == FirstBest([i \in DOMAIN r.docs |-> DocumentWeight(r, r.docs[i])])

UnmatchedWeight(phrase) ==
    IF Len(phrase) = 1 /\ Keep(phrase) THEN 0 ELSE -3000 * Len(phrase) - 2000

StringWeight(r) ==
    IF HasMatched(r) THEN DocumentWeight(r, r.docs[r.best]) ELSE UnmatchedWeight(r.query)

WeightSum(set) ==
    LET sum[i \in 0..Len(set)] == IF i = 0 THEN 0 ELSE sum[i - 1] + StringWeight(set[i])
    IN  sum[Len(set)]

\* mutant of SetWeight: no attenuation
SetWeightUnattenuated(set) == WeightSum(set)

SetWeight(set) ==
    WeightSum(set)
    + (IF Len(set) > 1 THEN Len(set) * AttenuationWeight ELSE 0)

-----------------------------------------------------------------------------
(***************************************************************************)
(* The pairs of words doesMatch() finds, spelling corrections included,    *)
(* for the query to be cut by.                                             *)
(***************************************************************************)
\* mutant of KnownPairs: two words match as soon as each of them does
PairsOfKnownWords ==
    {p \in Word \X Word : \A i \in 1..2 : Matching(Searched(<<p[i]>>)) # <<>>}

KnownPairs == {p \in Word \X Word : Matching(Searched(p)) # <<>>}

InitRequest ==
    /\ db \in DBs /\ index \in Indexes
    /\ matching = KnownPairs
    /\ Init
    /\ rpc = "slice" /\ cur = 1 /\ results = <<>> /\ weights = <<>> /\ best = 0
    /\ locations = <<>> /\ unmatched = <<>>

Positions(s) == [i \in 1..(s.to + 1 - s.from) |-> s.from + i - 1]
InHand == Positions(slices[cur])
Sets == Partition(InHand)
Strings == FlattenSeq(Sets)

AtStep(step) == pc = "done" /\ cur <= Len(slices) /\ rpc = step

NextSlice ==
    /\ cur' = cur + 1 /\ rpc' = "slice" /\ results' = <<>> /\ weights' = <<>> /\ best' = 0
    /\ UNCHANGED index

Location(p, d, by) ==
    [from |-> p[1], to |-> p[Len(p)], doc |-> d.id, as |-> by]

-----------------------------------------------------------------------------
(***************************************************************************)
(* areAllCodeOrGeoID() and getLocationList(): of the rows of an IATA code  *)
(* the one with the highest positive PageRank is kept, of the others all.  *)
(***************************************************************************)
AllCodes(p) == db # "nodb" /\ \A i \in ToSet(p) : Kind[query[i]] # "none"

Rows(w) == Picked(index, LAMBDA d : d.code[Kind[w]] = w)

RowsKept(w) ==
    LET rows == Rows(w)
        one == FirstBest([i \in DOMAIN rows |-> rows[i].rank])
    IN  IF Kind[w] # "iata" THEN rows
        ELSE IF one = 0 THEN <<>> ELSE <<rows[one]>>

LocationsOf(i) ==
    [k \in DOMAIN RowsKept(query[i]) |-> Location(<<i>>, RowsKept(query[i])[k], "code")]
CodeLocations == FlattenSeq([i \in DOMAIN InHand |-> LocationsOf(InHand[i])])

\* mutant of ByDatabase: the index is never used for codes
ByDatabaseAlone(p) == p # <<>> /\ AllCodes(p)

ByDatabase(p) == AllCodes(p) /\ \E i \in ToSet(p) : Rows(query[i]) # <<>>

\* mutant of CodesFound: the index is searched as well
CodesFoundThenSearch ==
    /\ AtStep("slice") /\ ByDatabase(InHand)
    /\ locations' = locations \o CodeLocations
    /\ rpc' = "search"
    /\ UNCHANGED <<vars, index, cur, results, weights, best, unmatched>>

CodesFound ==
    /\ AtStep("slice") /\ ByDatabase(InHand)
    /\ locations' = locations \o CodeLocations
    /\ NextSlice
    /\ UNCHANGED <<vars, unmatched>>

SearchIndex ==
    /\ AtStep("slice") /\ ~ ByDatabase(InHand)
    /\ rpc' = "search"
    /\ UNCHANGED <<vars, index, cur, results, weights, best, locations, unmatched>>

\* the connection, or one of the selections, fails: some locations are there
DatabaseFails ==
    /\ AtStep("slice") /\ AllCodes(InHand)
    /\ \E n \in 0..Len(CodeLocations) : locations' = locations \o SubSeq(CodeLocations, 1, n)
    /\ rpc' = "thrown"
    /\ UNCHANGED <<vars, index, cur, results, weights, best, unmatched>>

-----------------------------------------------------------------------------
(***************************************************************************)
(* searchString(): a string of one word that does not match is added to    *)
(* the unmatched words, unless it is filtered, or already added for this   *)
(* slice.                                                                  *)
(***************************************************************************)
\* mutant of IsUnknown: the matched words are reported too
IsSingleWord(r) == Len(r.query) = 1 /\ Keep(r.query)

IsUnknown(r) == Len(r.query) = 1 /\ Keep(r.query) /\ ~ HasMatched(r)

\* mutant of AddUnmatchedWord: a word of several string sets is added each time
AddEveryUnmatchedWord(words, r) ==
    IF IsUnknown(r) THEN Append(words, r.query[1]) ELSE words

AddUnmatchedWord(words, r) ==
    IF IsUnknown(r) /\ r.query[1] \notin ToSet(words)
    THEN Append(words, r.query[1]) ELSE words

\* the Result of each string of the partitions
Found == [p \in ToSet(Strings) |-> FullTextMatch(Text(p))]

(***************************************************************************)
(* The words found to be unmatched after the first n strings.              *)
(***************************************************************************)
UnmatchedWords(n) ==
    LET words[i \in 0..n] ==
            IF i = 0 THEN <<>>
            ELSE AddUnmatchedWord(words[i - 1], Found[Strings[i]])
    IN  words[n]

SearchString ==
    /\ AtStep("search")
    /\ results' = Found
    /\ unmatched' = unmatched \o UnmatchedWords(Len(Strings))
    /\ rpc' = "weigh"
    /\ UNCHANGED <<vars, index, cur, weights, best, locations>>

\* a Xapian exception, after the match of some of the strings
SearchFails ==
    /\ AtStep("search")
    /\ \E n \in 0..(Len(Strings) - 1) : unmatched' = unmatched \o UnmatchedWords(n)
    /\ rpc' = "thrown"
    /\ UNCHANGED <<vars, index, cur, results, weights, best, locations>>

(***************************************************************************)
(* calculateAllWeights().  Result asserts that one of its documents is the *)
(* best one, which none is when all their weights are zero.                *)
(***************************************************************************)
NoBestDocument == \E p \in DOMAIN results : HasMatched(results[p]) /\ BestDocument(results[p]) = 0

CalculateAllWeights ==
    /\ AtStep("weigh") /\ ~ NoBestDocument
    /\ results' = [p \in DOMAIN results |-> [results[p] EXCEPT !.best = BestDocument(results[p])]]
    /\ weights' = [i \in DOMAIN Sets |->
                      SetWeight([k \in DOMAIN Sets[i] |-> results'[Sets[i][k]]])]
    /\ rpc' = "choose"
    /\ UNCHANGED <<vars, index, cur, best, locations, unmatched>>

AssertionFails ==
    /\ AtStep("weigh") /\ NoBestDocument
    /\ rpc' = "aborted"
    /\ UNCHANGED <<vars, index, cur, results, weights, best, locations, unmatched>>

(***************************************************************************)
(* No weight of a string set is zero, unless the slice has so many words   *)
(* that all the products underflow: then createPlaces() finds no best one, *)
(* and NoBestMatchingResultHolderException is thrown.                      *)
(***************************************************************************)
ChooseBest ==
    /\ AtStep("choose")
    /\ best' = FirstBest(weights)
    /\ rpc' = IF best' = 0 THEN "thrown" ELSE "places"
    /\ UNCHANGED <<vars, index, cur, results, weights, locations, unmatched>>

PlacesOf(set) ==
    LET matched == Picked(set, LAMBDA p : HasMatched(results[p]))
    IN  [i \in DOMAIN matched |->
            LET r == results[matched[i]] IN Location(matched[i], r.docs[r.best], "phrase")]

\* mutant of CreatePlaces: the places of the former string sets are kept
CreatePlacesOfAll ==
    /\ AtStep("places")
    /\ locations' = locations \o PlacesOf(FlattenSeq(SubSeq(Sets, 1, best)))
    /\ NextSlice
    /\ UNCHANGED <<vars, unmatched>>

(***************************************************************************)
(* createPlaces() and createLocations(): the best document of each string  *)
(* of the chosen set, but of those without a match.                        *)
(***************************************************************************)
CreatePlaces ==
    /\ AtStep("places")
    /\ locations' = locations \o PlacesOf(Sets[best])
    /\ NextSlice
    /\ UNCHANGED <<vars, unmatched>>

\* mutant of Return: the slice after the last one is waited for
ReturnAfterOneMore ==
    /\ pc = "done" /\ rpc = "slice" /\ cur > Len(slices) + 1
    /\ rpc' = "returned"
    /\ UNCHANGED <<vars, index, cur, results, weights, best, locations, unmatched>>

Return ==
    /\ pc = "done" /\ rpc = "slice" /\ cur > Len(slices)
    /\ rpc' = "returned"
    /\ UNCHANGED <<vars, index, cur, results, weights, best, locations, unmatched>>

NextRequest ==
    \/ Next /\ UNCHANGED request
    \/ /\ \/ CodesFound \/ SearchIndex \/ DatabaseFails
          \/ SearchString \/ SearchFails
          \/ CalculateAllWeights \/ AssertionFails
          \/ ChooseBest \/ CreatePlaces
          \/ Return
       /\ UNCHANGED db

(***************************************************************************)
(* The request is served by one thread, to its end.                        *)
(***************************************************************************)
SpecRequest == InitRequest /\ [][NextRequest]_<<vars, request>> /\ WF_<<vars, request>>(NextRequest)

-----------------------------------------------------------------------------

TypeOKRequest ==
    /\ db \in DBs /\ index \in Indexes
    /\ rpc \in {"slice", "search", "weigh", "choose", "places", "returned", "thrown", "aborted"}
    /\ cur \in 1..(Len(slices) + 1)
    /\ best \in 0..Len(weights)
    /\ rpc = "places" => best > 0 /\ Len(weights) = Len(Sets)
    /\ unmatched \in Seq(Word)

Returned == rpc = "returned"
At(s, i) == s.from <= i /\ i <= s.to
SliceOf(i) == CHOOSE k \in DOMAIN slices : At(slices[k], i)
Answered(i) == \E l \in ToSet(locations) : At(l, i)
Reported(i) == query[i] \in ToSet(unmatched)

(***************************************************************************)
(* The locations come in the order of the query, and no word counts for    *)
(* two of them, but for a code that several PORs have.                     *)
(***************************************************************************)
AnswersInOrder ==
    \A j, k \in DOMAIN locations : j < k =>
        \/ locations[j].to < locations[k].from
        \/ /\ locations[j].as = "code" /\ locations[k].as = "code"
           /\ locations[j].from = locations[k].from
           /\ locations[j].doc # locations[k].doc

(***************************************************************************)
(* A word is reported as unmatched once for each slice at most, in the     *)
(* order of the query.                                                     *)
(***************************************************************************)
ReportedInOrder ==
    \E f \in [DOMAIN unmatched -> DOMAIN query] :
        /\ \A j \in DOMAIN unmatched : query[f[j]] = unmatched[j]
        /\ \A j, k \in DOMAIN unmatched : j < k =>
                /\ f[j] < f[k]
                /\ unmatched[j] = unmatched[k] => SliceOf(f[j]) # SliceOf(f[k])

(***************************************************************************)
(* A word reported as unmatched is in no location, unless the phrase of    *)
(* that location was matched through a correction of its spelling.         *)
(***************************************************************************)
ReportedNotAnswered ==
    \A l \in ToSet(locations) : \A i \in l.from..l.to :
        l.as = "phrase" /\ Reported(i) =>
            Searched(SubSeq(query, l.from, l.to)) # SubSeq(query, l.from, l.to)

(***************************************************************************)
(* A slice of one or two words the SQL database did not answer loses none  *)
(* of them: each is in a location, reported, or filtered.                  *)
(***************************************************************************)
CodesWithRow(s) ==
    AllCodes(Positions(s)) /\ \E i \in s.from..s.to : Rows(query[i]) # <<>>
Accounted(i) == Answered(i) \/ Reported(i) \/ query[i] \in Filtered

ShortSlicesCovered ==
    Returned =>
        \A s \in ToSet(slices) :
            s.to <= s.from + 1 /\ ~ CodesWithRow(s)
                => \A i \in s.from..s.to : Accounted(i)

(***************************************************************************)
(* The combination {"paris", "texas"} is "ranked less than paris texas"    *)
(* (the attenuation factor): a slice without any code that matches a POR   *)
(* as a whole is answered as a whole, as long as the PageRank and the      *)
(* relevance of a valid POR do not take more off than two strings do.      *)
(***************************************************************************)
Phrase(s) == SubSeq(query, s.from, s.to)
OwnWeight(d, found) == d.rank + (d.relevance - found[1].relevance)
IsCode(w) == \E d \in ToSet(index) : d.code.iata = w
AnsweredWith(s, l) == l.from = s.from /\ l.to = s.to

WholeFirst ==
    Returned =>
        \A s \in ToSet(slices) :
            /\ ~ CodesWithRow(s) /\ Keep(Phrase(s))
            /\ \A i \in s.from..s.to : ~ IsCode(query[i])
            /\ \E d \in ToSet(Matching(Phrase(s))) :
                  ~ d.expired /\ OwnWeight(d, Matching(Phrase(s))) > 2 * AttenuationWeight
            => \E l \in ToSet(locations) : AnsweredWith(s, l)

(***************************************************************************)
(* A slice that is a IATA code, standard words such as "airport" apart, is *)
(* answered by a POR with that code, as long as the bonus of a valid one   *)
(* makes up for its PageRank (0.1% by default) and its relevance.          *)
(***************************************************************************)
CodeAnswersItself ==
    Returned =>
        \A s \in ToSet(slices) :
            LET found == Matching(Phrase(s))
            IN  /\ Keep(Phrase(s))
                /\ \E d \in ToSet(found) :
                      /\ Trim(Phrase(s)) = <<d.code.iata>>
                      /\ ~ d.expired /\ OwnWeight(d, found) + CodeWeight > 0
                /\ ~ CodesWithRow(s)
                => \E l \in ToSet(locations) :
                      /\ AnsweredWith(s, l)
                      /\ \E d \in ToSet(index) : d.id = l.doc /\ Trim(Phrase(s)) = <<d.code.iata>>

(***************************************************************************)
(* Every request ends.                                                     *)
(***************************************************************************)
Ended == pc = "thrown" \/ rpc \in {"returned", "thrown", "aborted"}
RequestIsServed == <>Ended

-----------------------------------------------------------------------------
(***************************************************************************)
(* What the comments and the assertions of the code say of the request.    *)
(***************************************************************************)

(***************************************************************************)
(* A string set with an unmatched phrase of several words has "almost no   *)
(* chance to being selected": no word of a slice is lost with it.          *)
(***************************************************************************)
NothingLost ==
    Returned => \A s \in ToSet(slices) :
        ~ CodesWithRow(s) => \A i \in s.from..s.to : Accounted(i)

(***************************************************************************)
(* The assertion of getDocumentPair(): the best document is there.         *)
(***************************************************************************)
BestDocumentThere == rpc # "aborted"
=============================================================================
