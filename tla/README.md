# A TLA+ verification project for OpenTREP

OpenTREP answers travel queries ("nce sfo", "rio de janero", "san francicso") with the points of
reference (POR) they mean: airports, cities, railway stations. An *indexer* turns a file of POR into a
Xapian full-text index, and, when there is one, into rows of a SQL database; *searchers* cut a query
into slices, look the codes up in the database, search the rest in the index with spelling
corrections, weigh the ways to split a slice, and return the best locations and the words they know
nothing of.

This directory holds the models of that program: TLA+ modules, the TLC configurations that check
them on small instances, and proofs checked by TLAPS. Paths such as `command/IndexBuilder.cpp` are
relative to `src/opentrep`.

    tlasany M.tla                       parses a module
    tlc -workers 2 -config X.cfg M      model-checks it
    tlapm M_proofs.tla                  checks its proofs

## 1. The system

| Part | Source | State it keeps | Operations |
|---|---|---|---|
| Index builder | `command/IndexBuilder.cpp`, `bom/PORFileHelper.cpp`, `batches/opentrep-indexer.cpp` | the index directory, the open Xapian transaction, the POR file being read, the `Place` reused for all the lines | the two `buildSearchIndex()`, `addDocumentToIndex()` |
| SQL database manager | `command/DBManager.cpp` | table `ori_por`, sessions and their transactions | connection, creation of users, tables and indexes, filling from the POR file, insertion of a POR, selections by code, counts |
| Session of the database manager | `ui/cmdline/opentrep-dbmgr.cpp`, `service/OPENTREP_Service.cpp` | the connection string of the context | the commands, in the order the user types them |
| Request interpreter | `command/RequestInterpreter.cpp` | the list of locations and the list of unmatched words of the caller | `interpretTravelRequest()` |
| Query slices | `bom/QuerySlices.cpp` | the staging string, the slices | `init()`, `doesMatch()` |
| String partitions, word combinations | `bom/StringPartition.cpp`, `bom/WordCombinationHolder.cpp`, `basic/Utilities.cpp` | none, they are computed | `init()` |
| Matching and scoring | `bom/Result.cpp`, `ScoreBoard.cpp`, `ResultHolder.cpp`, `ResultCombination.cpp`, `Filter.cpp`, `basic/BasConst.cpp` | per string: matched documents and their scores; per string set: its weight; the best string set | `fullTextMatch()`, the `calculate...()`, `chooseBestMatchingResultHolder()` |
| Service | `service/OPENTREP_Service.cpp` and its context | paths, type of the database | the API of the library: construction, `getFilePaths()`, the calls of the other parts |
| Place and its index terms | `bom/Place.cpp` | the sets of weighted terms and of spellings | `setLocation()`, `buildIndexSets()`, the resets |
| POR parser | `bom/PORParserHelper.cpp`, `command/PORParser.cpp` | the `Location` being filled in, its staged date, list and language | a Boost Spirit grammar with semantic actions |
| Location | `Location.hpp`, `basic/Location.cpp`, `NameMatrix.cpp`, ... | about fifty fields | accessors, consolidation of what was staged, formatting |
| Enumerations | `bom/IATAType.cpp`, `basic/DBType.cpp`, `OutputFormat.cpp` | none | conversions from and to text |
| Edit distance | `bom/Levenshtein.cpp` | none | `getDistance()` |
| Xapian index manager | `command/XapianIndexManager.cpp` | none | size of the index, random draws |
| Factories, supervisor, logger | `factory/*.cpp`, `service/Logger.cpp` | pools of objects, the lists of the supervisor, the one Logger and its stream | `instance()`, `create()`, `clean()`, `setLogParameters()` |
| Python binding | `python/pyopentrep.cpp` | the service and the log stream of each searcher | `init()`, `getPaths()`, `index()`, `search()`, `generate()`, `finalize()` |
| Exports | `bom/LocationExchange.cpp`, `bom/BomJSONExport.cpp` | none | a `Location` as a Protobuf message, as JSON |
| Transliteration | `basic/OTransliterator.cpp`, ... | none that matters here | text in, text out |
| Programs | `batches`, `ui/cmdline` | options, history | calls of the service |

**Interactions.** The parts of one process call each other directly, on one thread. Between processes,
the indexer and the searchers share the directory of the Xapian index and the SQL database, without
any lock of OpenTREP: what protects a searcher is the Xapian transaction of the indexer, and the
revision a Xapian reader keeps. The database manager shares the SQL table with both: it creates, fills
and empties it, by commands meant for an order that nothing enforces. Several searchers of a Python process
share the Logger, the factories and the supervisor, all of them singletons.

**What is hard.** The indexer deletes the old index long before the new one is committed, commits the
documents all at once and the rows one by one, and may throw, or be killed, anywhere in between. The
only `Place` of the indexer, the only staging string of the slices and the lists of the caller are
reused from a turn to the next. The searcher tests, opens and reads the directory in three steps. The
weights of the string sets are products of constants set far from each other, whose order of
magnitude decides which set wins. The lists of the caller are filled in before an exception. A fill of
the database takes minutes and may be lost midway, one committed row after the other; the next session
goes on from what it finds. The semantic actions of the parser store what they have matched before it is known whether
the rest does. The singletons outlive the searchers that point to them. All these are listed, each at its line, under `hazards` in `PROJECT.json`.

## 2. The modules

| Module | Kind | What it models |
|---|---|---|
| `TravelIndex` | abstract specification | what a searcher may see of the index: nothing, an empty index, or one whole POR file |
| `IndexBuilder` | detailed specification | the indexer, its exceptions, its death, the rows it inserts; refines `TravelIndex` |
| `IndexReaders` | composition | `IndexBuilder` beside a searcher that opens the index and answers slices, or draws random locations |
| `QuerySlices` | specification | the cutting of a query |
| `StringPartition` | operators | the partitions of a phrase, the combinations of its words |
| `EditDistance` | operators | the number of errors between a string and its spelling correction |
| `Words` | composition | `QuerySlices` with `StringPartition`: the query as a phrase, and the reference definitions of its partitions and combinations |
| `PlaceTerms` | specification | the terms and the spellings a POR is indexed by |
| `PORParser` | specification | the parsing of a line into a `Location`, and what its row and its exports tell of it |
| `Session` | specification | the searchers of a Python process, and the singletons they share |
| `Labels` | operators | the enumerations and their conversions |
| `DatabaseManager` | specification | the sessions of `opentrep-dbmgr`: the SQL databases, their table, its indexes and its rows |
| `TravelRequest` | composition | a whole request: `QuerySlices`, then the slices one after the other, with `StringPartition` |
| `MCIndexReaders`, `MCWords`, `MCPlaceTerms`, `MCTravelRequest`, `MCDatabaseManager`, `MCPORParser`, `MCSession` | instances | the constants TLC needs; `MCWords` also has the reference definition of the edit distance, which is `RECURSIVE` |
| `IndexReaders_proofs`, `StringPartition_proofs`, `QuerySlices_proofs`, `TravelRequest_proofs`, `PlaceTerms_proofs`, `DatabaseManager_proofs`, `PORParser_proofs`, `Session_proofs` | proofs | the theorems: `IndexReaders_proofs` has those of `IndexBuilder` too, `QuerySlices_proofs` those of `Words` and `EditDistance`; `TravelRequest_proofs` extends both modules about words |

An operator introduced by `\* mutant of X:` is a variant of `X` with a plausible bug in it. No other
definition uses it: it stands there to be put in the place of `X`, and shows that the property it is
paired with (`mutants` in `PROJECT.json`) depends on that line of the code.

### IndexBuilder

| Variable | Code |
|---|---|
| `dir` | the directory: `absent`; `bare`, from which no index can be opened (just created, or its files being removed); `database` |
| `docs`, `pending`, `inTxn` | the committed documents, those added by `add_document()` within `begin_transaction()`, and whether there is a transaction |
| `pc` | the step of `buildSearchIndex()` |
| `file`, `line`, `n` | the POR file, the line `getline()` is about to read, `oNbOfEntries` |
| `place` | whose terms the term sets of `lPlace` hold |
| `db` | the type of the SQL database, chosen once for all |
| `rows`, `session`, `stuck` | the rows of `ori_por`; `lSociSession_ptr != NULL`; a session of the process was left within a SQL transaction |
| `run`, `outcome` | number of the run, how the last one ended |

A document records the line and the key it was made from and, in `about`, the POR whose terms it is
indexed by. A line is a POR, a line the parser accepts without naming a POR (the header), or a line it
rejects. Each action is one step of the code in its order: `RemoveFiles`, `RemoveDirectory`,
`CreateDirectory`, `OpenDatabase`, `BeginTransaction`, `Connect`, `OpenPorFile`, then for each line
`SkipLine` or `AddDocument` followed by `InsertPlace` (or `WithoutSQL`), then `EndOfFile`, `Commit`,
`Close`. Every call that throws has its own failing action. All of them are `Throw`: the exception
leaves `buildSearchIndex()`, the destructor of the writable database cancels the transaction, and the
SQL session, a raw pointer, is not deleted. `Kill` ends the process at any step; then the sessions are
closed as well. An insertion may fail for any reason (`InsertFails`); one that meets its key, or a
locked file (`Refused`), must. `CreateTables` is the command of `opentrep-dbmgr` that empties the table.

The promise to the searchers is `TravelIndex`. Its `exists` is `dir = "database"`, its `published` is
`docs`: `IndexBuilder` has to go from an image to another through `Withdraw` and `CreateEmpty`, and to
`Publish` the whole image of a file the parser accepts, in one step.

### IndexReaders

The searcher's steps are those of `interpretTravelRequest()` where it meets the disk: the test of the
path, the opening (`snap` is the revision the `Xapian::Database` keeps), and one answer for each slice,
from the rows of the moment or else from `snap`. They interleave with all the actions of `IndexBuilder`.

`AskDraw` to `DrawMisses` are `drawRandomLocations()`: the test of the path, a first opening (`snap`), then
`getSize()`, which tests the path and opens the index again to count its documents (`size`), and the loop that
draws a number up to `size`. `missed` alternates with each draw that hits no document of `snap`: the
counter of the code does not change. `get_document_lazily()` is external, and returns NULL
for a document that is not there, which is what the code tests.

### QuerySlices

A string of the code is the interval of the words of the query it is made of and the number of
separators in it. `left` is the position of `itWord`, `idxRel` is `idx_rel`, `staging` is
`_itLeftWords`, `slices` is `_slices`. `matching` holds the pairs of words for which `doesMatch()`
returns true: any set at all in this module, the pairs the index knows in `TravelRequest`.

### StringPartition

`Partition` is `StringPartition::init()`, its recursion on the right-hand string written as a
function of the number of words before it. `Combinations` is the set of its strings, `MiddleRemoved`
the combinations `WordCombinationHolder::init()` adds.

### EditDistance

`Distance` is the last cell of the matrix of `Levenshtein::getDistance()`, a recursive function of the two positions;
`Cell` is the body of its two loops.

### PlaceTerms

| Variable | Code |
|---|---|
| `place` | `_location`, reduced to the fields that are indexed |
| `termSets`, `spelling` | `_termSetMap`, `_spellingSet` |
| `weighted`, `std` | `lWeightedTermSet`, `lStdTermSet`, the copies `buildIndexSets()` works on |
| `indexed`, `dictionary` | the last document added to the index, what was added to the spelling dictionary with it |

`CopyTermSets`, `AddCodes`, `AddDetails`, `AddName` (the common, then the ASCII name), `AddAlternateNames`
and `MergeBack` are the parts of `buildIndexSets()` in their order. `AddToXapian` is `addToXapian()`,
`ResetIndexSets` the reset at the end of the line. A term is the sequence of its words: the terms that
differ by a space at the end, of which an empty qualifier makes two, are one. The stem and synonym
sets stay empty in the code and are left out. `SpellingIndexed` justifies the assumption of
`TravelRequest` that the names of a document (its part of the dictionary) are within its text.

### TravelRequest

`slices` and `query` come from `QuerySlices`, which this module extends: its steps are the first ones
of a request. Then, for the slice `cur`:

| Action | Code |
|---|---|
| `CodesFound`, `SearchIndex`, `DatabaseFails` | `areAllCodeOrGeoID()`, `getLocationList()`, the selections of `DBManager` |
| `SearchString`, `SearchFails` | `searchString()`: a `Result` for each string of each partition, `fullTextMatch()`, `addUnmatchedWord()` |
| `CalculateAllWeights`, `AssertionFails` | `calculateAllWeights()`: the scores of the documents, the best one, the weights of the string sets |
| `ChooseBest` | `chooseBestMatchingResultHolder()` |
| `CreatePlaces` | `createPlaces()`, `createLocations()` |
| `Return` | the end of the loop on the slices |

Xapian itself is external and modelled from how it is called: a phrase matches the documents that hold
its words at adjacent positions, the most relevant first, `MatchingSetSize` of them at most; a
phrase that matches nothing is corrected when its correction is in the spelling dictionary. Words are
model strings; `Meant` says what a misspelled word is meant for, `Kind` what the regular expressions
for codes say of it.

The documents of an index have distinct ids. `ChooseBest` ends in the exception of the code when no string set has a
positive weight, that is when all the products underflow or are null.

Weights are products of percentages, so the module adds thousandths of their decimal logarithms:
PageRank, relevance, spelling (one over the distance cubed, ten errors at most being told apart), envelope (0.1% when the POR has one), code
(110,000%), attenuation (1/850 for each string of a set of several), and 10^(-3n) percent for an
unmatched phrase of n words. `Zero` is the logarithm of 0%, which beats no initial 0.0. `db` says whether there is a
SQL database, chosen with the query and the index.

### PORParser

| Variable | Code |
|---|---|
| `at`, `item` | the block of columns about to be matched, the items matched of the current list; or the verdict on the line |
| `por`, `shape`, `odd`, `rest` | the PORs begun on the line; whether the current one fills in its columns, and how many differ; what is known of the text that follows |
| `line` | what has been read so far: `<<POR, column, item>>` |
| `attr`, `iataType`, `tvl`, `nameMatrix`, `distance` | the `Location`: its attributes, type, list of travel-related PORs, alternate names by language, edit distances |
| `itDate`, `itTvl`, `itLanguage` | the staging members `_itYear` and the like, `_itTvlPORList`, `_itLanguageCode` |

A block is the columns that the grammar reads between two lists or dates, each required or optional; its action
reads them all, in any combination, and stores the tokens. `ModDate`, the items of the four lists, `AltName`,
and their ends are actions of their own, since they stage. `DateThrows` and `TypeThrows` are the exceptions,
`Refuse` a column that does not match, at any block, `AnotherPor` and `SwallowPor` what the rule `start`
and the alternate names make of a line that goes on with a second POR. `Locate` is the Location a request
parses again, with the distances of its match. `Message`, `JSON` and `Row` are what is told of it.

### Session

| Variable | Code |
|---|---|
| `stream`, `service`, `opened`, `live` | `_logOutputStream` and `_opentrepService` of each searcher, the streams opened so far, those that are not deleted |
| `context` | the service contexts in the pool of their factory, each with its parameters |
| `factory`, `registered`, `pool`, `supervisor` | the instances of the factories, those the supervisor knows, the calls that left objects in their pools, whether there is a supervisor |
| `logger`, `known`, `logStream` | `Logger::_instance`, the pointer of the supervisor to it, `_logStream` |
| `process` | the Python process |
| `answer` | for the properties: the last return |
| `asked`, `last`, `cleaned` | history, for the properties: the parameters of the last `init()` with a service, until `cleanFactory()`; the last searcher initialised with success; whether `cleanFactory()` was called |

A call of the binding is one step, as Python makes one call at a time. What goes on after a deletion is undefined in C++: `Outcome`
leaves open whether the process goes on as if nothing were or ends. `CleanFactory` is
`FacSupervisor::cleanFactory()`, public, and called by no one in the repository: the destructor of the Logger clears
`_logStream`, and `Logger::_instance`, not reset, refers to what was deleted until the process ends. A request leaves
objects in the pools or, answered by the SQL database alone, none.

### DatabaseManager

| Variable | Code |
|---|---|
| `type`, `file` | the type of the database and the POR file the program is started with |
| `exists`, `table`, `rows`, `indexes` | the databases one can connect to, those that hold `ori_por`, the rows and the indexes of each |
| `conn` | the connection string of the service context |
| `pc`, `cmd`, `at` | the statement about to be executed, the command typed, the line or the index it has come to |
| `n`, `log` | the count the command returns, the commands of the session that reported their end |
| `fill` | the number of the last fill: rows remember which one inserted them |

A session starts (`StartSession`), reads a command (`ReadCommand`, `ResetConnectionString`), connects (`Connect`), and
executes the statements of that command one action after the other: `RemoveSQLiteFile`,
`CreateSQLiteDirectory` or `GrantRights`, `DropDatabase`, `CreateDatabase`; `DropTable`, `CreateTable`; `CreateIndex` for each
index; `SkipLine` or `InsertPlace` for each line; `Select`. Each is committed when it is executed. `StatementRefused` is
the handler of `createSQLDBUser()`, the only one that lets the session go on. Everything else that
cannot succeed (`Impossible`: an assertion on the session without a database, a missing directory or
table, an index that exists, a duplicate key, a rejected line) is an exception nobody catches: `Throw` ends the
program, as `Stop` (a kill, `quit`, a database that fails) may at any step. The stores outlive the session. The grants of the
first statements are those of one administrator and are not kept; `exists` is.


## 3. What is checked

| Run | Question | Size |
|---|---|---|
| `readers` | Does the index stay whole, do rows and documents agree, whatever fails or is killed; what does a searcher see beside it? | 137,241 states |
| `words` | Is every query cut where it should be, losing no word? Are the partitions, the combinations and the distances what they are meant to be? | 1,865,728 states: all queries of up to 5 words, all sets of matching pairs; all pairs of strings of up to 3 letters, and of 4 with the same first one |
| `terms` | Do the copies of the sets of terms lose or leak a term? | 20 PORs, in any order |
| `request` | What is answered, what is reported, which string set wins; does every request end? | 107,434 states: all queries of up to 3 of 8 words, 4 indexes, with and without a database |
| `database` | What do the rows, their count and the reports tell of the commands before, in any order and over several sessions? | 2,042,267 states |
| `por` | Does a Location say what its line says, whatever was staged, repeated or left empty? | 84,268 states: lines of up to 2 PORs |
| `session` | What do the searchers of a process do to each other through what they share? | 1,190,114 states, up to the symmetry of the two searchers |
| `request_lost`, `request_unranked`, `draws`, `admin2`, `database_user` | Is what a comment or an assertion of the code says true? No: see the findings | a shortest counterexample |

The properties, by the hazard they are for:

- **The index survives failures.** `CommittedWhole`: whatever is interrupted and whenever, an index
  that can be opened is empty or is the image of one whole file. `PublishesWhole`: the same as a
  refinement of `TravelIndex`, which also says in which order a searcher may see these images.
  `RunEnds`: a run ends.
- **The database follows the index.** `RowsFollowDocuments` during a run, `SuccessAgrees` after a success
  (the count, the documents and the rows), `SuccessOwnsRows` against the rows of a former run. Without
  the transaction these do not hold after a failure, and nothing claims it: the rows of a failed run stay.
- **The Place is reused.** `CommittedWhole` (a document of a whole image holds its own terms), `NoForeignWord` (the sets themselves),
  `NoTermLost` (the copies that are merged back), `SpellingIndexed` (dictionary and index agree).
- **A searcher beside the indexer.** `OneImagePerRequest`: all the slices of a request that the index
  answers are answered by the same image. `RefusedOnlyWhenRebuilt`: a request is refused the index only if
  a run has failed or is under way, or none has ever succeeded. `RequestEnds`: so does every request, and
  every draw from an index that was not empty when it was opened.
- **No word is lost.** `SlicesCoverQuery`, `CutWhereNoMatch`, `WordsSeparated`, `SlicingEnds` for the
  slices; `EveryCutOnce`, `CombinationsAreAll` for the
  partitions; `AnswersInOrder`, `ReportedInOrder`, `ReportedNotAnswered`, `ShortSlicesCovered` for the
  two lists of the caller.
- **The weights decide as meant.** `WholeFirst`: a slice without a code that a valid document matches as a whole is not split,
  provided that its PageRank and relevance take less off than the attenuation of two strings does (they multiply to more than
  0.00014%; the lowest PageRank given by default is 0.1%). `CodeAnswersItself`: a slice that is a code is answered by a POR with that code, provided
  that the bonus of the code makes up for PageRank and relevance, the default 0.1% included. Below these bounds a
  split may win, in the code as in the model.
- **The table tells its story.** `ProgressIsCounted`: with a unique key, the rows are the first PORs of the
  file, each once, whatever fills were interrupted and whenever the key was made unique, so that the
  number `list_nb` prints does say how far the fill went, as the help of the program claims.
  `TutorialCompletes`: the commands of the tutorial, reported one after the other, leave the whole file
  under unique keys. `CreatedAnew`: a creation that is reported has taken place. `CommandEnds`.
- **The distance.** `DistanceIsSound`: it is symmetric, null for equal strings only, never less than the least
  number of edits, and equal to it behind a common first letter.
- **A Location says what its line says.** `LastGiven`: each attribute is what the line gives of it last, or its
  default, although nothing stored is undone. `OneCity`: code, identifier and names of the city come from one
  item. `NamesUnderLanguage`: each alternate name is filed under its own language. `AnswersAgree`: the
  message, the JSON text and the row agree on the Location, through three tables of labels.
- **Searchers share singletons.** `OwnLogLives`: until `cleanFactory()` is called in the process, the last searcher
  initialised with success logs to a stream of its own that is there, as long as it has its service. `ServesItsInit`:
  a searcher answers from its own parameters. `ContextKept`: until `cleanFactory()` is called, the context of a service is
  there, with those parameters. `AllSupervised`: what the supervisor would clean is what there is. The three first say
  nothing of the searchers that were initialised before the last one (their log), nor of a searcher whose
  context, or whose Logger, `cleanFactory()` has deleted: these do go wrong in the code, as noted under the findings.

### Findings

- `NothingLost` (`bom/Result.cpp:874`): three words that match two by two but not together. The whole
  string, unmatched, weighs 10^-9, more than any split of PORs with the default PageRank: no word of the
  slice is located nor reported.
- `BestDocumentThere` (`bom/Result.cpp:117`): with PageRanks of 0 an assertion on the best document fails.
- `DrawEnds` (`command/XapianIndexManager.cpp:102`): the loop that draws again does not count its iterations. An index
  that was empty when opened, and not when counted, is drawn from for ever.
- `Admin2CodeIndexed` (`bom/Place.cpp:586`): the code of the administrative level 2 is never indexed.
- `NoEffectOnOthers` (`command/DBManager.cpp:149`): on SQLite `createSQLDBUser()`, documented without effect there,
  removes the file of the database, and the program reports a creation.

Seen while modelling, and not findings because nothing written contradicts them plainly: when the
database knows one code of a slice of several, the list of unmatched words that `getLocationList()` is
given is not filled in, and the other codes are in neither list; `create_indexes`, "Create/reset" in the
help, ends the program the second time; without a database the commands of `opentrep-dbmgr` that need
one abort on an assertion; a swap of the first two letters of a word counts for two errors, the test
`i>2 && j>2` of `bom/Levenshtein.cpp:86` leaving it out; the message of an answer has the allowable edit distance in the
field of the actual one (`bom/LocationExchange.cpp:371`); the column `is_geonames` of a row is always `N`, as
`setGeonamesID()` does not touch the flag that it reads; `init()` of the binding returns true for a type of
database that is unknown; a searcher that did not initialise the Logger last loses its log, and
may write to a deleted stream, once the other one is finalised; after `cleanFactory()` the process has no Logger any
more: a searcher that is still used, or initialised again, writes through the one that was deleted, whose stream is null
(the assertion of `service/Logger.hpp:55`, if the memory is still as it was).

One comment is contradicted plainly, without a run of its own, as reading the code is enough: the destructor of the service
says "Delete/Clean all the objects from memory" (`service/OPENTREP_Service.cpp:61`), and calls `finalise()`, which is empty.
`Finalize` deletes the service and its stream, and leaves its context, its World and the objects of its requests in the
pools, for `CleanFactory` to delete.

### Bounds, and why they are enough

- `MaxRuns` = 2: a run meets what a former run left, in the same process (the session within its transaction) or in
  another one; the theorems hold for any number of runs. `Files` has a header, a repeated key, a
  rejected line in the middle, and files that overlap partly. The images of two files differ by what they
  hold and what they lack, so that a mixture of both is neither.
- `Slices` = 2: two answers of one request may come from two images.
- `MaxLen` = 5 words for the slices (a cut at the beginning, in the middle, at the end, two in a row, a
  word alone between two cuts) and for the partitions (holes of 1 to 3 words), 3 for the requests: a slice
  of three words is the smallest one with a split that is neither all singles nor the whole.
- `MaxString` = 3 letters, 4 with the common first one: two swaps apart from each other do not overlap.
- `MatchingSetSize` is 2 (`K_DEFAULT_XAPIAN_MATCHING_SET_SIZE` is 30), so that it does cut the matches.
- `MaxCommands` = 3 commands reported in a session, as many as the tutorial has between the two
  connection strings and the listings, and `MaxFills` = 2 fills of the table, in any number of sessions: a
  fill meets what one fill before it left. The files have a repeated POR, a header, a rejected line
  between two PORs. The violation run needs one fill only.
- `MaxPors` = 2 PORs on a line, the second one stored over the first; `MaxItems` = 2 items of a list, so that a
  first and a last one differ; `MaxOdd` = 1 column that a full POR leaves empty, or a bare one fills in, so that each
  column is once alone to be given or missing; `MaxErrors` = 1. The types are one of a city with its airport, one of an
  airport, and one the grammar takes and the conversion does not.
- `MaxInits` = 2 streams opened by each of 2 searchers: a stream is replaced, and a Logger passes from a searcher
  to the other and back. `MaxLeft` = 1: the pools are empty or not; the theorem holds for any bound.
- The PORs of `terms` have two values of each field that is treated apart from the others, and three
  weights.

### Fairness

The indexer and a request are one thread each, which no lock or wait of OpenTREP holds back:
`WF_vars(Build)` for a started run (`Build`, the searcher left alone, in `IndexReaders`), `WF_vars(Next)` for the slicing,
`WF(NextRequest)`, `WF(Search)` and `WF(Draw)` for a request, `WF_vars(Work)` for a command of the database manager.
`WF(DrawHits)` says that a uniform draw hits a document, where there is one, in the end: the loop draws anew each time.
It grants nothing to an index without documents. Starting a run or a request, `Kill`, `Exit`, `CreateTables`, and what the
user types are not fair: nobody has to. `PORParser` and `Session` have no fairness, and no liveness property.
`CHECK_DEADLOCK FALSE` is said where the system stops: no run left, a request served, the longest phrase.

### Abstractions

- One indexer at a time. Two on the same directory are kept apart by the lock of Xapian.
- One session of the database manager at a time, and one POR file for all of them, as its path is fixed by
  the installation. The interleaving of its rows with the indexer is in `IndexBuilder`.
- `bare` stands for any directory no index can be opened from, whatever files are left in it. The commit of
  Xapian is atomic, and a reader keeps the revision it opened.
- In `TravelRequest` the rows of the database are the documents of the index, as after a success
  (`SuccessAgrees`); `IndexReaders` has them apart. The relevance of a document is one number, the same
  for all phrases. Equal floating-point products are ties here; a misspelled word counts for one error;
  the positions of the indexed terms run on from one string to the next.
- `Zero` is the logarithm of 0%, and a weight below half of it is taken for null. The double of the code does not
  underflow before the query is about a hundred words long; beyond, all the string sets may weigh 0 and
  `chooseBestMatchingResultHolder()` finds none: the model ends in the same exception.
- The text of a column is the place where it was read: two columns never happen to hold the same text. A bar or an
  equal sign in the text of a second POR is a choice (`rest`). One request draws one location.
- The string of the database in `Session` is the default one or another; passwords, hosts and files are not told apart.
- The Place of `PlaceTerms` has no multiplicities: Xapian adds up the weights of the terms that share a
  word.

## 4. What is proved

The theorems hold for every value of the constants; `tlapm` checks them to the last leaf.

**IndexBuilder.** Assumed: the files are finite sequences of lines over `Key`; `UniquePk` is a part of
`DBs`, the types of databases, and holds SQLite if that is one of them. `CommittedWhole` is not
inductive: it says nothing of the documents that wait for the commit. The invariant
`Inv == TypeOK /\ IndexInv /\ ReadingInv /\ CommittedWhole` ties them to the lines read so far (`pending` is the
image of the lines before `line`, all of them accepted by the parser), to the step, and to the
transaction. From it follow `TypeCorrect`, `CommittedWholeAlways`, `OwnTermsAlways`, and `Implements`: each
step is `Withdraw`, `CreateEmpty` or `Publish` of `TravelIndex`, or leaves what a searcher sees alone. A
second invariant, `SqlInv == RowsInv /\ CountInv /\ OutcomeInv`, inductive relative to the first, matches
rows with documents, and the count with their number; from it follow `RowsFollow`,
`SuccessMeansAgreement` and `SuccessMeansOwnRows`. `RunNeverCircles`: see the measures below.

**IndexReaders.** The searcher leaves the variables of the builder alone, so that the invariants of `IndexBuilder` hold
beside it. `OneImagePerRequest` follows from an invariant that ties `snap` to one committed image while the slices are
answered, and every answer of the index to `snap`; `RefusedOnlyWhenRebuilt` from `IndexInv`, by which the last outcome
is not a success in any state where the directory cannot be opened. `SlicesAnsweredOnce`: the answers are numbered from 1 on without a gap,
which is what makes their number grow at each slice.

**Session.** Assumed: the directories that exist are among the paths, the letters among the formats; the bounds are any
numbers. `OwnLogLives` is not inductive: it says nothing of whose stream is deleted. `OwnInv` adds
that the stream and the service of a searcher are its own, that services and contexts are named after what was opened so
far, so that what is opened next is nobody's, and that the Logger is deleted by `cleanFactory()` only. `ServesItsInit` is not either,
as it speaks of the last answer: `FoundInv` adds that the context a searcher finds, or was promised, is there and is the one
its last `init()` made (`OwnContexts`, which implies `ContextKept`). It rests on `AllSupervised`, which is inductive with the
type: as every context is in a registered factory, a cleaning leaves none behind.

**StringPartition.** Assumed: a phrase is a finite sequence, not empty. The recursion of `Partition` is a recursive function, that is a `CHOOSE`: `PartsExist`
shows that its equation has a solution, by induction on the number of words. The induction theorems of the library take an operator as a parameter, which the
provers cannot instantiate: `Induction` and `BoundedInduction` are about a set of numbers instead, and follow from the
well-foundedness of `<` by its least element. `PartitionsCutEveryWay`: every set of a partition flattens to the phrase without an empty
string, every set of cuts is made (`EveryCutIsMade`) by one set only, as there are 2^(n-1) of them (`FirstAndNumber`).
`CombinationsAreSubStrings` follows from the same equation. `EveryCutAlways` and `CombinationsAlways` state both of the queries of `Words`.

**EditDistance.** Assumed: two finite sequences. The matrix has a solution by induction on its diagonals (a cell depends on lighter
ones only, `CellLocal`), and a single one, hence its symmetry. `DistanceIsLeast` states what the number means without any
matrix: `Edited(s, t, i, j, c)` says that there is a script of `c` edits, each a letter left out, put in, kept or replaced, or two adjacent
letters swapped behind the first letters of both strings; the distance is the cost of such a script, and no script costs less. This
is also the exact extent of the test `i>2 && j>2` of the code. `DistanceMeasures`: symmetric, null between equal strings only, at most the longer length, at
least the difference of the lengths.

**QuerySlices.** Assumed: a query is a finite sequence of words. The invariant adds to the type of the
state what the slices made so far cover (`SlicesInv`) and how the staging string goes on from there
(`StagingInv`). From it follow `TypeCorrect`, `QueryCovered`, `CutExactly` and `SeparatedAlways`, for
queries of any length and every set of matching pairs.

**Measures.** The prover cannot conclude that something happens in the end, but it can show that nothing goes on for ever: for each of the five loops
whose end TLC checks, a theorem says that every step of it, failures included, lowers a natural number (`RunNeverCircles`, `CommandNeverCircles`,
`BrowsingNeverCircles`, `SearchNeverCircles`) or a pair of them (`RequestNeverCircles`: the cutting first, then six steps for each slice). They hold for files
and queries of any length, which the runs cannot say; what is left to TLC is that a step is there to be taken, and the fairness. The numbers are defined beside
the proofs (`RunLeft`, `CommandLeft`, `TurnsLeft`, `SearchLeft`, `StepsLeft`). The draws are left out of `SearchNeverCircles`, as they may miss again and again.

**PORParser.** Assumed: a line has at least one POR, a list at least one item, both up to a bound; the language codes are not
names of columns, nor empty, nor `text`. `LastGiven` is not inductive: an item that is stored has to come after all that was
told before. `LineInv` says that it does, as each token of the line is behind the place the parser has come to (its POR is begun, its
list not ahead, its item not past); the steps are sorted into those that store nothing, store a column, or store an item.
`CityInv` is `OneCity` at every step of the line, for the POR in hand, and not at its end only. `AnswersAgree` needs that the names filed are
those of the line (`FiledInv`) and that a line with a POR has its type read before it is accepted (`TypeRead`); the tables of labels being inverse to each
other, and `LastGiven`, do the rest. `NamesUnderLanguage` needs `StagedInv`:
a language that stays staged waits for the first alternate name of a POR that is not the first of its line.
`ParsesTyped`: the number of columns that a line may have out of the ordinary stays a natural number as no POR is given more columns of a block
than there are (`GivenCounted`, by the cardinality of sets), nor a list more items than `MaxItems`; the other conjuncts are inductive beside it, one for each
group of variables.

**PlaceTerms.** Assumed: the weights of the locations are among the weights. The invariant `Inv` says that a
spelling is in the sets of the Place or in one of the two copies, which are not empty between the copy
and the merge only; from it follows `SpellingIndexedAlways`. A second one, `TermsInv`, says at each step where the codes, the
names and the combinations are: in a copy, or already in the set of their weight, which only grows until it is reset. From it follows
`NoTermLostAlways`. Nothing is needed there of what the combinations of words are, only that the same ones go everywhere. `NoForeignWordAlways` does need it:
`OwnInv` says that the sets and the copies hold terms made of words of the Place in hand, normalised
or not, and that the sets are empty between two lines; that a combination has words of its phrase only is a lemma about `StringPartition`.
`TermsTyped`: what is made of the fields of a location, qualified by another field or combined, is a term again.

**DatabaseManager.** Assumed: the files are finite sequences of lines, each type has its connection strings,
the one of the `trep` user is not that of an administrator; how many commands and fills there are does not
matter. `TypeInv` is `TypeOK` with what the step says of the command in hand, and the finiteness of the
tables, which the counts need. `ProgressIsCounted` is not inductive: it says nothing of a table without a unique
key, to which one may be given later. `RowsInv` says of every table that it has duplicate keys (and
then it never gets a unique one), or is what a single fill has inserted so far; a second fill into a
table that is not empty meets the row of its first POR, and makes a duplicate, or is refused. From it
follows `Progress`. `UserInv` tells the steps of `create_user` from those of the others, and what has been dropped
between two of them; from it follows `CreatedIsNew`: the report only comes after the creation. `TutorialInv` reads in the log how far
the tutorial has come, and says what each of its commands finds and leaves: an empty table, then the lines before the current one each with its
row (`Counted`), then every POR of the file, then the indexes made so far. From it and `RowsInv` follows `TutorialIsComplete`: the
unique index could not have been created over a table with duplicates.

**TravelRequest.** Assumed: the documents of an index have a text of words, names within it, distinct ids, and come the most relevant
first. Nothing bounds the query, the index or `MatchingSetSize`. All six invariants that the runs check are proved, from a chain of invariants,
each relative to those before it:

- `Frame` takes over the invariants of `QuerySlices`, with what the step says of `cur`, of the results (one for
  each string of the partitions, `Found`) and of the weights.
- `AnswersInv` orders the locations, and keeps them within the slices answered so far; hence `AnswersAlwaysInOrder`. The browsing
  order of the code is that of the strings within a set (`PartitionOf`), of the words within a string.
- `ReportedInv` says of the reported words that they are not found, and that they can be placed in the query one after the other, in slices not after the
  current one (`InTurn`). It is an existential: a slice adds its own placing to the one at hand, whose
  words are all before. Hence `ReportedAlwaysInOrder`, and, as what holds a phrase holds its words, `ReportedNeverAnswered`.
- `CoveredInv` says of each slice that is done with what the last three properties do (`Served`), and that every word that is to be reported is,
  from the search of its slice on.

`ShortSlicesAlwaysCovered` then follows as two words in one slice match together, so that their whole has a document. `WholeAlwaysFirst` and `CodeAlwaysAnswers` compare the weights of
the sets: only a code lifts the weight of a string above 100%, and at most one string of a split is the slice's code with its standard words
trimmed (`CodeInString`), whereas every split is attenuated at least twice (`SplitsWeighLess`); the whole weighs at least
what its best document does (`WholeWeight`), so that it wins, the first in a tie being irrelevant since the inequality is strict.
Proving `WholeFirst` showed that its first statement, for any positive PageRank, was too strong: with a PageRank or a relevance low enough, a split of
two better documents weighs more. The bound in it now is the one the proof needs.

`RequestTyped` follows from `Frame`, `ReportedInv` and `BestInv`: there is no best set before it is chosen, the chosen one is one of those that were weighed, and
neither outlives its slice.

**Model-checked only.** Liveness (`RunEnds`, `RequestEnds`, `SlicingEnds`, `RequestIsServed`, `CommandEnds`): the prover has no
`ENABLED`. `DistanceIsSound`: its reference, `Edits`, is a `RECURSIVE` operator; the theorems about `Distance` state the same in terms of scripts of edits.
The five runs that expect a violation are counterexamples, and need no proof.

## 5. What is not modelled

`components` in `PROJECT.json` has all the parts, with the reason for each that is left out. In short: which
characters make the text of a column of the POR file, text in detail (transliteration, UTF-8, tokens), the layout of
displays and exports, command-line options, web pages. `PORFileParser`, `DBManager::updatePlaceInDB()`,
`displayAll()` and `DBSessionManager` are called by nothing. The wrong data noted under the findings
(edit distances of the message, flag of the row) are in the models as the code has them, without a property.

## 6. Plan

Done, in this order: the index builder and its promise, the searcher beside it, the slices, the
partitions, the request, the terms of a POR, the distance, the database manager, the random draws, the labels, the
POR parser, the searchers of a process, and the proofs of all these specifications: every invariant and every action property of a passing
run is a theorem, `DistanceIsSound` excepted, and so is the type correctness of every specification.

Next: `Session` beside an indexer of another process, as `IndexReaders` has one searcher.
