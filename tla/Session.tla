------------------------------ MODULE Session -------------------------------
(***************************************************************************)
(* The life of the searchers of a process: the OpenTrepSearcher objects of *)
(* the Python binding, the service, the stream and the context of each,    *)
(* and what they all share: the Logger, which writes to the stream of the  *)
(* last one to be initialised, the factories with their pools of objects,  *)
(* and the FacSupervisor where these are registered.  Python calls one     *)
(* method at a time, so that a call is one step; the calls to several      *)
(* searchers interleave.                                                   *)
(***************************************************************************)
EXTENDS Labels, FiniteSets

CONSTANTS
    Searchers,
    Paths,          \* directories given as the path of the index
    There,          \* those that exist
    DBTypes,        \* texts given as the type of the SQL database
    Strings,        \* texts given as the string of the SQL database
    Formats,        \* texts given as the format of the answer
    Letters,        \* those made of one letter
    MaxInits,       \* bound: streams that a searcher opens
    MaxLeft         \* bound: calls that leave objects in the pool of a factory

ASSUME SessionAssumption ==
    /\ There \subseteq Paths
    /\ Letters \subseteq Formats
    /\ MaxInits \in Nat /\ MaxLeft \in Nat

Parameters == [path : Paths, type : DBTypes, conn : Strings]

\* a stream is known by the searcher that opened it, and when
Streams == Searchers \X (1..MaxInits)
None == <<>>

BomFactory == {"World", "ResultCombination", "ResultHolder", "Result",
               "PlaceHolder", "Place"}
SvcFactory == {"ServiceContext"}
Factory == BomFactory \cup SvcFactory

VARIABLES
    opened,     \* number of streams that each searcher has opened
    stream,     \* its _logOutputStream, or None
    service,    \* the context of its service, named as the stream of the
                \* same init(); None when the service is NULL
    live,       \* the streams that are not deleted
    context,    \* the contexts in the pool, with their parameters
    factory,    \* the factories whose _instance is not NULL
    registered, \* those in the lists of the supervisor
    pool,       \* number of calls that left objects in the pool of a factory
    supervisor, \* there is a supervisor
    logger,     \* Logger::_instance: "null", "live" or "deleted"
    known,      \* the supervisor knows the Logger
    logStream,  \* the stream the Logger writes to
    process,    \* "up" or "gone"
    answer,     \* what the last call returned, and to whom
    asked,      \* history: parameters of the last init() that each searcher
                \* serves, None when cleanFactory() was called since
    last,       \* history: the last searcher that was initialised with success
    cleaned     \* history: cleanFactory() was called in this process

handles == <<opened, stream, service, live, asked>>
pools == <<context, factory, registered, pool, supervisor>>
log == <<logger, known, logStream, last, cleaned>>
vars == <<handles, pools, log, process, answer>>

NoContext == [c \in {} |-> None]

NoAnswer == [by |-> None, what |-> "", paths |-> None]

Init ==
    /\ opened = [s \in Searchers |-> 0]
    /\ stream = [s \in Searchers |-> None]
    /\ service = [s \in Searchers |-> None]
    /\ asked = [s \in Searchers |-> None]
    /\ live = {} /\ context = NoContext
    /\ factory = {} /\ registered = {} /\ supervisor = FALSE
    /\ pool = [f \in Factory |-> 0]
    /\ logger = "null" /\ known = FALSE /\ logStream = None
    /\ last = None /\ cleaned = FALSE
    /\ process = "up"
    /\ answer = NoAnswer

(***************************************************************************)
(* A call on something deleted may go on as if it were still there, or end *)
(* the process.                                                            *)
(***************************************************************************)
Outcome(bad) ==
    /\ process = "up"
    /\ process' \in IF bad THEN {"up", "gone"} ELSE {"up"}

Return(s, what) == answer' = [by |-> <<s>>, what |-> what, paths |-> None]

(***************************************************************************)
(* instance() of a factory registers it with the supervisor the first      *)
(* time; create() adds an object to its pool.                              *)
(***************************************************************************)
Create(fs) ==
    /\ factory' = factory \cup fs
    /\ registered' = registered \cup (fs \ factory)
    /\ supervisor' = (supervisor \/ fs \ factory # {})
    /\ pool' = [f \in Factory |-> IF f \in fs /\ pool[f] < MaxLeft
                                  THEN pool[f] + 1 ELSE pool[f]]

(***************************************************************************)
(* The factories that take part in a service, a place, and, in a request,  *)
(* a slice, its string sets, their strings, and the answers.               *)
(***************************************************************************)
OneService == {"ServiceContext", "World"}
OnePlace == {"Place"}
OneSlice == {"ResultCombination"}
OneStringSet == OneSlice \cup {"ResultHolder"}
OneString == OneStringSet \cup {"Result"}
OneAnswer == OneString \cup {"PlaceHolder"}

RequestLeaves == {{}, OneSlice, OneString, OneAnswer, OneAnswer \cup OnePlace}

-----------------------------------------------------------------------------

(***************************************************************************)
(* init(): nothing changes when the path is not that of a directory.       *)
(***************************************************************************)
InitRefused(s) ==
    /\ Outcome(FALSE) /\ Paths \ There # {}
    /\ Return(s, "false")
    /\ UNCHANGED <<handles, pools, log>>

\* mutant of OpenStream: the stream before is deleted
ReplaceStream(s) ==
    LET new == <<s, opened[s] + 1>> IN
    /\ opened[s] < MaxInits
    /\ opened' = [opened EXCEPT ![s] = @ + 1]
    /\ stream' = [stream EXCEPT ![s] = new]
    /\ live' = (live \ {stream[s]}) \cup {new}

\* a new stream; the one before, if any, is neither closed nor deleted
OpenStream(s) ==
    LET new == <<s, opened[s] + 1>> IN
    /\ opened[s] < MaxInits
    /\ opened' = [opened EXCEPT ![s] = @ + 1]
    /\ stream' = [stream EXCEPT ![s] = new]
    /\ live' = live \cup {new}

(***************************************************************************)
(* An unknown type of database: the exception is caught, and init()        *)
(* returns true, with the service that was there before, if any.           *)
(***************************************************************************)
InitThrows(s) ==
    /\ Outcome(FALSE) /\ There # {} /\ DBTypes \ DOMAIN DBType # {}
    /\ OpenStream(s)
    /\ Return(s, "true")
    /\ UNCHANGED <<service, asked, pools, log>>

(***************************************************************************)
(* Logger::instance().setLogParameters()                                   *)
(***************************************************************************)
LogInit(new) ==
    /\ logger' = IF logger = "null" THEN "live" ELSE logger
    /\ known' = (known \/ logger = "null")
    /\ logStream' = new
    /\ last' = <<new[1]>> /\ UNCHANGED cleaned

\* mutant of AddContext: one context serves all the searchers
ShareContext(new, p) == context' = [c \in DOMAIN context \cup {new} |-> p]

\* mutant of AddContext: the contexts made before are deleted, for none to leak
OnlyContext(new, p) == context' = [c \in {new} |-> p]

AddContext(new, p) ==
    context' = [c \in DOMAIN context \cup {new} |-> IF c = new THEN p ELSE context[c]]

(***************************************************************************)
(* The constructor of the service.  A service that is replaced is not      *)
(* deleted.                                                                *)
(***************************************************************************)
InitServes(s, p) ==
    LET new == <<s, opened[s] + 1>> IN
    /\ p.path \in There /\ p.type \in DOMAIN DBType
    /\ Outcome(logger = "deleted")
    /\ OpenStream(s)
    /\ LogInit(new)
    /\ AddContext(new, p)
    /\ Create(OneService)
    /\ service' = [service EXCEPT ![s] = new]
    /\ asked' = [asked EXCEPT ![s] = <<p>>]
    /\ Return(s, "true")

\* getSQLConnStr(): the default of SQLite is overridden for MySQL
SQLConnStr(p) ==
    IF DBType[p.type] = "MYSQL" /\ p.conn = "sqlite_default"
    THEN "mysql_default" ELSE p.conn

PathsOf(p) == <<p.path, SQLConnStr(p)>>

-----------------------------------------------------------------------------

(***************************************************************************)
(* getPaths(), index(), search() and generate() return a text that says so *)
(* when init() was not called, or did not make a service.                  *)
(***************************************************************************)
NotInitialised(s) ==
    /\ Outcome(FALSE)
    /\ \/ stream[s] = None /\ Return(s, "no log")
       \/ stream[s] # None /\ service[s] = None /\ Return(s, "no service")
    /\ UNCHANGED <<handles, pools, log>>

Ready(s) == stream[s] # None /\ service[s] # None

ContextGone(s) == service[s] \notin DOMAIN context

\* OPENTREP_LOG_DEBUG() and the like
LogGone == logger = "deleted" \/ logStream \notin live

GetPaths(s) ==
    /\ Ready(s)
    /\ Outcome(ContextGone(s))
    /\ IF ContextGone(s) THEN Return(s, "anything")
       ELSE answer' = [by |-> <<s>>, what |-> "paths",
                       paths |-> PathsOf(context[service[s]])]
    /\ UNCHANGED <<handles, pools, log>>

(***************************************************************************)
(* The three calls that log.  An exception is caught, and gives no text.   *)
(* The objects a request creates stay in the pools, wherever it stops.     *)
(***************************************************************************)
Call(s, told, left) ==
    /\ Ready(s)
    /\ Outcome(ContextGone(s) \/ LogGone)
    /\ Return(s, told)
    /\ Create(left)
    /\ UNCHANGED <<handles, context, log>>

Index(s) ==
    \/ Call(s, "", {})
    \/ \E told \in {"", "count"} : Call(s, told, OnePlace)

Search(s, f) ==
    /\ f \in DOMAIN Format
    /\ \E left \in RequestLeaves :
           Call(s, "", left) \/ Call(s, Format[f], left)

Generate(s, f) ==
    /\ f \in DOMAIN Format
    /\ Call(s, "", {}) \/ Call(s, Format[f], {})

(***************************************************************************)
(* OutputFormat(), before anything else: a letter it does not know throws  *)
(* to the caller, a text that is not one letter aborts.                    *)
(***************************************************************************)
FormatThrows(s) ==
    /\ Letters \ DOMAIN Format # {}
    /\ Outcome(FALSE)
    /\ Return(s, "exception")
    /\ UNCHANGED <<handles, pools, log>>

FormatAborts ==
    /\ process = "up" /\ Formats \ Letters # {}
    /\ process' = "gone"
    /\ UNCHANGED <<handles, pools, log, answer>>

-----------------------------------------------------------------------------

(***************************************************************************)
(* finalize(): the service is deleted; its finalise(), which is to delete  *)
(* all the objects, is empty; the stream is closed and deleted.            *)
(***************************************************************************)
Finalize(s) ==
    /\ Outcome(FALSE)
    /\ service' = [service EXCEPT ![s] = None]
    /\ stream' = [stream EXCEPT ![s] = None]
    /\ live' = live \ {stream[s]}
    /\ Return(s, "true")
    /\ UNCHANGED <<opened, asked, pools, log>>

(***************************************************************************)
(* A searcher is collected without having been finalised: nothing of it is *)
(* deleted, and a new one takes its name.                                  *)
(***************************************************************************)
Forget(s) ==
    /\ Outcome(FALSE)
    /\ service' = [service EXCEPT ![s] = None]
    /\ stream' = [stream EXCEPT ![s] = None]
    /\ answer' = NoAnswer
    /\ UNCHANGED <<opened, live, asked, pools, log>>

\* mutant of CleanLayers: the service layer is left out
CleanBomLayer ==
    /\ factory' = factory \ (registered \cap BomFactory)
    /\ pool' = [f \in Factory |-> IF f \in registered \cap BomFactory THEN 0 ELSE pool[f]]
    /\ UNCHANGED context

(***************************************************************************)
(* The registered factories are deleted, with the objects of their pools,  *)
(* and reset their _instance.                                              *)
(***************************************************************************)
CleanLayers ==
    /\ factory' = factory \ registered
    /\ pool' = [f \in Factory |-> IF f \in registered THEN 0 ELSE pool[f]]
    /\ context' = IF "ServiceContext" \in registered THEN NoContext ELSE context

(***************************************************************************)
(* FacSupervisor::cleanFactory(), which nothing calls in the library: it   *)
(* is there for its users.  The destructor of the Logger clears its        *)
(* stream; Logger::_instance is not reset.                                 *)
(***************************************************************************)
CleanFactory ==
    /\ Outcome(FALSE) /\ supervisor
    /\ CleanLayers
    /\ logger' = IF known THEN "deleted" ELSE logger
    /\ logStream' = IF known THEN None ELSE logStream
    /\ known' = FALSE /\ registered' = {} /\ supervisor' = FALSE
    /\ answer' = NoAnswer
    /\ asked' = [s \in Searchers |-> None] /\ cleaned' = TRUE
    /\ UNCHANGED <<opened, stream, service, live, last>>

Exit ==
    /\ process = "up"
    /\ process' = "gone"
    /\ UNCHANGED <<handles, pools, log, answer>>

Restart ==
    /\ process = "gone"
    /\ opened' = [s \in Searchers |-> 0]
    /\ stream' = [s \in Searchers |-> None]
    /\ service' = [s \in Searchers |-> None]
    /\ asked' = [s \in Searchers |-> None]
    /\ live' = {} /\ context' = NoContext
    /\ factory' = {} /\ registered' = {} /\ supervisor' = FALSE
    /\ pool' = [f \in Factory |-> 0]
    /\ logger' = "null" /\ known' = FALSE /\ logStream' = None
    /\ last' = None /\ cleaned' = FALSE
    /\ process' = "up"
    /\ answer' = NoAnswer

Next ==
    \/ \E s \in Searchers :
           \/ InitRefused(s) \/ InitThrows(s)
           \/ \E p \in Parameters : InitServes(s, p)
           \/ NotInitialised(s) \/ GetPaths(s) \/ Index(s)
           \/ \E f \in Formats : Search(s, f) \/ Generate(s, f)
           \/ FormatThrows(s)
           \/ Finalize(s) \/ Forget(s)
    \/ FormatAborts \/ CleanFactory \/ Exit \/ Restart

Spec == Init /\ [][Next]_vars

-----------------------------------------------------------------------------

TypeOK ==
    /\ opened \in [Searchers -> 0..MaxInits]
    /\ stream \in [Searchers -> Streams \cup {None}]
    /\ service \in [Searchers -> Streams \cup {None}]
    /\ asked \in [Searchers -> {<<p>> : p \in Parameters} \cup {None}]
    /\ live \subseteq Streams
    /\ DOMAIN context \subseteq Streams
    /\ \A c \in DOMAIN context : context[c] \in Parameters
    /\ factory \subseteq Factory /\ registered \subseteq Factory
    /\ pool \in [Factory -> 0..MaxLeft]
    /\ supervisor \in BOOLEAN /\ known \in BOOLEAN
    /\ logger \in {"null", "live", "deleted"}
    /\ logStream \in Streams \cup {None}
    /\ last \in {<<s>> : s \in Searchers} \cup {None} /\ cleaned \in BOOLEAN
    /\ process \in {"up", "gone"}

(***************************************************************************)
(* Cleaning would leave nothing behind: every factory there is, and the    *)
(* Logger unless it was deleted, is known of the supervisor that is there, *)
(* and none that was deleted is.                                           *)
(***************************************************************************)
AllSupervised ==
    /\ registered = factory
    /\ known <=> logger = "live"
    /\ (factory # {} \/ known) => supervisor
    /\ \A f \in Factory : pool[f] > 0 => f \in factory
    /\ DOMAIN context # {} => "ServiceContext" \in factory

(***************************************************************************)
(* As long as cleanFactory() was not called in the process, the last       *)
(* searcher that was initialised with success logs, while it has its       *)
(* service, to a stream of its own that is still there, however often it   *)
(* was initialised in vain since, and whatever was done with the others.   *)
(* Of the searchers that were initialised before it nothing is said: their *)
(* log is lost to it.                                                      *)
(***************************************************************************)
OwnLogLives ==
    \A s \in Searchers :
        last = <<s>> /\ service[s] # None /\ ~ cleaned =>
            logger = "live" /\ logStream \in live /\ logStream[1] = s

(***************************************************************************)
(* A searcher answers from the parameters of its own last init() that made *)
(* a service, the default string of the database replaced by the one that  *)
(* suits its type.                                                         *)
(***************************************************************************)
ServesItsInit ==
    answer.paths # None =>
        \E s \in Searchers : /\ answer.by = <<s>> /\ asked[s] # None
                             /\ answer.paths = PathsOf(asked[s][1])

(***************************************************************************)
(* The context of a service is there, with the parameters of the init()    *)
(* that made it, until cleanFactory() is called: it is neither deleted nor *)
(* replaced by what is done with the other searchers, which share its      *)
(* factory, nor by an init() of its own that fails.                        *)
(***************************************************************************)
ContextKept ==
    \A s \in Searchers :
        service[s] # None /\ asked[s] # None =>
            service[s] \in DOMAIN context /\ context[service[s]] = asked[s][1]
=============================================================================
