--------------------------- MODULE Session_proofs ---------------------------
(***************************************************************************)
(* Proofs about Session, for any number of searchers, of their             *)
(* initialisations and of the calls they make.                             *)
(***************************************************************************)
EXTENDS Session, TLAPS

LEMMA StreamNames ==
    /\ \A t \in Streams : t # None
    /\ \A s \in Searchers, k \in 1..MaxInits :
           <<s, k>> \in Streams /\ <<s, k>>[1] = s /\ <<s, k>>[2] = k
    /\ \A t \in Streams : t[1] \in Searchers /\ t[2] \in 1..MaxInits /\ t = <<t[1], t[2]>>
  BY DEF Streams, None

(***************************************************************************)
(* The name of the stream a searcher opens next.                           *)
(***************************************************************************)
LEMMA NewStream ==
    ASSUME TypeOK, NEW s \in Searchers, opened[s] < MaxInits
    PROVE  /\ opened[s] + 1 \in 1..MaxInits
           /\ <<s, opened[s] + 1>> \in Streams
<1>1. opened[s] \in 0..MaxInits /\ MaxInits \in Nat
  BY SessionAssumption DEF TypeOK, SessionAssumption
<1>2. opened[s] + 1 \in 1..MaxInits
  BY <1>1
<1> QED
  BY <1>2, StreamNames

-----------------------------------------------------------------------------
(***************************************************************************)
(* The types, by the parts of the state that the operations share.         *)
(***************************************************************************)
HandleType ==
    /\ opened \in [Searchers -> 0..MaxInits]
    /\ stream \in [Searchers -> Streams \cup {None}]
    /\ service \in [Searchers -> Streams \cup {None}]
    /\ asked \in [Searchers -> {<<p>> : p \in Parameters} \cup {None}]
    /\ live \subseteq Streams

ContextType ==
    /\ DOMAIN context \subseteq Streams
    /\ \A c \in DOMAIN context : context[c] \in Parameters

PoolType ==
    /\ factory \subseteq Factory /\ registered \subseteq Factory
    /\ pool \in [Factory -> 0..MaxLeft]
    /\ supervisor \in BOOLEAN

LogType ==
    /\ known \in BOOLEAN
    /\ logger \in {"null", "live", "deleted"}
    /\ logStream \in Streams \cup {None}
    /\ last \in {<<s>> : s \in Searchers} \cup {None} /\ cleaned \in BOOLEAN

LEMMA TypeParts ==
    TypeOK <=> HandleType /\ ContextType /\ PoolType /\ LogType /\ process \in {"up", "gone"}
  BY DEF TypeOK, HandleType, ContextType, PoolType, LogType

LEMMA CreateType == ASSUME PoolType, NEW fs \in SUBSET Factory, Create(fs) PROVE PoolType'
<1>1. MaxLeft \in Nat
  BY SessionAssumption DEF SessionAssumption
<1>2. pool' \in [Factory -> 0..MaxLeft]
  BY <1>1 DEF PoolType, Create
<1> QED
  BY <1>2 DEF PoolType, Create

LEMMA OpenType ==
    ASSUME TypeOK, NEW s \in Searchers, OpenStream(s)
    PROVE  /\ opened' \in [Searchers -> 0..MaxInits]
           /\ stream' \in [Searchers -> Streams \cup {None}]
           /\ live' \subseteq Streams
  BY NewStream DEF OpenStream, TypeOK

LEMMA Leaves == \A left \in RequestLeaves \cup {{}, OnePlace, OneService} :
                    left \subseteq Factory
  BY DEF RequestLeaves, OneSlice, OneStringSet, OneString, OneAnswer, OnePlace,
         OneService, Factory, BomFactory, SvcFactory

LEMMA TypeInit == Init => TypeOK
<1> SUFFICES ASSUME Init PROVE TypeOK
  OBVIOUS
<1>1. MaxLeft \in Nat /\ MaxInits \in Nat
  BY SessionAssumption DEF SessionAssumption
<1>2. HandleType
  BY <1>1 DEF Init, HandleType
<1>3. DOMAIN context = {}
  BY DEF Init, NoContext
<1>4. ContextType
  BY <1>3 DEF ContextType
<1>5. PoolType
  <2>1. factory = {} /\ registered = {} /\ supervisor = FALSE
        /\ pool = [f \in Factory |-> 0]
    BY DEF Init
  <2>2. 0 \in 0..MaxLeft
    BY <1>1
  <2>3. pool \in [Factory -> 0..MaxLeft]
    BY <2>1, <2>2
  <2>4. supervisor \in BOOLEAN
    BY <2>1
  <2>5. factory \subseteq Factory /\ registered \subseteq Factory
    BY <2>1
  <2> QED
    BY <2>3, <2>4, <2>5 DEF PoolType
<1>6. LogType /\ process \in {"up", "gone"}
  BY DEF Init, LogType
<1> QED
  BY <1>2, <1>4, <1>5, <1>6, TypeParts

LEMMA TypeRestart == Restart => TypeOK'
<1> SUFFICES ASSUME Restart PROVE TypeOK'
  OBVIOUS
<1>1. MaxLeft \in Nat /\ MaxInits \in Nat
  BY SessionAssumption DEF SessionAssumption
<1>2. HandleType'
  BY <1>1 DEF Restart, HandleType
<1>3. DOMAIN context' = {}
  BY DEF Restart, NoContext
<1>4. ContextType'
  BY <1>3 DEF ContextType
<1>5. PoolType'
  <2>1. factory' = {} /\ registered' = {} /\ supervisor' = FALSE
        /\ pool' = [f \in Factory |-> 0]
    BY DEF Restart
  <2>2. 0 \in 0..MaxLeft
    BY <1>1
  <2>3. pool' \in [Factory -> 0..MaxLeft]
    BY <2>1, <2>2
  <2>4. supervisor' \in BOOLEAN
    BY <2>1
  <2>5. factory' \subseteq Factory /\ registered' \subseteq Factory
    BY <2>1
  <2> QED
    BY <2>3, <2>4, <2>5 DEF PoolType
<1>6. LogType' /\ process' \in {"up", "gone"}
  BY DEF Restart, LogType
<1> QED
  BY <1>2, <1>4, <1>5, <1>6 DEF TypeOK, HandleType, ContextType, PoolType, LogType

(***************************************************************************)
(* The steps of Next by what they change.  A quiet one answers at most, or *)
(* ends the process.                                                       *)
(***************************************************************************)
Quiet == UNCHANGED <<handles, pools, log>>

Leaving == \E left \in SUBSET Factory :
               /\ Create(left)
               /\ UNCHANGED <<handles, context, log>>
               /\ answer'.paths = None

LEMMA OutcomeType == ASSUME NEW bad, Outcome(bad) PROVE process' \in {"up", "gone"}
  BY DEF Outcome

LEMMA CallLeaves ==
    ASSUME NEW s, NEW told, NEW left \in SUBSET Factory, Call(s, told, left)
    PROVE  Leaving /\ process' \in {"up", "gone"}
<1>1. process' \in {"up", "gone"}
  BY OutcomeType DEF Call
<1>2. answer'.paths = None
  BY DEF Call, Return
<1> QED
  BY <1>1, <1>2 DEF Call, Leaving

(***************************************************************************)
(* What a call of getPaths() answers, while the context is still there.    *)
(***************************************************************************)
Told == \E s \in Searchers :
            /\ service[s] # None /\ ~ ContextGone(s)
            /\ answer' = [by |-> <<s>>, what |-> "paths",
                          paths |-> PathsOf(context[service[s]])]

Quietly == /\ Quiet /\ process' \in {"up", "gone"}
           /\ Told \/ answer'.paths = None \/ answer' = answer

LEMMA Steps ==
    ASSUME Next
    PROVE  \/ Quietly
           \/ Leaving /\ process' \in {"up", "gone"}
           \/ \E s \in Searchers :
                  \/ InitThrows(s) \/ Finalize(s) \/ Forget(s)
                  \/ \E p \in Parameters : InitServes(s, p)
           \/ CleanFactory \/ Restart
<1>1. ASSUME NEW s \in Searchers, InitRefused(s) \/ NotInitialised(s) \/ FormatThrows(s)
      PROVE  Quietly
  <2>1. \E what : Return(s, what)
    BY <1>1 DEF InitRefused, NotInitialised, FormatThrows
  <2>3. answer'.paths = None
    BY <2>1 DEF Return
  <2>2. process' \in {"up", "gone"}
    BY <1>1, OutcomeType DEF InitRefused, NotInitialised, FormatThrows
  <2> QED
    BY <1>1, <2>2, <2>3 DEF InitRefused, NotInitialised, FormatThrows, Quietly, Quiet
<1>2. ASSUME NEW s \in Searchers, GetPaths(s) PROVE Quietly
  <2>1. process' \in {"up", "gone"}
    BY <1>2, OutcomeType DEF GetPaths
  <2>2. Told \/ answer'.paths = None
    BY <1>2 DEF GetPaths, Told, Return, Ready
  <2> QED
    BY <1>2, <2>1, <2>2 DEF GetPaths, Quietly, Quiet
<1>3. CASE FormatAborts \/ Exit
  BY <1>3 DEF FormatAborts, Exit, Quietly, Quiet
<1>4. ASSUME NEW s \in Searchers, Index(s) PROVE Leaving /\ process' \in {"up", "gone"}
  <2>1. {} \in SUBSET Factory /\ OnePlace \in SUBSET Factory
    BY Leaves
  <2> QED
    BY <1>4, <2>1, CallLeaves DEF Index
<1>5. ASSUME NEW s \in Searchers, NEW f \in Formats, Search(s, f)
      PROVE  Leaving /\ process' \in {"up", "gone"}
  <2>1. PICK left \in RequestLeaves : Call(s, "", left) \/ Call(s, Format[f], left)
    BY <1>5 DEF Search
  <2>2. left \in SUBSET Factory
    BY <2>1, Leaves
  <2> QED
    BY <2>1, <2>2, CallLeaves
<1>6. ASSUME NEW s \in Searchers, NEW f \in Formats, Generate(s, f)
      PROVE  Leaving /\ process' \in {"up", "gone"}
  <2>1. {} \in SUBSET Factory
    OBVIOUS
  <2> QED
    BY <1>6, <2>1, CallLeaves DEF Generate
<1> QED
  BY <1>1, <1>2, <1>3, <1>4, <1>5, <1>6 DEF Next

LEMMA TypeStep == TypeOK /\ [Next]_vars => TypeOK'
<1> SUFFICES ASSUME TypeOK, [Next]_vars PROVE TypeOK'
  OBVIOUS
<1>0. HandleType /\ ContextType /\ PoolType /\ LogType /\ process \in {"up", "gone"}
  BY TypeParts
<1>p. HandleType' /\ ContextType' /\ PoolType' /\ LogType' /\ process' \in {"up", "gone"}
      => TypeOK'
  BY DEF TypeOK, HandleType, ContextType, PoolType, LogType
<1>1. CASE Quietly
  <2>1. UNCHANGED <<handles, pools, log>> /\ process' \in {"up", "gone"}
    BY <1>1 DEF Quietly, Quiet
  <2>2. HandleType'
    BY <1>0, <2>1 DEF HandleType, handles
  <2>3. ContextType' /\ PoolType'
    BY <1>0, <2>1 DEF ContextType, PoolType, pools
  <2>4. LogType'
    BY <1>0, <2>1 DEF LogType, log
  <2> QED
    BY <1>p, <2>1, <2>2, <2>3, <2>4
<1>2. CASE Leaving /\ process' \in {"up", "gone"}
  <2>1. PICK left \in SUBSET Factory :
            Create(left) /\ UNCHANGED <<handles, context, log>>
    BY <1>2 DEF Leaving
  <2>2. HandleType'
    BY <1>0, <2>1 DEF HandleType, handles
  <2>3. ContextType' /\ LogType'
    BY <1>0, <2>1 DEF ContextType, LogType, log
  <2>4. PoolType'
    BY <1>0, <2>1, CreateType
  <2> QED
    BY <1>2, <1>p, <2>2, <2>3, <2>4
<1>3. ASSUME NEW s \in Searchers, InitThrows(s) PROVE TypeOK'
  <2>1. HandleType'
    BY <1>3, <1>0, OpenType DEF InitThrows, HandleType
  <2>2. ContextType' /\ PoolType' /\ LogType'
    BY <1>3, <1>0 DEF InitThrows, ContextType, PoolType, LogType, pools, log
  <2>3. process' \in {"up", "gone"}
    BY <1>3, OutcomeType DEF InitThrows
  <2> QED
    BY <1>p, <2>1, <2>2, <2>3
<1>4. ASSUME NEW s \in Searchers, NEW p \in Parameters, InitServes(s, p) PROVE TypeOK'
  <2> DEFINE new == <<s, opened[s] + 1>>
  <2>1. new \in Streams
    BY <1>4, NewStream DEF InitServes, OpenStream
  <2>2. HandleType'
    BY <1>4, <1>0, <2>1, OpenType DEF InitServes, HandleType
  <2>3. ContextType'
    BY <1>4, <1>0, <2>1 DEF InitServes, AddContext, ContextType
  <2>4. PoolType'
    BY <1>4, <1>0, Leaves, CreateType DEF InitServes
  <2>5. LogType'
    <3>1. new[1] = s
      OBVIOUS
    <3> QED
      BY <1>4, <1>0, <2>1, <3>1 DEF InitServes, LogInit, LogType
  <2>6. process' \in {"up", "gone"}
    BY <1>4, OutcomeType DEF InitServes
  <2> QED
    BY <1>p, <2>2, <2>3, <2>4, <2>5, <2>6
<1>5. ASSUME NEW s \in Searchers, Finalize(s) \/ Forget(s) PROVE TypeOK'
  <2>1. HandleType'
    BY <1>5, <1>0 DEF Finalize, Forget, HandleType
  <2>2. ContextType' /\ PoolType' /\ LogType'
    BY <1>5, <1>0 DEF Finalize, Forget, ContextType, PoolType, LogType, pools, log
  <2>3. process' \in {"up", "gone"}
    BY <1>5, OutcomeType DEF Finalize, Forget
  <2> QED
    BY <1>p, <2>1, <2>2, <2>3
<1>6. CASE CleanFactory
  <2>1. HandleType'
    BY <1>6, <1>0 DEF CleanFactory, HandleType
  <2>2. ContextType'
    <3>1. context' = NoContext \/ context' = context
      BY <1>6 DEF CleanFactory, CleanLayers
    <3>2. DOMAIN NoContext = {}
      BY DEF NoContext
    <3> QED
      BY <1>0, <3>1, <3>2 DEF ContextType
  <2>3. PoolType'
    <3>1. MaxLeft \in Nat
      BY SessionAssumption DEF SessionAssumption
    <3>2. pool' \in [Factory -> 0..MaxLeft]
      BY <1>6, <1>0, <3>1 DEF CleanFactory, CleanLayers, PoolType
    <3>3. factory' \subseteq Factory /\ registered' = {} /\ supervisor' = FALSE
      BY <1>6, <1>0 DEF CleanFactory, CleanLayers, PoolType
    <3> QED
      BY <3>2, <3>3 DEF PoolType
  <2>4. LogType'
    <3>1. /\ known' = FALSE /\ logStream' \in {None, logStream}
          /\ logger' \in {"deleted", logger} /\ last' = last /\ cleaned' = TRUE
      BY <1>6 DEF CleanFactory
    <3> QED
      BY <1>0, <3>1 DEF LogType
  <2>5. process' \in {"up", "gone"}
    BY <1>6, OutcomeType DEF CleanFactory
  <2> QED
    BY <1>p, <2>1, <2>2, <2>3, <2>4, <2>5
<1>7. CASE Restart
  BY <1>7, TypeRestart
<1>8. CASE UNCHANGED vars
  BY <1>8 DEF vars, handles, pools, log, TypeOK
<1> QED
  BY <1>1, <1>2, <1>3, <1>4, <1>5, <1>6, <1>7, <1>8, Steps

(***************************************************************************)
(* Every state of the searchers, and of what they share, is well typed.    *)
(***************************************************************************)
THEOREM TypeCorrect == Spec => []TypeOK
  BY TypeInit, TypeStep, PTL DEF Spec

-----------------------------------------------------------------------------
(***************************************************************************)
(* The stream and the service of a searcher are its own, and the contexts  *)
(* are named after what was opened so far: a stream opened next has a name *)
(* that nothing has.                                                       *)
(***************************************************************************)
OwnInv ==
    /\ \A s \in Searchers : stream[s] # None => stream[s][1] = s
    /\ \A s \in Searchers : service[s] # None => /\ service[s][1] = s
                                                /\ service[s][2] <= opened[s]
    /\ \A c \in DOMAIN context : c[2] <= opened[c[1]]
    /\ logger = "deleted" => cleaned
    /\ OwnLogLives

\* the context that a searcher finds, or that it was promised, is there and
\* is the one its last init() made
OwnContexts ==
    \A s \in Searchers :
        service[s] # None /\ (asked[s] # None \/ service[s] \in DOMAIN context) =>
            /\ service[s] \in DOMAIN context /\ asked[s] # None
            /\ context[service[s]] = asked[s][1]

FoundInv == OwnContexts /\ ServesItsInit

LEMMA OwnInit == Init => OwnInv /\ FoundInv
<1> SUFFICES ASSUME Init PROVE OwnInv /\ FoundInv
  OBVIOUS
<1>1. DOMAIN context = {}
  BY DEF Init, NoContext
<1>2. \A s \in Searchers : stream[s] = None /\ service[s] = None
  BY DEF Init
<1>3. answer.paths = None /\ logger = "null"
  BY DEF Init, NoAnswer
<1> QED
  BY <1>1, <1>2, <1>3 DEF OwnInv, FoundInv, OwnLogLives, OwnContexts, ServesItsInit

LEMMA OwnRestart == Restart => OwnInv' /\ FoundInv'
<1> SUFFICES ASSUME Restart PROVE OwnInv' /\ FoundInv'
  OBVIOUS
<1>1. DOMAIN context' = {}
  BY DEF Restart, NoContext
<1>2. \A s \in Searchers : stream'[s] = None /\ service'[s] = None
  BY DEF Restart
<1>3. answer'.paths = None /\ logger' = "null"
  BY DEF Restart, NoAnswer
<1> QED
  BY <1>1, <1>2, <1>3 DEF OwnInv, FoundInv, OwnLogLives, OwnContexts, ServesItsInit

LEMMA OwnStep == TypeOK /\ OwnInv /\ [Next]_vars => OwnInv'
<1> SUFFICES ASSUME TypeOK, OwnInv, [Next]_vars PROVE OwnInv'
  OBVIOUS
<1>1. CASE UNCHANGED <<handles, context, log>>
  BY <1>1 DEF handles, log, OwnInv, OwnLogLives
<1>2. ASSUME NEW s \in Searchers, OpenStream(s)
      PROVE  /\ \A t \in Searchers : opened[t] <= opened'[t]
             /\ \A t \in Searchers : stream'[t] # None => stream'[t][1] = t
             /\ live \subseteq live'
  <2>1. opened[s] \in Nat /\ opened' = [opened EXCEPT ![s] = @ + 1]
    BY <1>2 DEF OpenStream, TypeOK
  <2>2. \A t \in Searchers : opened[t] <= opened'[t]
    BY <2>1 DEF TypeOK
  <2>3. <<s, opened[s] + 1>>[1] = s
    OBVIOUS
  <2>4. \A t \in Searchers : stream'[t] # None => stream'[t][1] = t
    BY <1>2, <2>3 DEF OpenStream, OwnInv, TypeOK
  <2> QED
    BY <1>2, <2>2, <2>4 DEF OpenStream
<1>3. ASSUME NEW s \in Searchers, InitThrows(s) PROVE OwnInv'
  <2>1. OpenStream(s) /\ UNCHANGED <<service, context, logger, logStream, last, cleaned>>
    BY <1>3 DEF InitThrows, pools, log
  <2>2. \A t \in Searchers : service[t] # None => service[t][2] <= opened'[t]
    BY <2>1, <1>2, StreamNames DEF OwnInv, OpenStream, TypeOK
  <2>3. \A c \in DOMAIN context : c[2] <= opened'[c[1]]
    BY <2>1, <1>2, StreamNames DEF OwnInv, OpenStream, TypeOK
  <2>4. OwnLogLives'
    BY <2>1, <1>2 DEF OwnInv, OwnLogLives
  <2> QED
    BY <2>1, <1>2, <2>2, <2>3, <2>4 DEF OwnInv
<1>4. ASSUME NEW s \in Searchers, NEW p \in Parameters, InitServes(s, p) PROVE OwnInv'
  <2> DEFINE new == <<s, opened[s] + 1>>
  <2>1. /\ OpenStream(s) /\ service' = [service EXCEPT ![s] = new]
        /\ logStream' = new /\ new \in live'
        /\ DOMAIN context' = DOMAIN context \cup {new}
        /\ last' = <<new[1]>> /\ UNCHANGED cleaned
        /\ logger' = IF logger = "null" THEN "live" ELSE logger
    BY <1>4 DEF InitServes, LogInit, AddContext, OpenStream
  <2>2. new[1] = s /\ new[2] = opened[s] + 1 /\ new[2] <= opened'[s]
    BY <2>1 DEF OpenStream, TypeOK
  <2>3. \A t \in Searchers : service'[t] # None =>
            service'[t][1] = t /\ service'[t][2] <= opened'[t]
    <3> SUFFICES ASSUME NEW t \in Searchers, service'[t] # None
                 PROVE  service'[t][1] = t /\ service'[t][2] <= opened'[t]
      OBVIOUS
    <3>1. CASE t = s
      BY <3>1, <2>1, <2>2 DEF TypeOK
    <3>2. CASE t # s
      <4>1. service'[t] = service[t] /\ opened'[t] = opened[t]
        BY <3>2, <2>1 DEF OpenStream, TypeOK
      <4> QED
        BY <4>1 DEF OwnInv
    <3> QED
      BY <3>1, <3>2
  <2>4. \A c \in DOMAIN context' : c[2] <= opened'[c[1]]
    <3>1. \A c \in DOMAIN context : c[2] <= opened'[c[1]]
      BY <2>1, <1>2, StreamNames DEF OwnInv, OpenStream, TypeOK
    <3> QED
      BY <3>1, <2>1, <2>2
  <2>6. logger' = "deleted" => cleaned'
    BY <2>1 DEF OwnInv
  <2>5. OwnLogLives'
    <3> SUFFICES ASSUME NEW t \in Searchers, last' = <<t>>, ~ cleaned'
                 PROVE  logger' = "live" /\ logStream' \in live' /\ logStream'[1] = t
      BY DEF OwnLogLives
    <3>1. logStream'[1] = t
      BY <2>1
    <3>2. logger' \in {"live", "deleted"}
      BY <2>1 DEF TypeOK
    <3> QED
      BY <2>1, <2>6, <3>1, <3>2
  <2> QED
    BY <2>1, <1>2, <2>3, <2>4, <2>5, <2>6 DEF OwnInv
<1>5. ASSUME NEW s \in Searchers, Finalize(s) \/ Forget(s) PROVE OwnInv'
  <2>1. /\ service' = [service EXCEPT ![s] = None]
        /\ stream' = [stream EXCEPT ![s] = None]
        /\ UNCHANGED <<opened, context, logger, logStream, last, cleaned>>
        /\ live \ {stream[s]} \subseteq live'
    BY <1>5 DEF Finalize, Forget, pools, log
  <2>2. ASSUME NEW t \in Searchers, last' = <<t>>, service'[t] # None, ~ cleaned'
        PROVE  logger' = "live" /\ logStream' \in live' /\ logStream'[1] = t
    <3>1. t # s /\ service[t] # None
      BY <2>1, <2>2 DEF TypeOK
    <3>2. logger = "live" /\ logStream \in live /\ logStream[1] = t
      BY <2>1, <2>2, <3>1 DEF OwnInv, OwnLogLives
    <3>3. logStream # stream[s]
      BY <3>1, <3>2, StreamNames DEF OwnInv, TypeOK
    <3> QED
      BY <2>1, <3>2, <3>3
  <2>3. OwnLogLives'
    BY <2>2 DEF OwnLogLives
  <2> QED
    BY <2>1, <2>3 DEF OwnInv, TypeOK
<1>6. CASE CleanFactory
  <2>1. DOMAIN context' \subseteq DOMAIN context
    <3>1. context' = NoContext \/ context' = context
      BY <1>6 DEF CleanFactory, CleanLayers
    <3>2. DOMAIN NoContext = {}
      BY DEF NoContext
    <3> QED
      BY <3>1, <3>2
  <2>2. UNCHANGED <<opened, stream, service>> /\ cleaned' = TRUE
    BY <1>6 DEF CleanFactory
  <2> QED
    BY <2>1, <2>2 DEF OwnInv, OwnLogLives
<1>7. CASE Restart
  BY <1>7, OwnRestart
<1>8. CASE Quietly \/ Leaving \/ UNCHANGED vars
  <2>1. UNCHANGED <<handles, context, log>>
    BY <1>8 DEF Quietly, Quiet, Leaving, vars, pools, log, handles
  <2> QED
    BY <2>1, <1>1
<1> QED
  BY <1>3, <1>4, <1>5, <1>6, <1>7, <1>8, Steps

LEMMA OwnInvariance == Spec => [](TypeOK /\ OwnInv)
  BY TypeInit, TypeStep, OwnInit, OwnStep, PTL DEF Spec

(***************************************************************************)
(* Until the first cleanFactory() of the process, whatever is done with    *)
(* the other searchers, the last one that was initialised with success     *)
(* logs to a stream of its own that is still there, as long as it has a    *)
(* service.                                                                *)
(***************************************************************************)
THEOREM OwnLogAlways == Spec => []OwnLogLives
<1>1. OwnInv => OwnLogLives
  BY DEF OwnInv
<1> QED
  BY <1>1, OwnInvariance, PTL

-----------------------------------------------------------------------------
LEMMA SupervisedInit == Init => AllSupervised
<1> SUFFICES ASSUME Init PROVE AllSupervised
  OBVIOUS
<1>1. DOMAIN context = {} /\ \A f \in Factory : pool[f] = 0
  BY DEF Init, NoContext
<1>2. registered = factory /\ factory = {} /\ known = FALSE /\ logger = "null"
  BY DEF Init
<1> QED
  BY <1>1, <1>2 DEF AllSupervised

LEMMA CreateSupervised ==
    ASSUME TypeOK, AllSupervised, NEW fs \in SUBSET Factory, Create(fs)
    PROVE  /\ registered' = factory'
           /\ factory' # {} => supervisor'
           /\ supervisor => supervisor'
           /\ factory \subseteq factory' /\ fs \subseteq factory'
           /\ \A f \in Factory : pool[f] <= pool'[f] /\ (pool'[f] > 0 => f \in factory')
<1>1. registered' = factory'
  BY DEF Create, AllSupervised
<1>2. (factory' # {} => supervisor') /\ (supervisor => supervisor')
  BY DEF Create, AllSupervised, TypeOK
<1>3. MaxLeft \in Nat
  BY SessionAssumption DEF SessionAssumption
<1>4. \A f \in Factory : pool[f] <= pool'[f] /\ (pool'[f] > 0 => f \in factory')
  BY <1>3 DEF Create, AllSupervised, TypeOK
<1> QED
  BY <1>1, <1>2, <1>4 DEF Create

LEMMA SupervisedStep == TypeOK /\ AllSupervised /\ [Next]_vars => AllSupervised'
<1> SUFFICES ASSUME TypeOK, AllSupervised, [Next]_vars PROVE AllSupervised'
  OBVIOUS
<1>1. CASE UNCHANGED <<pools, log>>
  BY <1>1 DEF pools, log, AllSupervised
<1>2. CASE Quietly \/ UNCHANGED vars
  BY <1>1, <1>2 DEF Quietly, Quiet, vars
<1>3. CASE Leaving
  <2>1. PICK left \in SUBSET Factory :
            Create(left) /\ UNCHANGED <<context, logger, known>>
    BY <1>3 DEF Leaving, log
  <2> QED
    BY <2>1, CreateSupervised DEF AllSupervised
<1>4. ASSUME NEW s \in Searchers, InitThrows(s) \/ Finalize(s) \/ Forget(s) PROVE AllSupervised'
  BY <1>1, <1>4 DEF InitThrows, Finalize, Forget
<1>5. ASSUME NEW s \in Searchers, NEW p \in Parameters, InitServes(s, p) PROVE AllSupervised'
  <2>1. Create(OneService) /\ OneService \in SUBSET Factory
    BY <1>5, Leaves DEF InitServes
  <2>2. known' <=> logger' = "live"
    BY <1>5 DEF InitServes, LogInit, AllSupervised, TypeOK
  <2>3. "ServiceContext" \in OneService
    BY DEF OneService
  <2> QED
    BY <2>1, <2>2, <2>3, CreateSupervised DEF AllSupervised
<1>6. CASE CleanFactory
  <2>1. factory' = {} /\ registered' = {}
    BY <1>6 DEF CleanFactory, CleanLayers, AllSupervised
  <2>2. \A f \in Factory : ~ (pool'[f] > 0)
    <3> SUFFICES ASSUME NEW f \in Factory PROVE ~ (pool'[f] > 0)
      OBVIOUS
    <3>1. pool[f] \in 0..MaxLeft /\ MaxLeft \in Nat
      BY SessionAssumption DEF TypeOK, SessionAssumption
    <3> QED
      BY <1>6, <3>1 DEF CleanFactory, CleanLayers, AllSupervised
  <2>3. DOMAIN context' = {}
    <3>1. "ServiceContext" \in registered => context' = NoContext
      BY <1>6 DEF CleanFactory, CleanLayers
    <3>2. "ServiceContext" \notin registered => context' = context /\ DOMAIN context = {}
      BY <1>6 DEF CleanFactory, CleanLayers, AllSupervised
    <3>3. DOMAIN NoContext = {}
      BY DEF NoContext
    <3> QED
      BY <3>1, <3>2, <3>3
  <2>4. known' = FALSE /\ logger' # "live"
    BY <1>6 DEF CleanFactory, AllSupervised
  <2> QED
    BY <2>1, <2>2, <2>3, <2>4 DEF AllSupervised
<1>7. CASE Restart
  <2>1. DOMAIN context' = {} /\ \A f \in Factory : pool'[f] = 0
    BY <1>7 DEF Restart, NoContext
  <2>2. registered' = factory' /\ factory' = {} /\ known' = FALSE /\ logger' = "null"
    BY <1>7 DEF Restart
  <2> QED
    BY <2>1, <2>2 DEF AllSupervised
<1> QED
  BY <1>2, <1>3, <1>4, <1>5, <1>6, <1>7, Steps

LEMMA SupervisedInvariance == Spec => [](TypeOK /\ AllSupervised)
  BY TypeInit, TypeStep, SupervisedInit, SupervisedStep, PTL DEF Spec

(***************************************************************************)
(* Whatever the searchers do, the supervisor knows all that is to be       *)
(* cleaned, and nothing else.                                              *)
(***************************************************************************)
THEOREM SupervisedAlways == Spec => []AllSupervised
  BY SupervisedInvariance, PTL

-----------------------------------------------------------------------------
LEMMA FoundStep ==
    TypeOK /\ OwnInv /\ AllSupervised /\ FoundInv /\ [Next]_vars => FoundInv'
<1> SUFFICES ASSUME TypeOK, OwnInv, AllSupervised, FoundInv, [Next]_vars PROVE FoundInv'
  OBVIOUS
<1>0. OwnContexts
  BY DEF FoundInv
<1>1. ASSUME OwnContexts', answer'.paths = None PROVE FoundInv'
  BY <1>1 DEF FoundInv, ServesItsInit
<1>2. ASSUME UNCHANGED <<service, asked, context>> PROVE OwnContexts'
  BY <1>0, <1>2 DEF OwnContexts
<1>3. CASE UNCHANGED vars
  BY <1>3 DEF vars, handles, pools, FoundInv, OwnContexts, ServesItsInit
<1>4. CASE Quietly
  <2>1. UNCHANGED <<service, asked, context>> /\ OwnContexts'
    BY <1>2, <1>4 DEF Quietly, Quiet, handles, pools
  <2>2. CASE answer'.paths = None
    BY <2>1, <2>2, <1>1
  <2>3. CASE answer' = answer
    BY <2>1, <2>3 DEF FoundInv, ServesItsInit
  <2>4. CASE Told
    <3>1. PICK s \in Searchers :
              /\ service[s] # None /\ service[s] \in DOMAIN context
              /\ answer' = [by |-> <<s>>, what |-> "paths",
                            paths |-> PathsOf(context[service[s]])]
      BY <2>4 DEF Told, ContextGone
    <3>2. asked'[s] # None /\ context[service[s]] = asked'[s][1]
      BY <3>1, <2>1, <1>0 DEF OwnContexts
    <3>3. answer'.by = <<s>> /\ answer'.paths = PathsOf(asked'[s][1])
      BY <3>1, <3>2
    <3> QED
      BY <2>1, <3>2, <3>3 DEF FoundInv, ServesItsInit
  <2> QED
    BY <1>4, <2>2, <2>3, <2>4 DEF Quietly
<1>5. CASE Leaving
  BY <1>1, <1>2, <1>5 DEF Leaving, handles
<1>6. ASSUME NEW s \in Searchers, InitThrows(s) PROVE FoundInv'
  BY <1>1, <1>2, <1>6 DEF InitThrows, pools, Return
<1>7. ASSUME NEW s \in Searchers, NEW p \in Parameters, InitServes(s, p) PROVE FoundInv'
  <2> DEFINE new == <<s, opened[s] + 1>>
  <2>1. /\ service' = [service EXCEPT ![s] = new]
        /\ asked' = [asked EXCEPT ![s] = <<p>>]
        /\ context' = [c \in DOMAIN context \cup {new} |-> IF c = new THEN p ELSE context[c]]
        /\ answer'.paths = None
    BY <1>7 DEF InitServes, AddContext, Return
  <2>2. <<p>> # None /\ <<p>>[1] = p
    BY DEF None
  <2>3. ASSUME NEW t \in Searchers, service'[t] # None,
               asked'[t] # None \/ service'[t] \in DOMAIN context'
        PROVE  /\ service'[t] \in DOMAIN context' /\ asked'[t] # None
               /\ context'[service'[t]] = asked'[t][1]
    <3>1. CASE t = s
      BY <3>1, <2>1, <2>2 DEF TypeOK
    <3>2. CASE t # s
      <4>1. service'[t] = service[t] /\ asked'[t] = asked[t]
        BY <3>2, <2>1 DEF TypeOK
      <4>2. service[t] # new
        <5>1. service[t][1] = t /\ new[1] = s
          BY <2>3, <4>1 DEF OwnInv
        <5> QED
          BY <5>1, <3>2
      <4>3. /\ service[t] \in DOMAIN context /\ asked[t] # None
            /\ context[service[t]] = asked[t][1]
        BY <2>1, <2>3, <4>1, <4>2, <1>0 DEF OwnContexts
      <4> QED
        BY <2>1, <4>1, <4>2, <4>3
    <3> QED
      BY <3>1, <3>2
  <2>4. OwnContexts'
    BY <2>3 DEF OwnContexts
  <2> QED
    BY <1>1, <2>1, <2>4
<1>8. ASSUME NEW s \in Searchers, Finalize(s) \/ Forget(s) PROVE FoundInv'
  <2>1. /\ service' = [service EXCEPT ![s] = None]
        /\ UNCHANGED <<asked, context>>
    BY <1>8 DEF Finalize, Forget, pools
  <2>2. answer'.paths = None
    <3>1. CASE Finalize(s)
      BY <3>1 DEF Finalize, Return
    <3>2. CASE Forget(s)
      BY <3>2 DEF Forget, NoAnswer
    <3> QED
      BY <1>8, <3>1, <3>2
  <2>3. OwnContexts'
    BY <2>1, <1>0 DEF OwnContexts, TypeOK
  <2> QED
    BY <1>1, <2>2, <2>3
<1>9. CASE CleanFactory
  <2>1. answer'.paths = None /\ \A s \in Searchers : asked'[s] = None
    BY <1>9 DEF CleanFactory, NoAnswer
  <2>2. DOMAIN context' = {}
    <3>1. "ServiceContext" \in registered => context' = NoContext
      BY <1>9 DEF CleanFactory, CleanLayers
    <3>2. "ServiceContext" \notin registered => context' = context /\ DOMAIN context = {}
      BY <1>9 DEF CleanFactory, CleanLayers, AllSupervised
    <3>3. DOMAIN NoContext = {}
      BY DEF NoContext
    <3> QED
      BY <3>1, <3>2, <3>3
  <2>3. OwnContexts'
    BY <2>1, <2>2 DEF OwnContexts
  <2> QED
    BY <1>1, <2>1, <2>3
<1>10. CASE Restart
  BY <1>10, OwnRestart
<1> QED
  BY <1>3, <1>4, <1>5, <1>6, <1>7, <1>8, <1>9, <1>10, Steps

LEMMA FoundInvariance == Spec => [](TypeOK /\ FoundInv)
<1>1. Spec => [](TypeOK /\ OwnInv)
  BY OwnInvariance
<1>2. Spec => []AllSupervised
  BY SupervisedAlways
<1> QED
  BY <1>1, <1>2, OwnInit, FoundStep, PTL DEF Spec

(***************************************************************************)
(* The paths a searcher tells are those of its own last init() that made a *)
(* service, however many others share the factory of the contexts.         *)
(***************************************************************************)
THEOREM ServesItsInitAlways == Spec => []ServesItsInit
<1>1. FoundInv => ServesItsInit
  BY DEF FoundInv
<1> QED
  BY <1>1, FoundInvariance, PTL

(***************************************************************************)
(* Until the next cleanFactory(), nothing that the searchers do deletes    *)
(* the context of a service, or changes its parameters.                    *)
(***************************************************************************)
THEOREM ContextKeptAlways == Spec => []ContextKept
<1>1. FoundInv => ContextKept
  BY DEF FoundInv, OwnContexts, ContextKept
<1> QED
  BY <1>1, FoundInvariance, PTL
=============================================================================
