------------------------------ MODULE Resources ------------------------------
(***************************************************************************)
(* The resource manager, the libraries of the annotators it keeps, the log *)
(* and the handlers of sofa streams registered with it, and the primitive  *)
(* engines whose annotators live in those libraries.  A library is loaded  *)
(* for the first engine that names it and kept until the manager is        *)
(* deleted; every engine of it uses the same one.                          *)
(* The application creates and deletes the manager and engines in any      *)
(* order it likes.                                                         *)
(***************************************************************************)
EXTENDS Integers, Sequences, FiniteSets

CONSTANTS Engines,        \* the engines the application makes
          Libraries,      \* good annotator libraries
          BadLibraries,   \* [missing, noMaker, noAnnotator : names] that fail
          HandlerMaps,    \* values of UIMACPP_STREAMHANDLERS: sequences of <<scheme, library>>
          MaxManagers     \* bound of the managers made one after the other

\* A library that is missing is none of the good ones.
ASSUME ResourcesAssumption == Libraries \cap BadLibraries.missing = {}

VARIABLES
    rUp,         \* cv_pclSingletonInstance
    rMade,       \* the managers made so far
    rHandlers,   \* iv_streamhandlers
    rLoaded,     \* the annotator files in iv_resources, in order
    rLoads,      \* rLoads[l]: times the library was loaded and not unloaded
    rLogMutex,   \* logPool and logMutex of log.cpp: "none", "live", "gone"
    rEngine,     \* rEngine[e]: "none", "ready", "destroyed"
    rFile,       \* rFile[e]: iv_cpclFile of its annotator proxy
    rAnnotator,  \* rAnnotator[e]: the library of its annotator
    rLeft,       \* libraries of annotators whose destroy() threw: never deleted
    rEarly,      \* a manager was deleted before the engines that use it
    rDead        \* what was used after it was gone: of {"library", "log"}

rVars == <<rUp, rMade, rHandlers, rLoaded, rLoads, rLogMutex, rEngine, rFile, rAnnotator, rLeft, rEarly, rDead>>
rManager == <<rUp, rMade, rHandlers, rLogMutex, rEarly>>

NoLibrary == "none"
AllLibraries == Libraries \cup UNION {BadLibraries[k] : k \in DOMAIN BadLibraries}

RInit ==
    /\ rUp = FALSE /\ rMade = 0
    /\ rHandlers = <<>> /\ rLoaded = <<>>
    /\ rLoads = [l \in AllLibraries |-> 0]
    /\ rLogMutex = "none"
    /\ rEngine = [e \in Engines |-> "none"]
    /\ rFile = [e \in Engines |-> NoLibrary]
    /\ rAnnotator = [e \in Engines |-> NoLibrary]
    /\ rLeft = {} /\ rEarly = FALSE /\ rDead = {}

\* LogFacility::doLog(): the mutex is one for all logs.
DoLog == IF rLogMutex = "live" THEN {} ELSE {"log"}

\* A call of the annotator, or of the library that makes it.
CallInto(l) == IF rLoads[l] > 0 THEN {} ELSE {"library"}

----------------------------------------------------------------------------
(* The manager *)

\* registerStreamHandlerForURIScheme(): a scheme has one handler.
Registered(handlers, scheme) == \E k \in DOMAIN handlers : handlers[k][1] = scheme

RegisterStreamHandlerForURIScheme(handlers, scheme, library) ==
    IF Registered(handlers, scheme) THEN "exception" ELSE Append(handlers, <<scheme, library>>)

\* The constructor registers what the environment variable names.  A scheme without
\* a library is passed over.
HandlersOf(map) == SelectSeq(map, LAMBDA h : h[2] # "")
HandlersClash(map) == \E j, k \in DOMAIN HandlersOf(map) : j < k /\ HandlersOf(map)[j][1] = HandlersOf(map)[k][1]

\* LogFacility::LogFacility(): the pool of the mutex is made once in the process.
LogMutexOfNewLog == IF rLogMutex = "none" THEN "live" ELSE rLogMutex

\* createInstance(): a manager there is is kept.
CreateInstance(map) ==
    /\ ~rUp /\ rMade < MaxManagers /\ ~HandlersClash(map)
    /\ rUp' = TRUE /\ rMade' = rMade + 1
    /\ rHandlers' = HandlersOf(map)
    /\ rLogMutex' = LogMutexOfNewLog
    /\ rDead' = rDead \cup (IF rLogMutex = "gone" THEN {"log"} ELSE {})
    /\ UNCHANGED <<rLoaded, rLoads, rEngine, rFile, rAnnotator, rLeft, rEarly>>

RegisterHandler(scheme, library) ==
    /\ rUp
    /\ LET handlers == RegisterStreamHandlerForURIScheme(rHandlers, scheme, library)
       IN /\ ~Registered(rHandlers, scheme) /\ rHandlers' = handlers
          /\ UNCHANGED <<rUp, rMade, rLoaded, rLoads, rLogMutex, rEngine, rFile, rAnnotator, rLeft, rEarly, rDead>>

\* ~ResourceManager(): deInit() of every annotator file, the last loaded first.
ReleaseResources == /\ rLoads' = [l \in AllLibraries |-> 0]
                    /\ rLoaded' = <<>>

\* deleteInstance(): apr_terminate() destroys the pool of the log's mutex, and
\* nothing forgets it.
InUse == \E e \in Engines : rEngine[e] # "none"

DeleteInstance ==
    /\ rUp
    /\ rUp' = FALSE /\ rHandlers' = <<>>
    /\ ReleaseResources
    /\ rDead' = rDead \cup DoLog
    /\ rLogMutex' = "gone"
    /\ rEarly' = (rEarly \/ InUse)
    /\ UNCHANGED <<rMade, rEngine, rFile, rAnnotator, rLeft>>

----------------------------------------------------------------------------
(* Annotator files *)

\* ResourceAnnotatorFile::init(): the loader of the operating system.
AnnotatorFileInit(l) == IF l \in BadLibraries.missing THEN "error" ELSE "loaded"

Cached(l) == \E k \in DOMAIN rLoaded : rLoaded[k] = l

\* getResource() keeps what was initialized, under its kind and key.
GetResource(l) ==
    IF Cached(l) \/ AnnotatorFileInit(l) = "error" THEN UNCHANGED <<rLoaded, rLoads>>
    ELSE /\ rLoaded' = Append(rLoaded, l)
         /\ rLoads' = [rLoads EXCEPT ![l] = @ + 1]

\* AnnotatorProxy::unload() gives up the pointer only.
Unload(l) == UNCHANGED <<rLoaded, rLoads>>

----------------------------------------------------------------------------
(* Engines *)

\* deInit(): destroy(), and the annotator is deleted unless destroy() threw.
DeInit(e, destroys) ==
    /\ rAnnotator' = [rAnnotator EXCEPT ![e] = NoLibrary]
    /\ rLeft' = IF destroys = "throws" THEN rLeft \cup {rAnnotator[e]} ELSE rLeft

\* createAnalysisEngine() without a manager.
RefuseEngine(e) ==
    /\ ~rUp /\ rEngine[e] = "none" /\ UNCHANGED rVars

\* The library is not found: requestAnnotatorFile() throws out of load().
EngineWithoutFile(e, l) ==
    /\ rUp /\ rEngine[e] = "none"
    /\ AnnotatorFileInit(l) = "error" /\ GetResource(l)
    /\ rDead' = rDead \cup DoLog
    /\ UNCHANGED <<rManager, rEngine, rFile, rAnnotator, rLeft>>

\* init_now(): no makeAE(), or it makes nothing.  The library stays loaded.
EngineWithoutAnnotator(e, l) ==
    /\ rUp /\ rEngine[e] = "none"
    /\ l \in BadLibraries.noMaker \cup BadLibraries.noAnnotator
    /\ GetResource(l)
    /\ rDead' = rDead \cup DoLog
    /\ UNCHANGED <<rManager, rEngine, rFile, rAnnotator, rLeft>>

\* initialize() or typeSystemInit() of the annotator fails: destroy() and deInit()
\* before the engine is deleted.
EngineNotInitialized(e, l, destroys) ==
    /\ rUp /\ rEngine[e] = "none" /\ l \in Libraries
    /\ GetResource(l)
    /\ rDead' = rDead \cup DoLog
    /\ rLeft' = IF destroys = "throws" THEN rLeft \cup {l} ELSE rLeft
    /\ UNCHANGED <<rManager, rEngine, rFile, rAnnotator>>

CreateEngine(e, l) ==
    /\ rUp /\ rEngine[e] = "none" /\ l \in Libraries
    /\ GetResource(l)
    /\ rEngine' = [rEngine EXCEPT ![e] = "ready"]
    /\ rFile' = [rFile EXCEPT ![e] = l]
    /\ rAnnotator' = [rAnnotator EXCEPT ![e] = l]
    /\ rDead' = rDead \cup DoLog
    /\ UNCHANGED <<rManager, rLeft>>

\* process(), batchProcessComplete(), collectionProcessComplete(), reconfigure(),
\* hasNext(), next(), getCasInstancesRequired(): each goes to the annotator, and
\* what it throws is logged.
CallAnnotator(e) ==
    /\ rEngine[e] = "ready"
    /\ \E throws \in BOOLEAN :
          rDead' = rDead \cup CallInto(rAnnotator[e]) \cup (IF throws THEN DoLog ELSE {})
    /\ UNCHANGED <<rManager, rLoaded, rLoads, rEngine, rFile, rAnnotator, rLeft>>

\* destroyImpl(): deInit(), and the proxy is deleted, which unloads.
DestroyEngine(e) ==
    /\ rEngine[e] = "ready"
    /\ \E destroys \in {"returns", "throws"} :
          /\ DeInit(e, destroys)
          /\ IF destroys = "throws"
             THEN /\ rDead' = rDead \cup CallInto(rAnnotator[e]) \cup DoLog
                  /\ UNCHANGED <<rFile, rLoaded, rLoads>>
             ELSE /\ rDead' = rDead \cup CallInto(rAnnotator[e])
                  /\ rFile' = [rFile EXCEPT ![e] = NoLibrary]
                  /\ Unload(rFile[e])
    /\ rEngine' = [rEngine EXCEPT ![e] = "destroyed"]
    /\ UNCHANGED rManager

DeleteEngine(e) ==
    /\ rEngine[e] = "destroyed"
    /\ rEngine' = [rEngine EXCEPT ![e] = "none"]
    /\ rFile' = [rFile EXCEPT ![e] = NoLibrary]
    /\ UNCHANGED <<rManager, rLoaded, rLoads, rAnnotator, rLeft, rDead>>

----------------------------------------------------------------------------
RNext ==
    \/ \E map \in HandlerMaps : CreateInstance(map)
    \/ \E map \in HandlerMaps : \E k \in DOMAIN map : RegisterHandler(map[k][1], map[k][2])
    \/ DeleteInstance
    \/ \E e \in Engines :
          \/ RefuseEngine(e) \/ CallAnnotator(e) \/ DestroyEngine(e) \/ DeleteEngine(e)
          \/ \E l \in AllLibraries :
                \/ EngineWithoutFile(e, l) \/ EngineWithoutAnnotator(e, l) \/ CreateEngine(e, l)
                \/ \E destroys \in {"returns", "throws"} : EngineNotInitialized(e, l, destroys)

RSpec == RInit /\ [][RNext]_rVars

----------------------------------------------------------------------------
(* A library is loaded as long as an engine has an annotator of it,        *)
(* whatever other engines of it are destroyed or fail, and no log is       *)
(* written through a mutex that is gone: unless the manager was deleted    *)
(* before an engine, or is a second one, whose logs use the mutex of the   *)
(* first.                                                                  *)
UsedWhileTheyLive ==
    /\ ~rEarly => "library" \notin rDead /\ \A e \in Engines : rEngine[e] = "ready" => rLoads[rAnnotator[e]] = 1
    /\ ~rEarly /\ rMade <= 1 => "log" \notin rDead
=============================================================================
