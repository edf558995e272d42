---------------------------- MODULE AggregateEngine ----------------------------
(***************************************************************************)
(* An AggregateEngine with its AnnotatorManager and its delegate engines,  *)
(* from Framework::createAnalysisEngine() to the destructor.               *)
(*                                                                         *)
(* A delegate is a PrimitiveEngine, which runs one C++ annotator, or an    *)
(* engine known by EngineContract only: a nested aggregate or a Java       *)
(* engine.  Each loop of the AnnotatorManager over the delegates takes one *)
(* step per delegate, and whatever an annotator answers is a choice.       *)
(*                                                                         *)
(* Covered: creation, process with fixed and capability language flow,     *)
(* reconfigure, batch and collection completion, reinitTypeSystem, destroy *)
(* and deletion; errors and exceptions of annotators at every call;        *)
(* capability containers that cannot be built.  Not covered: the search    *)
(* for descriptors and libraries, CAS multipliers (hasNext, next), what an *)
(* annotator does to the CAS, running out of memory.                       *)
(***************************************************************************)
EXTENDS Integers, FiniteSets

CONSTANTS
    NumDelegates,  \* length of the flow
    Primitive,     \* the delegates that are PrimitiveEngines
    SofaAware,     \* the delegates that declare Sofas: they are sent the base CAS
    Tofs,          \* types or features a result specification may ask for
    Languages,
    Output,        \* Output[d][l]: getOutputTypeOrFeatures() of d for language l
    FixedFlow,     \* FlowConstraints::FIXED, otherwise CAPABILITY_LANGUAGE
    MaxCalls       \* bound: calls on the engine before it is deleted

Delegates == 1 .. NumDelegates

ASSUME AggregateAssumption ==
    /\ NumDelegates \in Nat \ {0}
    /\ Primitive \subseteq Delegates
    /\ SofaAware \subseteq Delegates
    /\ Output \in [Delegates -> [Languages -> SUBSET Tofs]]
    /\ FixedFlow \in BOOLEAN
    /\ MaxCalls \in Nat

VARIABLES
    op,         \* the call in progress, or the last one
    pc,         \* where it is; "idle": no call is in progress
    idx,        \* position in the loop over the delegates
    rc,         \* utRetVal of that loop
    result,     \* what the last call gave its caller
    rootState,  \* iv_state of the aggregate, "deleted" once the object is gone
    entries,    \* iv_vecEntries holds the delegates 1 .. entries
    engine,     \* iv_state of each delegate, "absent" when there is no object
    annotators, \* what has been done with the annotators of each delegate
    container,  \* iv_pCapabilityContainer of each entry; "freed": it dangles
    request,    \* the arguments of process()
    resSpec,    \* the copy of the result specification
    asked,      \* history: result specification each delegate was called with
    answer,     \* history: what each delegate returned from process()
    unreported, \* history: primitives whose annotator returned an error id from process()
    refused,    \* history: delegates whose capability container could not be built
    undefined,  \* a freed or missing object has been used
    calls       \* calls made so far

controlVars == <<op, pc, idx, rc, result, calls>>
delegateVars == <<entries, engine, annotators, container, refused, undefined>>
processVars == <<request, resSpec, asked, answer, unreported>>
vars == <<controlVars, rootState, delegateVars, processVars>>

NoRequest == [lang |-> "none", tofs |-> {}, text |-> FALSE]
Requests == [lang : Languages, tofs : SUBSET Tofs, text : BOOLEAN]

Init ==
    /\ op = "none" /\ pc = "idle" /\ idx = 0 /\ rc = "ok" /\ result = "none" /\ calls = 0
    /\ rootState = "readyForInit"
    /\ entries = 0
    /\ engine = [d \in Delegates |-> "absent"]
    /\ annotators = [d \in Delegates |-> "none"]
    /\ container = [d \in Delegates |-> "none"]
    /\ request = NoRequest /\ resSpec = {}
    /\ asked = [d \in Delegates |-> {}]
    /\ answer = [d \in Delegates |-> "none"]
    /\ unreported = {} /\ refused = {} /\ undefined = FALSE

-----------------------------------------------------------------------------
\* Control

\* Enter the loop at p over the delegates, beginning with the one at i.
Loop(p, i) == pc' = p /\ idx' = i

Return(r) == pc' = "idle" /\ result' = r /\ UNCHANGED idx

Advance == Loop(pc, idx + 1) /\ UNCHANGED result

KeepLast(code) == rc' = code

\* An error id is kept, and overwrites the one of an earlier delegate.
Keep(code) == rc' = IF code = "ok" THEN rc ELSE "err"

\* launchDeInit() visits the delegates in reverse order.
LaunchDeInit == Loop("deinit", entries) /\ UNCHANGED result

\* What happens next is not defined: the model ends here.
UseUndefined ==
    /\ undefined' = TRUE
    /\ UNCHANGED <<controlVars, rootState, entries, engine, annotators, container, refused, processVars>>

Begin(c) ==
    /\ pc = "idle" /\ ~undefined
    /\ op' = c
    /\ rc' = "ok"
    /\ UNCHANGED result

\* A call other than creation on an engine that exists.
BeginCall(c) ==
    /\ Begin(c)
    /\ rootState \in {"readyForProcess", "readyForDeletion"}
    /\ \/ c = "delete" /\ UNCHANGED calls
       \/ calls < MaxCalls /\ calls' = calls + 1

-----------------------------------------------------------------------------
\* Creation

CreateAnalysisEngine ==
    /\ Begin("create")
    /\ rootState = "readyForInit"
    /\ rootState' = "readyForProcess"   \* before initializeImpl()
    /\ Loop("init", 1)
    /\ UNCHANGED <<calls, delegateVars, processVars>>

LaunchInit ==
    /\ pc = "init" /\ idx <= NumDelegates
    /\ engine' = [engine EXCEPT ![idx] = "readyForProcess"]
    /\ annotators' = [annotators EXCEPT ![idx] = "live"]
    /\ container' = [container EXCEPT ![idx] = "live"]
    /\ entries' = idx
    /\ Advance
    /\ UNCHANGED <<op, rc, calls, rootState, refused, undefined, processVars>>

LaunchInitFailsBare ==
    /\ pc = "init" /\ idx <= NumDelegates
    /\ Loop("deinit", 0)
    /\ UNCHANGED <<op, rc, result, calls, rootState, delegateVars, processVars>>

\* createAnalysisEngine() of a delegate destroys and deletes what it could not initialize.
\* An annotator that exists by then is destroyed, though its initialize() failed.
LaunchInitFails ==
    /\ pc = "init" /\ idx <= NumDelegates
    /\ \E fate \in {"none", "destroyed"} : annotators' = [annotators EXCEPT ![idx] = fate]
    /\ LaunchDeInit
    /\ UNCHANGED <<op, rc, calls, rootState, entries, engine, container, refused, undefined, processVars>>

\* CapabilityContainer::init() throws: the delegate is initialized and not yet an entry.  A
\* primitive has built the same container during its own initialization, and failed there.
LaunchInitThrows ==
    /\ pc = "init" /\ idx <= NumDelegates
    /\ idx \notin Primitive
    /\ engine' = [engine EXCEPT ![idx] = "readyForProcess"]
    /\ annotators' = [annotators EXCEPT ![idx] = "live"]
    /\ refused' = refused \cup {idx}
    /\ rootState' = "readyForDeletion"
    /\ LaunchDeInit
    /\ UNCHANGED <<op, rc, calls, entries, container, undefined, processVars>>

\* Every delegate is there; initializeCompleteResultSpec() may still fail.
InitializeCompleteResultSpec ==
    /\ pc = "init" /\ idx > NumDelegates
    /\ \/ Return("ok") /\ UNCHANGED rootState
       \/ rootState' = "readyForDeletion" /\ LaunchDeInit
    /\ UNCHANGED <<op, rc, calls, delegateVars, processVars>>

-----------------------------------------------------------------------------
\* process()

Process(req) ==
    /\ BeginCall("process")
    /\ Loop("enter", 1)
    /\ request' = req
    /\ resSpec' = req.tofs
    /\ asked' = [d \in Delegates |-> {}]
    /\ answer' = [d \in Delegates |-> "none"]
    /\ unreported' = {}
    /\ UNCHANGED <<rootState, delegateVars>>

\* shouldEngineBeCalled(): an engine without output is called for its side effects.
TofsToBeRemoved(d) == resSpec \cap Output[d][request.lang]
ShouldEngineBeCalled(d) == Output[d][request.lang] = {} \/ TofsToBeRemoved(d) # {}

\* Where launchProcessDocument() handles the delegate d.
AtDelegate(p, d) == pc = p /\ idx = d /\ idx <= entries

ProcessSkipsInPlace(d) ==
    /\ AtDelegate("process", d) /\ container[d] # "freed"
    /\ ~FixedFlow /\ ~ShouldEngineBeCalled(d)
    /\ UNCHANGED vars

ProcessSkips(d) ==
    /\ AtDelegate("process", d) /\ container[d] # "freed"
    /\ ~FixedFlow /\ ~ShouldEngineBeCalled(d)
    /\ Advance
    /\ UNCHANGED <<op, rc, calls, rootState, delegateVars, processVars>>

Callable(d) ==
    /\ AtDelegate("process", d) /\ container[d] # "freed"
    /\ FixedFlow \/ ShouldEngineBeCalled(d)

\* return 99
ProcessHasNoText(d) ==
    /\ Callable(d)
    /\ d \notin SofaAware /\ ~request.text
    /\ Return("err")
    /\ UNCHANGED <<op, rc, calls, rootState, delegateVars, processVars>>

\* What the process() of a delegate may return: the error id of an annotator is
\* lost in PrimitiveEngine::processImpl().
DelegateOutcomes(d) ==
    IF engine[d] # "readyForProcess" THEN {"err"}
    ELSE IF d \in Primitive THEN {"ok", "exc"} ELSE {"ok", "err", "exc"}

RemainingAfterAnyCall(d, out) == resSpec \ TofsToBeRemoved(d)

\* The types and features of a delegate that failed are still wanted.
Remaining(d, out) == IF out = "ok" THEN resSpec \ TofsToBeRemoved(d) ELSE resSpec

ProcessCalls(d) ==
    /\ Callable(d)
    /\ d \in SofaAware \/ request.text
    /\ asked' = [asked EXCEPT ![d] = TofsToBeRemoved(d)]
    /\ \E out \in DelegateOutcomes(d) :
          /\ answer' = [answer EXCEPT ![d] = out]
          /\ resSpec' = Remaining(d, out)
          /\ IF out = "exc" THEN Return("exc") /\ UNCHANGED rc ELSE Advance /\ Keep(out)
          /\ \/ UNCHANGED unreported
             \/ out = "ok" /\ d \in Primitive /\ unreported' = unreported \cup {d}
    /\ UNCHANGED <<op, calls, rootState, delegateVars, request>>

\* The capability container of the delegate dangles.
ProcessUsesFreed(d) ==
    /\ AtDelegate("process", d) /\ container[d] = "freed"
    /\ UseUndefined

LaunchProcessDocument ==
    \E d \in Delegates : ProcessSkips(d) \/ ProcessHasNoText(d) \/ ProcessCalls(d) \/ ProcessUsesFreed(d)

-----------------------------------------------------------------------------
\* reconfigure(), batchProcessComplete(), collectionProcessComplete()

\* AggregateEngine::batchProcessCompleteImpl() runs launchCollectionProcessComplete().
Broadcasts == {"reconfigure", "batchProcessComplete", "collectionProcessComplete"}

Broadcast(c) ==
    /\ BeginCall(c)
    /\ Loop("enter", 1)
    /\ UNCHANGED <<rootState, delegateVars, processVars>>

LaunchBroadcast(d) ==
    /\ AtDelegate("broadcast", d)
    /\ \E out \in (IF engine[d] = "readyForProcess" THEN {"ok", "err"} ELSE {"err"}) : Keep(out)
    /\ Advance
    /\ UNCHANGED <<op, calls, rootState, delegateVars, processVars>>

CheckNothing ==
    /\ pc = "enter" /\ op \in Broadcasts \cup {"process"}
    /\ Loop(IF op = "process" THEN "process" ELSE "broadcast", 1)
    /\ UNCHANGED <<op, rc, result, calls, rootState, delegateVars, processVars>>

\* checkAndSetCallingSequenceProcess(), ...Reconfigure()
CheckCallingSequence ==
    /\ pc = "enter" /\ op \in Broadcasts \cup {"process"}
    /\ IF rootState # "readyForProcess"
       THEN Return("invalid")
       ELSE Loop(IF op = "process" THEN "process" ELSE "broadcast", 1) /\ UNCHANGED result
    /\ UNCHANGED <<op, rc, calls, rootState, delegateVars, processVars>>

\* The loop has visited every delegate.
LoopEnds ==
    /\ pc \in {"process", "broadcast"} /\ idx > entries
    /\ Return(rc)
    /\ UNCHANGED <<op, rc, calls, rootState, delegateVars, processVars>>

-----------------------------------------------------------------------------
\* reinitTypeSystem(): the calling sequence is not checked

ReinitTypeSystem ==
    /\ BeginCall("reinitTypeSystem")
    /\ Loop("reinit", 1)
    /\ UNCHANGED <<rootState, delegateVars, processVars>>

\* A delegate that fails destroys itself; a nested aggregate may also fail and stay as it is.
ReinitDelegate(d, out) ==
    \/ UNCHANGED <<engine, annotators>> /\ (out = "ok" \/ d \notin Primitive \/ engine[d] # "readyForProcess")
    \/ /\ out = "err" /\ engine[d] = "readyForProcess"
       /\ engine' = [engine EXCEPT ![d] = "readyForDeletion"]
       /\ annotators' = [annotators EXCEPT ![d] = "destroyed"]

\* The annotator of a destroyed primitive is gone, and a container is deleted before the
\* new one is initialized: the next call would delete it again.
CannotReinit(d) == container[d] = "freed" \/ (d \in Primitive /\ engine[d] # "readyForProcess")

LaunchReinitTypeSystem(d) ==
    /\ AtDelegate("reinit", d) /\ ~CannotReinit(d)
    /\ \E out \in {"ok", "err"} : ReinitDelegate(d, out) /\ Keep(out)
    /\ Advance
    /\ UNCHANGED <<op, calls, rootState, entries, container, refused, undefined, processVars>>

LaunchReinitThrows(d) ==
    /\ AtDelegate("reinit", d) /\ ~CannotReinit(d)
    /\ \E out \in {"ok", "err"} : ReinitDelegate(d, out)
    /\ container' = [container EXCEPT ![d] = "freed"]
    /\ refused' = refused \cup {d}
    /\ Return("err")
    /\ UNCHANGED <<op, rc, calls, rootState, entries, undefined, processVars>>

LaunchReinitUsesFreed(d) ==
    /\ AtDelegate("reinit", d) /\ CannotReinit(d)
    /\ UseUndefined

\* The result of launchReinitTypeSystem() and of initializeCompleteResultSpec(): the
\* aggregate destroys itself on an error, unless it was destroyed before.
ReinitEnds ==
    /\ pc = "reinit" /\ idx > entries
    /\ \/ rc = "ok" /\ Return("ok") /\ UNCHANGED rootState
       \/ rootState = "readyForProcess" /\ rootState' = "readyForDeletion" /\ LaunchDeInit
       \/ rootState # "readyForProcess" /\ Return("err") /\ UNCHANGED rootState
    /\ UNCHANGED <<op, rc, calls, delegateVars, processVars>>

-----------------------------------------------------------------------------
\* destroy() and deletion

Destroy ==
    /\ BeginCall("destroy")
    /\ Loop("enter", 1)
    /\ UNCHANGED <<rootState, delegateVars, processVars>>

CheckCallingSequenceDestroy ==
    /\ pc = "enter" /\ op = "destroy"
    /\ IF rootState # "readyForProcess"
       THEN Return("invalid") /\ UNCHANGED rootState
       ELSE rootState' = "readyForDeletion" /\ LaunchDeInit
    /\ UNCHANGED <<op, rc, calls, delegateVars, processVars>>

\* ~AggregateEngine() calls destroyIfNeeded(), ~AnnotatorManager() finds no entries left.
Delete ==
    /\ BeginCall("delete")
    /\ IF rootState = "readyForProcess" THEN rootState' = "readyForDeletion" ELSE UNCHANGED rootState
    /\ Loop("deinit", entries)
    /\ UNCHANGED <<delegateVars, processVars>>

DeInitFrontToBack == entries + 1 - idx

\* The reverse_iterator: the loop counts idx down from entries.
DeInitPosition == idx

\* A delegate that is not initialized any more is passed over.  An exception that leaves the
\* destroy() of an annotator becomes an error id.
LaunchDeInitStep ==
    /\ pc = "deinit" /\ idx > 0
    /\ IF engine[DeInitPosition] = "readyForProcess"
       THEN /\ engine' = [engine EXCEPT ![DeInitPosition] = "readyForDeletion"]
            /\ annotators' = [annotators EXCEPT ![DeInitPosition] = "destroyed"]
            /\ \E out \in {"ok", "err"} : Keep(out)
       ELSE UNCHANGED <<engine, annotators, rc>>
    /\ Loop(pc, idx - 1)
    /\ UNCHANGED <<op, result, calls, rootState, entries, container, refused, undefined, processVars>>

\* delete pEngine; delete pCapContainer; clear()
FreeEntries ==
    /\ pc = "deinit" /\ idx = 0
    /\ \A d \in 1 .. entries : container[d] # "freed"
    /\ engine' = [d \in Delegates |-> IF d <= entries THEN "absent" ELSE engine[d]]
    /\ container' = [d \in Delegates |-> IF d <= entries THEN "none" ELSE container[d]]
    /\ entries' = 0
    /\ IF op \in {"create", "delete"}
       THEN rootState' = "deleted" /\ Return(IF op = "create" THEN "null" ELSE "none")
       ELSE UNCHANGED rootState /\ Return(IF op = "destroy" THEN rc ELSE "err")
    /\ UNCHANGED <<op, rc, calls, annotators, refused, undefined, processVars>>

FreesTwice ==
    /\ pc = "deinit" /\ idx = 0
    /\ \E d \in 1 .. entries : container[d] = "freed"
    /\ UseUndefined

-----------------------------------------------------------------------------

\* The owner of the engine calls it ...
Call ==
    \/ CreateAnalysisEngine \/ ReinitTypeSystem \/ Destroy \/ Delete
    \/ \E req \in Requests : Process(req)
    \/ \E c \in Broadcasts : Broadcast(c)

\* ... and the call takes its course.
Step ==
    /\ ~undefined
    /\ \/ LaunchInit \/ LaunchInitFails \/ LaunchInitThrows \/ InitializeCompleteResultSpec
       \/ CheckCallingSequence \/ LaunchProcessDocument \/ LoopEnds
       \/ \E d \in Delegates : LaunchBroadcast(d) \/ LaunchReinitTypeSystem(d)
                               \/ LaunchReinitThrows(d) \/ LaunchReinitUsesFreed(d)
       \/ ReinitEnds \/ CheckCallingSequenceDestroy \/ LaunchDeInitStep \/ FreeEntries \/ FreesTwice

Next == Call \/ Step

\* A call runs on the thread of its caller: it goes on until it returns.
Spec == Init /\ [][Next]_vars /\ WF_vars(Step)

-----------------------------------------------------------------------------
\* Properties

(* Every variable keeps its type. *)
TypeOK ==
    /\ op \in {"none", "create", "process", "reinitTypeSystem", "destroy", "delete"} \cup Broadcasts
    /\ pc \in {"idle", "enter", "init", "process", "broadcast", "reinit", "deinit"}
    /\ idx \in 0 .. NumDelegates + 1
    /\ rc \in {"ok", "err"}
    /\ result \in {"none", "ok", "err", "exc", "invalid", "null"}
    /\ rootState \in {"readyForInit", "readyForProcess", "readyForDeletion", "deleted"}
    /\ entries \in 0 .. NumDelegates
    /\ engine \in [Delegates -> {"absent", "readyForProcess", "readyForDeletion"}]
    /\ annotators \in [Delegates -> {"none", "live", "destroyed"}]
    /\ container \in [Delegates -> {"none", "live", "freed"}]
    /\ request \in Requests \cup {NoRequest}
    /\ resSpec \subseteq Tofs
    /\ asked \in [Delegates -> SUBSET Tofs]
    /\ answer \in [Delegates -> {"none", "ok", "err", "exc"}]
    /\ unreported \subseteq Delegates /\ refused \subseteq Delegates
    /\ undefined \in BOOLEAN
    /\ calls \in 0 .. MaxCalls

(* When the engine is gone, or could not be created, every annotator that was initialized   *)
(* has been destroyed; the exception is a delegate whose capability container threw, which  *)
(* launchInit() had not yet entered.                                                        *)
ReleasedWithTheEngine ==
    rootState = "deleted" =>
        \A d \in Delegates : annotators[d] = "live" => d \in refused /\ d \notin Primitive

(* Freed and missing objects are used only after reinitTypeSystem() was left by an          *)
(* exception of a capability container: no other sequence of calls and failures gets there. *)
UndefinedAfterRefusalOnly == undefined => refused # {}

(* An error or an exception of one delegate neither leaves another one behind nor leads to  *)
(* the use of what has been freed, save after a container was refused.                      *)
FailureIsContained == ReleasedWithTheEngine /\ UndefinedAfterRefusalOnly

(* A process() call asks a delegate for a type or feature exactly when it was requested,    *)
(* the delegate can produce it for the language and no earlier delegate that was asked for  *)
(* it has returned without an error.                                                        *)
Delivered(t, d) == \E e \in 1 .. d - 1 : t \in asked[e] /\ answer[e] = "ok"
Passed(d) == answer[d] # "none" \/ (pc = "process" /\ d < idx)
AskedUntilDelivered ==
    \A d \in Delegates, t \in Tofs :
        Passed(d) => (t \in asked[d] <=>
            t \in request.tofs /\ t \in Output[d][request.lang] /\ ~Delivered(t, d))

(* What process() returns is the truth about the delegates: an error id when one of them    *)
(* returned an error or could not be given its text, an exception when one threw, no error  *)
(* only when each that was called returned none.                                            *)
ResultIsOfTheDelegates ==
    (op = "process" /\ pc = "idle") =>
        /\ result = "ok" => \A d \in Delegates : answer[d] \in {"none", "ok"}
        /\ result = "err" => ~request.text \/ \E d \in Delegates : answer[d] = "err"
        /\ result = "exc" => \E d \in Delegates : answer[d] = "exc"

(* Teardown runs backwards: while launchDeInit() destroys a delegate, no delegate created   *)
(* after it is still in use, so an annotator may use what earlier ones set up.              *)
TornDownInReverse ==
    [][\A d \in Delegates :
        (pc = "deinit" /\ annotators[d] = "live" /\ annotators'[d] = "destroyed")
            => \A e \in d + 1 .. entries : annotators[e] # "live"]_vars

(* A call on the engine returns, unless it runs into a freed object. *)
CallsReturn == pc # "idle" ~> (pc = "idle" \/ undefined)

(* The aggregate keeps the contract it relies on for its delegates. *)
ContractState ==
    IF pc = "idle" \/ op \notin {"create", "destroy", "reinitTypeSystem"} THEN rootState
    ELSE IF op = "create" THEN "readyForInit"
    ELSE IF pc = "deinit" THEN "readyForProcess" ELSE rootState
Contract == INSTANCE EngineContract WITH
    state <- ContractState,
    call <- IF pc = "idle" THEN "none" ELSE op
KeepsContract == Contract!Spec

(* What docs and comments of the code say, and the code does not do. *)

(* An error id that an annotator returns from process() reaches the caller. *)
AnnotatorErrorsReported ==
    (op = "process" /\ pc = "idle" /\ result = "ok") => unreported = {}

(* When creation fails, all annotators have been deinitialized. *)
FailedInitReleasesAll ==
    (op = "create" /\ result = "null") => \A d \in Delegates : annotators[d] # "live"
=============================================================================
