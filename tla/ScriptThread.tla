----------------------------- MODULE ScriptThread -----------------------------
(***************************************************************************)
(* ThreadAnnotator: the Tcl and the Perl annotator run on a thread of      *)
(* their own, because their interpreters belong to the thread that made    *)
(* them.  The caller leaves the method and its arguments in fields of the  *)
(* object, hands a baton to the worker and sleeps until it gets the other  *)
(* one; one mutex guards both condition variables.  A wait that ends       *)
(* without a signal is not modelled.                                       *)
(***************************************************************************)
EXTENDS Naturals

CONSTANT MaxThreadCalls   \* bound: calls before destroy()

VARIABLES
    tCaller,   \* where the engine's thread is
    tWorker,   \* where the worker is
    tMutex,    \* "free" or who holds it
    tSignal,   \* the fields of the object: [method, call]
    tResult,   \* ret: the call whose result it is
    tCalls,    \* calls that were made
    tRuns,     \* calls of the annotator
    tLate      \* the first call came before the worker waited

tVars == <<tCaller, tWorker, tMutex, tSignal, tResult, tCalls, tRuns, tLate>>

tMethods == {"work", "destroy"}

TInit ==
    /\ tCaller = "sleeping" /\ tWorker = "starting" /\ tMutex = "free"
    /\ tSignal = [method |-> "nop", call |-> 0]
    /\ tResult = 0 /\ tCalls = 0 /\ tRuns = 0 /\ tLate = FALSE

\* The worker waits without having locked the mutex: the wait unlocks it, whoever has it.
WorkerReady ==
    /\ tWorker = "starting"
    /\ tWorker' = "waiting"
    /\ tMutex' = "free"
    /\ UNCHANGED <<tCaller, tSignal, tResult, tCalls, tRuns, tLate>>

\* The constructor sleeps a millisecond, whatever the worker does, and then only warns.
Constructed ==
    /\ tCaller = "sleeping" /\ tMutex = "free"
    /\ tCaller' = "idle"
    /\ UNCHANGED <<tWorker, tMutex, tSignal, tResult, tCalls, tRuns, tLate>>

CallThread(m) ==
    /\ tCaller = "idle"
    /\ m = "work" => tCalls < MaxThreadCalls
    /\ tCaller' = "locking"
    /\ tCalls' = tCalls + 1
    /\ tSignal' = [method |-> m, call |-> tCalls + 1]
    /\ UNCHANGED <<tWorker, tMutex, tResult, tRuns, tLate>>

Locked ==
    /\ tCaller = "locking" /\ tMutex = "free"
    /\ tCaller' = "signalling"
    /\ tMutex' = "caller"
    /\ tLate' = (tLate \/ tWorker = "starting")
    /\ UNCHANGED <<tWorker, tSignal, tResult, tCalls, tRuns>>

\* Nobody is woken when nobody waits.
SignalWorker ==
    /\ tCaller = "signalling"
    /\ tCaller' = "passing"
    /\ tWorker' = IF tWorker = "waiting" THEN "woken" ELSE tWorker
    /\ UNCHANGED <<tMutex, tSignal, tResult, tCalls, tRuns, tLate>>

CallerWaits ==
    /\ tCaller = "passing"
    /\ tCaller' = "waiting"
    /\ tMutex' = "free"
    /\ UNCHANGED <<tWorker, tSignal, tResult, tCalls, tRuns, tLate>>

\* The wait takes the mutex again, the worker lets go of it at once.
WorkerResumes ==
    /\ tWorker = "woken" /\ tMutex = "free"
    /\ tWorker' = "running"
    /\ UNCHANGED <<tCaller, tMutex, tSignal, tResult, tCalls, tRuns, tLate>>

RunAnnotator ==
    /\ tWorker = "running"
    /\ tWorker' = "done"
    /\ tResult' = tSignal.call
    /\ tRuns' = tRuns + 1
    /\ UNCHANGED <<tCaller, tMutex, tSignal, tCalls, tLate>>

\* A mutant: a worker that is to exit wakes nobody.
SignalCallerNot ==
    /\ tWorker = "done"
    /\ tSignal.method # "destroy" => tMutex = "free"
    /\ tWorker' = IF tSignal.method = "destroy" THEN "exited" ELSE "waiting"
    /\ tCaller' = IF tCaller = "waiting" /\ tSignal.method # "destroy" THEN "woken" ELSE tCaller
    /\ UNCHANGED <<tMutex, tSignal, tResult, tCalls, tRuns, tLate>>
\* After destroy() the worker signals without the mutex and exits.
SignalCaller ==
    /\ tWorker = "done"
    /\ tSignal.method # "destroy" => tMutex = "free"
    /\ tWorker' = IF tSignal.method = "destroy" THEN "exited" ELSE "waiting"
    /\ tCaller' = IF tCaller = "waiting" THEN "woken" ELSE tCaller
    /\ UNCHANGED <<tMutex, tSignal, tResult, tCalls, tRuns, tLate>>

\* destroy() joins the worker and gives the mutex and the conditions back.
CallerReturns ==
    /\ tCaller = "woken" /\ tMutex = "free"
    /\ tSignal.method = "destroy" => tWorker = "exited"
    /\ tCaller' = IF tSignal.method = "destroy" THEN "gone" ELSE "idle"
    /\ UNCHANGED <<tWorker, tMutex, tSignal, tResult, tCalls, tRuns, tLate>>

CallerSteps == Constructed \/ Locked \/ SignalWorker \/ CallerWaits \/ CallerReturns
WorkerSteps == WorkerReady \/ WorkerResumes \/ RunAnnotator \/ SignalCaller

TNext == \/ \E m \in tMethods : CallThread(m)
         \/ CallerSteps
         \/ WorkerSteps

\* Two threads of the operating system; nothing obliges an engine to call.
TFairness == WF_tVars(CallerSteps) /\ WF_tVars(WorkerSteps)

TSpec == TInit /\ [][TNext]_tVars /\ TFairness

----------------------------------------------------------------------------
(* ThreadAnnotator.h: "parent must sleep when child runs and vice versa".
   The annotator is called once for each call, while the engine's thread
   waits, and the call returns what that one call returned. *)
BatonIsPassed ==
    tLate \/ /\ tWorker = "running" => tCaller = "waiting"
             /\ tCaller \in {"idle", "gone"} => tRuns = tCalls /\ tResult = tCalls

(* Every call of the engine returns, unless the first one was made before
   the worker waited for it: that baton is lost and both wait for ever. *)
ThreadCallsReturn ==
    (tCaller = "locking" /\ ~tLate) ~> (tCaller \in {"idle", "gone"} \/ tLate)
=============================================================================
