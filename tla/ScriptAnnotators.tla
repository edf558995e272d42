--------------------------- MODULE ScriptAnnotators ---------------------------
(***************************************************************************)
(* The annotators that run a script: Pythonnator (in its two variants,     *)
(* with a sub-interpreter and the interpreter lock, or without), Tclator   *)
(* and Perltator.  Each annotator is called by an engine of its own, from  *)
(* a thread of its own; they share the library of the language: Python is  *)
(* brought up by the first annotator and taken down by the last, the       *)
(* scripts of Python and of Tcl run one at a time.                         *)
(* An engine destroys its annotator also when initialize() failed.         *)
(***************************************************************************)
EXTENDS Integers, FiniteSets

CONSTANTS ScriptAnnotator,    \* the annotators
          Scripts,            \* what a script may define: sets of methods
          CountModulus        \* refcount is an unsigned int

\* There are fewer annotators than refcount counts.
ASSUME ScriptAssumption ==
    /\ IsFiniteSet(ScriptAnnotator) /\ "free" \notin ScriptAnnotator
    /\ CountModulus \in Nat /\ Cardinality(ScriptAnnotator) < CountModulus

VARIABLES
    sLanguage,   \* "python", "single", "tcl", "perl"
    sDefines,    \* sDefines[a]: the functions of its script
    sAt,         \* sAt[a]: where its engine's call is
    sDoing,      \* sDoing[a]: the method
    sReady,      \* sReady[a]: its interpreter and what destroy() uses were made
    sCount,      \* Pythonnator::refcount
    sUp,         \* Python is initialized
    sLock,       \* the interpreter lock, or the mutex of Tclator
    sModule,     \* Tclator: the static module is known
    sRemade,     \* Tclator: the mutex was made anew while an annotator had it
    sUnready,    \* some annotator failed before it was ready
    sCrashed     \* what was not made was used

sVars == <<sLanguage, sDefines, sAt, sDoing, sReady, sCount, sUp, sLock, sModule, sRemade, sUnready, sCrashed>>

sFree == "free"
sMethods == {"typeSystemInit", "process", "reconfigure", "batchProcessComplete", "collectionProcessComplete"}
InPython == sLanguage \in {"python", "single"}
Locking == sLanguage \in {"python", "tcl"}

SInit ==
    /\ sLanguage \in {"python", "single", "tcl", "perl"}
    /\ sDefines \in [ScriptAnnotator -> Scripts]
    /\ sAt = [a \in ScriptAnnotator |-> "new"]
    /\ sDoing = [a \in ScriptAnnotator |-> "none"]
    /\ sReady = [a \in ScriptAnnotator |-> FALSE]
    /\ sCount = 0 /\ sUp = FALSE /\ sLock = sFree
    /\ sModule = FALSE /\ sRemade = FALSE
    /\ sUnready = FALSE /\ sCrashed = FALSE

sAlone(a, at) == sAt' = [sAt EXCEPT ![a] = at]
sShared == <<sCount, sUp, sLock, sModule, sRemade, sUnready>>

----------------------------------------------------------------------------
(* initialize() *)

\* No SourceFile, an empty one, or one that is no name in the encoding of the machine.
\* Only Tclator looks in destroy() whether there is an interpreter.
InitializeRefused(a) ==
    /\ sAt[a] = "new"
    /\ sAlone(a, "failed")
    /\ sUnready' = (sUnready \/ sLanguage # "tcl")
    /\ UNCHANGED <<sLanguage, sDefines, sDoing, sReady, sCount, sUp, sLock, sModule, sRemade, sCrashed>>

\* refcount++: the first one initializes ICU, which may fail, and Python.
StartPython(a) ==
    /\ sAt[a] = "new" /\ InPython
    /\ sCount' = (sCount + 1) % CountModulus
    /\ \/ /\ sUp' = (sUp \/ sCount = 0)
          /\ sReady' = [sReady EXCEPT ![a] = TRUE]
          /\ sDoing' = [sDoing EXCEPT ![a] = "initialize"]
          /\ sAlone(a, IF Locking THEN "locking" ELSE "inside")
          /\ UNCHANGED sUnready
       \/ /\ sCount = 0
          /\ sAlone(a, "failed")
          /\ sUnready' = TRUE
          /\ UNCHANGED <<sUp, sReady, sDoing>>
    /\ UNCHANGED <<sLanguage, sDefines, sLock, sModule, sRemade, sCrashed>>

\* Tcl_Init() may fail before the commands are made, the script after.
StartTcl(a) ==
    /\ sAt[a] = "new" /\ sLanguage = "tcl"
    /\ \/ sAlone(a, "looking") /\ sReady' = [sReady EXCEPT ![a] = TRUE] /\ UNCHANGED sUnready
       \/ sAlone(a, "failed") /\ sReady' = [sReady EXCEPT ![a] = TRUE] /\ UNCHANGED sUnready
       \/ sAlone(a, "failed") /\ sUnready' = TRUE /\ UNCHANGED sReady
    /\ sDoing' = [sDoing EXCEPT ![a] = "initialize"]
    /\ UNCHANGED <<sLanguage, sDefines, sCount, sUp, sLock, sModule, sRemade, sCrashed>>

\* The static module is looked at without the mutex, and who finds none makes the mutex anew.
LookForModule(a) ==
    /\ sAt[a] = "looking"
    /\ sRemade' = (sRemade \/ (~sModule /\ sLock # sFree))
    /\ sLock' = IF sModule THEN sLock ELSE sFree
    /\ sAlone(a, "locking")
    /\ UNCHANGED <<sLanguage, sDefines, sDoing, sReady, sCount, sUp, sModule, sUnready, sCrashed>>

StartPerl(a) ==
    /\ sAt[a] = "new" /\ sLanguage = "perl"
    /\ sReady' = [sReady EXCEPT ![a] = TRUE]
    /\ sDoing' = [sDoing EXCEPT ![a] = "initialize"]
    /\ sAlone(a, "inside")
    /\ UNCHANGED <<sLanguage, sDefines, sCrashed>> /\ UNCHANGED sShared

TakeScriptLock(a) ==
    /\ sAt[a] = "locking" /\ sLock = sFree
    /\ sLock' = a
    /\ sModule' = (sModule \/ (sLanguage = "tcl" /\ sDoing[a] = "initialize"))
    /\ sAlone(a, "inside")
    /\ UNCHANGED <<sLanguage, sDefines, sDoing, sReady, sCount, sUp, sRemade, sUnready, sCrashed>>

\* Whoever unlocks makes it free; it need not be the one that has it.
Released == IF Locking THEN sFree ELSE sLock

\* A mutant: an error of the module, the types or the script returns with the lock.
InitializeEndsLocked(a) ==
    /\ sAt[a] = "inside" /\ sDoing[a] = "initialize"
    /\ \/ sAlone(a, "idle") /\ sLock' = Released
       \/ sAlone(a, "failed") /\ UNCHANGED sLock
    /\ UNCHANGED <<sLanguage, sDefines, sDoing, sReady, sCount, sUp, sModule, sRemade, sUnready, sCrashed>>
InitializeEnds(a) ==
    /\ sAt[a] = "inside" /\ sDoing[a] = "initialize"
    /\ \E at \in {"idle", "failed"} : sAlone(a, at)
    /\ sLock' = Released
    /\ UNCHANGED <<sLanguage, sDefines, sDoing, sReady, sCount, sUp, sModule, sRemade, sUnready, sCrashed>>

----------------------------------------------------------------------------
(* The calls of an engine that is ready *)

\* "not initialized": two of the methods of Pythonnator look at refcount.
Refuses(m) == InPython /\ m \in {"reconfigure", "typeSystemInit"} /\ sCount = 0

CallScript(a, m) ==
    /\ sAt[a] = "idle"
    /\ ~Refuses(m)
    /\ InPython /\ m = "process" => m \in sDefines[a]
    /\ sDoing' = [sDoing EXCEPT ![a] = m]
    /\ sAlone(a, IF Locking THEN "locking" ELSE "inside")
    /\ UNCHANGED <<sLanguage, sDefines, sReady, sCrashed>> /\ UNCHANGED sShared

\* A script of Python without typeSystemInit: the method returns with the lock.
KeepsLock(a) == /\ sLanguage = "python"
                /\ sDoing[a] = "typeSystemInit"
                /\ "typeSystemInit" \notin sDefines[a]

ScriptReturns(a) ==
    /\ sAt[a] = "inside" /\ sDoing[a] \in sMethods
    /\ sAlone(a, "idle")
    /\ sLock' = IF KeepsLock(a) THEN sLock ELSE Released
    /\ UNCHANGED <<sLanguage, sDefines, sDoing, sReady, sCount, sUp, sModule, sRemade, sUnready, sCrashed>>

----------------------------------------------------------------------------
(* destroy() *)

\* Tclator has nothing to do without an interpreter.  Without the thread state, the commands
\* or the interpreter, the others use what was never made: anything happens.
DestroyUnready(a) ==
    /\ sAt[a] = "failed" /\ ~sReady[a]
    /\ \/ sLanguage # "tcl" /\ sCrashed' = TRUE /\ UNCHANGED <<sAt, sDoing>>
       \/ sLanguage = "tcl" /\ sDoing[a] = "initialize" /\ sCrashed' = TRUE /\ UNCHANGED <<sAt, sDoing>>
       \/ sLanguage = "tcl" /\ sDoing[a] = "none" /\ sAlone(a, "gone") /\ UNCHANGED <<sCrashed, sDoing>>
       \/ /\ InPython
          /\ sDoing' = [sDoing EXCEPT ![a] = "destroy"]
          /\ sAlone(a, IF Locking THEN "locking" ELSE "inside")
          /\ UNCHANGED sCrashed
    /\ UNCHANGED <<sLanguage, sDefines, sReady>> /\ UNCHANGED sShared

CallDestroy(a) ==
    /\ sAt[a] \in {"idle", "failed"} /\ sReady[a]
    /\ sDoing' = [sDoing EXCEPT ![a] = "destroy"]
    /\ sAlone(a, IF Locking THEN "locking" ELSE "inside")
    /\ UNCHANGED <<sLanguage, sDefines, sReady, sCrashed>> /\ UNCHANGED sShared

\* A mutant: every annotator takes Python down.
LastDestroyedAny(a) ==
    /\ sCount' = (sCount + CountModulus - 1) % CountModulus
    /\ sUp' = FALSE
\* --refcount == 0: Py_Finalize()
LastDestroyed(a) ==
    /\ sCount' = (sCount + CountModulus - 1) % CountModulus
    /\ sUp' = (sUp /\ sCount' # 0)

DestroyEnds(a) ==
    /\ sAt[a] = "inside" /\ sDoing[a] = "destroy"
    /\ IF InPython THEN LastDestroyed(a) ELSE UNCHANGED <<sCount, sUp>>
    /\ sLock' = Released
    /\ sAlone(a, "gone")
    /\ UNCHANGED <<sLanguage, sDefines, sDoing, sReady, sModule, sRemade, sUnready, sCrashed>>

SNext ==
    /\ ~sCrashed
    /\ \E a \in ScriptAnnotator :
          \/ InitializeRefused(a) \/ StartPython(a) \/ StartTcl(a) \/ StartPerl(a)
          \/ LookForModule(a) \/ TakeScriptLock(a) \/ InitializeEnds(a)
          \/ \E m \in sMethods : CallScript(a, m)
          \/ ScriptReturns(a) \/ DestroyUnready(a) \/ CallDestroy(a) \/ DestroyEnds(a)

SSpec == SInit /\ [][SNext]_sVars

----------------------------------------------------------------------------
Using(a) == sAt[a] \in {"locking", "inside", "idle"} \/ (sAt[a] = "failed" /\ sReady[a])

(* The language is there as long as an annotator uses it and no longer, and nothing that was
   never made is used, unless the initialize() of some annotator failed before it was ready. *)
InterpreterOutlivesItsUsers ==
    sUnready \/ /\ ~sCrashed
                /\ InPython => (sUp <=> \E a \in ScriptAnnotator : Using(a))

(* Python.html: several annotators are serialized.  Scripts of Python and of Tcl run one at a
   time, and between calls nobody has the lock, unless an annotator of Tcl that found no module
   made the mutex anew, and but for a script of Python that does not define typeSystemInit. *)
ScriptsTakeTurns ==
    Locking /\ ~sRemade /\ ~sUnready =>
        \A a \in ScriptAnnotator :
            /\ sAt[a] = "inside" => sLock = a
            /\ sLock = a => sAt[a] = "inside" \/ "typeSystemInit" \notin sDefines[a]
=============================================================================
