------------------------------ MODULE JavaEngine ------------------------------
(***************************************************************************)
(* Engines written in Java, called from C++ (JEDIIEngine).  A process has  *)
(* at most one Java VM and cannot have a second after it was destroyed:    *)
(* the first engine creates it, the others find it.  Each engine has a     *)
(* proxy object in the VM that was given the type system; a new type       *)
(* system makes a new proxy.                                               *)
(***************************************************************************)
EXTENDS Integers, Sequences, TLC

CONSTANTS JavaEngines,
          MaxReinits       \* bound: type systems an engine is given after its first

VARIABLES
    jVm,        \* "none", "running", "gone"
    jEngine,    \* jEngine[e]: [at, loader, vm, created, proxy]
    jOrder,     \* the engines in the order they were initialized
    jOrderly,   \* so far, who came last was destroyed first
    jTypes,     \* jTypes[e]: the type system of its CAS definition
    jTold,      \* jTold[e]: the last reinitTypeSystem() returned an error
    jCas        \* jCas[e]: whose data the parts of its CAS are: "host", "java" or "lost"

jVars == <<jVm, jEngine, jOrder, jOrderly, jTypes, jTold, jCas>>

NoProxy == -1
Untold == 0           \* a proxy that was not initialized knows no type system
Parts == {"document", "heap", "bytes", "shorts", "longs", "strings", "indexes"}
NewJavaEngine == [at |-> "new", loader |-> FALSE, vm |-> FALSE, created |-> FALSE, proxy |-> NoProxy]

JInit ==
    /\ jVm = "none"
    /\ jEngine = [e \in JavaEngines |-> NewJavaEngine]
    /\ jOrder = << >> /\ jOrderly = TRUE
    /\ jTypes = [e \in JavaEngines |-> 1]
    /\ jTold = [e \in JavaEngines |-> FALSE]
    /\ jCas = [e \in JavaEngines |-> [p \in Parts |-> "host"]]

\* initializeJVMFunctions(): without libjvm there is no loader, without its functions no use.
LoadedJvm(r) ==
    { [engine |-> [r EXCEPT !.loader = TRUE], ok |-> TRUE],
      [engine |-> [r EXCEPT !.loader = TRUE], ok |-> FALSE],
      [engine |-> [r EXCEPT !.loader = FALSE], ok |-> FALSE] }

WithVm(r, new) == [r EXCEPT !.vm = TRUE, !.created = new]

\* initializeJavaVM(): look for a VM, which may fail, as may the environment of one that is
\* there, for a thread that is not attached.
VmOutcomes(r) ==
    {[engine |-> [r EXCEPT !.created = FALSE], vm |-> jVm, ok |-> FALSE]} \cup
    (IF jVm = "running"
     THEN {[engine |-> WithVm(r, FALSE), vm |-> jVm, ok |-> TRUE]}
     ELSE {[engine |-> [r EXCEPT !.created = TRUE, !.vm = FALSE], vm |-> jVm, ok |-> FALSE]} \cup
          (IF jVm = "none" THEN {[engine |-> WithVm(r, TRUE), vm |-> "running", ok |-> TRUE]} ELSE {}))

\* The class, a method, the version or the proxy may be missing; then the proxy may refuse
\* the configuration and the definitions.  The last proxy is not released.
ProxyOutcomes(r, types) ==
    { [engine |-> r, ok |-> FALSE],
      [engine |-> [r EXCEPT !.proxy = Untold], ok |-> FALSE],
      [engine |-> [r EXCEPT !.proxy = types], ok |-> TRUE] }

InitializeOutcomes(r, types) ==
    UNION { IF ~l.ok THEN {[engine |-> l.engine, vm |-> jVm, ok |-> FALSE]}
            ELSE UNION { IF ~v.ok THEN {v}
                         ELSE {[engine |-> p.engine, vm |-> v.vm, ok |-> p.ok] :
                                 p \in ProxyOutcomes(v.engine, types)}
                       : v \in VmOutcomes(l.engine) }
          : l \in LoadedJvm(r) }

\* destroyJavaVM()
VmAfter(r, vm) == IF r.created THEN "gone" ELSE vm

\* destroyImpl(): a proxy that fails keeps itself, the VM and the library.
DestroyOutcomes(r, vm) ==
    IF ~r.vm THEN {[engine |-> [r EXCEPT !.at = "gone"], vm |-> vm]}
    ELSE { [engine |-> [r EXCEPT !.at = "gone", !.vm = FALSE, !.created = FALSE,
                                 !.loader = FALSE, !.proxy = NoProxy],
            vm |-> VmAfter(r, vm)] } \cup
         (IF r.proxy = NoProxy THEN {} ELSE {[engine |-> [r EXCEPT !.at = "gone"], vm |-> vm]})

----------------------------------------------------------------------------
\* An engine that could not be initialized is deleted, and so destroyed, at once.
InitializeJava(e) ==
    /\ jEngine[e].at = "new"
    /\ \E i \in InitializeOutcomes(jEngine[e], jTypes[e]) :
          IF i.ok
          THEN /\ jEngine' = [jEngine EXCEPT ![e] = [i.engine EXCEPT !.at = "ready"]]
               /\ jVm' = i.vm
               /\ jOrder' = Append(jOrder, e)
          ELSE /\ \E d \in DestroyOutcomes(i.engine, i.vm) :
                     jEngine' = [jEngine EXCEPT ![e] = d.engine] /\ jVm' = d.vm
               /\ UNCHANGED jOrder
    /\ UNCHANGED <<jOrderly, jTypes, jTold, jCas>>

\* reinitTypeSystemImpl() is initializeImpl(): what it throws is logged and returned, and the
\* engine stays ready.
ReinitJava(e) ==
    /\ jEngine[e].at = "ready" /\ jTypes[e] <= MaxReinits
    /\ jTypes' = [jTypes EXCEPT ![e] = @ + 1]
    /\ \E i \in InitializeOutcomes(jEngine[e], jTypes'[e]) :
          /\ jEngine' = [jEngine EXCEPT ![e] = i.engine]
          /\ jVm' = i.vm
          /\ jTold' = [jTold EXCEPT ![e] = ~i.ok]
    /\ UNCHANGED <<jOrder, jOrderly, jCas>>

\* createIntVector(), createByteVector(): Java's arrays are copied into the serialized CAS.
CreateIntVector == [p \in {"heap", "indexes"} |-> "java"]
CreateByteVector == [p \in {"bytes"} |-> "java"]
\* createStringVector(): a null string of Java is a reference without a buffer, the others refer
\* to the engine's pool, which the next document empties.
CreateStringVector == [p \in {"strings"} |-> "java"]

\* What processImpl() fetches after the call; the document is the one that was sent.  The
\* heaps of shorts and of longs are not fetched, and deserializeData() empties them.
Fetched ==
    CreateIntVector @@ CreateByteVector @@ CreateStringVector @@ [p \in {"document"} |-> "host"]
        @@ [p \in Parts |-> "lost"]

\* handleEngineProxyError(), handleJNIError(): the proxy's message is thrown before anything is
\* fetched; the CAS is as it was sent and the frame of Java's references stays open.
HandleEngineProxyError == UNCHANGED jCas

ProcessJava(e) ==
    /\ jEngine[e].at = "ready"
    /\ \/ jCas' = [jCas EXCEPT ![e] = Fetched]
       \/ HandleEngineProxyError
    /\ UNCHANGED <<jVm, jEngine, jOrder, jOrderly, jTypes, jTold>>

\* The engines that are left.
WithoutAt(s, k) == [i \in 1 .. Len(s) - 1 |-> IF i < k THEN s[i] ELSE s[i + 1]]

DestroyJava(e) ==
    /\ jEngine[e].at = "ready"
    /\ \E d \in DestroyOutcomes(jEngine[e], jVm) :
          jEngine' = [jEngine EXCEPT ![e] = d.engine] /\ jVm' = d.vm
    /\ \E k \in DOMAIN jOrder :
          /\ jOrder[k] = e
          /\ jOrderly' = (jOrderly /\ k = Len(jOrder))
          /\ jOrder' = WithoutAt(jOrder, k)
    /\ UNCHANGED <<jTypes, jTold, jCas>>

JNext == \E e \in JavaEngines :
            InitializeJava(e) \/ ReinitJava(e) \/ ProcessJava(e) \/ DestroyJava(e)

JSpec == JInit /\ [][JNext]_jVars

----------------------------------------------------------------------------
(* While engines are destroyed in the reverse order of their making, as the
   delegates of an aggregate are, an engine that can be called has a proxy
   in a VM that lives, whoever made the VM, failed to start or was given a
   new type system meanwhile; and the proxy knows the type system of the
   engine unless it was told that it does not. *)
CallsReachALivingVm ==
    \A e \in JavaEngines : jEngine[e].at = "ready" =>
        /\ jOrderly => jEngine[e].vm /\ jVm = "running" /\ jEngine[e].proxy # NoProxy
        /\ ~jTold[e] => jEngine[e].proxy = jTypes[e]
=============================================================================
