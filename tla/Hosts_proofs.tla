------------------------------ MODULE Hosts_proofs ------------------------------
(***************************************************************************)
(* Proofs about the hosts of the framework.  Every component has a section *)
(* with its inductive invariant: it holds initially, every step keeps it,  *)
(* and the component's property follows.  The last section puts the        *)
(* components together, for every value of their constants.                *)
(***************************************************************************)
EXTENDS MCHosts, ServiceHost_proofs

----------------------------------------------------------------------------
(* The thread of a script annotator *)

\* While no baton is lost: where the two threads are, who has the mutex and what was run.
BatonFits ==
    /\ tCaller = "sleeping" => tWorker \in {"starting", "waiting"} /\ tCalls = 0
    /\ tCaller \in {"idle", "locking"} => tWorker \in {"starting", "waiting"}
    /\ tCaller = "signalling" => tWorker = "waiting"
    /\ tCaller = "passing" => tWorker = "woken"
    /\ tCaller = "waiting" => tWorker \in {"woken", "running", "done"}
    /\ tCaller = "woken" => tWorker = IF tSignal.method = "destroy" THEN "exited" ELSE "waiting"
    /\ tCaller = "gone" => tWorker = "exited"
    /\ tCaller \in {"signalling", "passing"} <=> tMutex = "caller"
    /\ tCaller \in {"locking", "signalling", "passing", "waiting"} /\ tWorker # "done" => tRuns = tCalls - 1
    /\ tCaller \in {"sleeping", "idle", "woken", "gone"} \/ tWorker = "done" => tRuns = tCalls /\ tResult = tCalls
    /\ tSignal.call = tCalls

ThreadType ==
    /\ tCalls \in Nat /\ tRuns \in Nat
    /\ tCaller \in {"sleeping", "idle", "locking", "signalling", "passing", "waiting", "woken", "gone"}
    /\ tWorker \in {"starting", "waiting", "woken", "running", "done", "exited"}
    /\ tMutex \in {"free", "caller"}

ThreadInv == ThreadType /\ (tLate \/ BatonFits)

LEMMA ThreadInvInit == TInit => ThreadInv
<1> SUFFICES ASSUME TInit PROVE ThreadType /\ BatonFits
  BY DEF ThreadInv
<1> QED
  BY DEF TInit, ThreadType, BatonFits

LEMMA ThreadInvStep ==
    ThreadInv /\ [TNext]_tVars => ThreadInv'
<1> SUFFICES ASSUME ThreadInv, [TNext]_tVars PROVE ThreadInv'
  OBVIOUS
<1>0. ThreadType
  BY DEF ThreadInv
<1>t. ThreadType'
  <2>1. CASE CallerSteps
    BY <1>0, <2>1 DEF ThreadType, CallerSteps, Constructed, Locked, SignalWorker, CallerWaits, CallerReturns
  <2>2. CASE WorkerSteps
    BY <1>0, <2>2 DEF ThreadType, WorkerSteps, WorkerReady, WorkerResumes, RunAnnotator, SignalCaller
  <2>3. CASE UNCHANGED tVars
    BY <1>0, <2>3 DEF ThreadType, tVars
  <2>4. QED
    BY <1>0, <2>1, <2>2, <2>3 DEF ThreadType, TNext, CallThread
<1>l. tLate => tLate'
  BY Zenon DEF TNext, tVars, CallerSteps, WorkerSteps, WorkerReady, Constructed, CallThread, Locked,
     SignalWorker, CallerWaits, WorkerResumes, RunAnnotator, SignalCaller, CallerReturns
<1>a. CASE tLate
  BY <1>a, <1>l, <1>t DEF ThreadInv
<1>b. CASE ~tLate
  <2>0. BatonFits
    BY <1>b DEF ThreadInv
  <2>1. CASE WorkerReady
    <3>1. BatonFits'
      BY <2>0, <2>1, <1>0 DEF WorkerReady, BatonFits, ThreadType
    <3> QED
      BY <3>1, <1>t DEF ThreadInv
  <2>2. CASE Constructed
    <3>1. BatonFits'
      BY <2>0, <2>2, <1>0 DEF Constructed, BatonFits, ThreadType
    <3> QED
      BY <3>1, <1>t DEF ThreadInv
  <2>3. ASSUME NEW m \in tMethods, CallThread(m) PROVE ThreadInv'
    <3>1. BatonFits'
      BY <2>0, <2>3, <1>0 DEF CallThread, BatonFits, ThreadType
    <3> QED
      BY <3>1, <1>t DEF ThreadInv
  <2>4. CASE Locked
    <3>1. CASE tWorker = "starting"
      <4>1. tLate'
        BY <3>1, <2>4 DEF Locked
      <4> QED
        BY <4>1, <1>t DEF ThreadInv
    <3>2. CASE tWorker # "starting"
      <4>1. BatonFits'
        BY <2>0, <2>4, <1>0, <3>2 DEF Locked, BatonFits, ThreadType
      <4> QED
        BY <4>1, <1>t DEF ThreadInv
    <3> QED
      BY <3>1, <3>2
  <2>5. CASE SignalWorker
    <3>1. BatonFits'
      BY <2>0, <2>5, <1>0 DEF SignalWorker, BatonFits, ThreadType
    <3> QED
      BY <3>1, <1>t DEF ThreadInv
  <2>6. CASE CallerWaits
    <3>1. BatonFits'
      BY <2>0, <2>6, <1>0 DEF CallerWaits, BatonFits, ThreadType
    <3> QED
      BY <3>1, <1>t DEF ThreadInv
  <2>7. CASE WorkerResumes
    <3>1. BatonFits'
      BY <2>0, <2>7, <1>0 DEF WorkerResumes, BatonFits, ThreadType
    <3> QED
      BY <3>1, <1>t DEF ThreadInv
  <2>8. CASE RunAnnotator
    <3>0. tCaller = "waiting" /\ tWorker = "running"
      BY <2>0, <2>8, <1>0 DEF RunAnnotator, BatonFits, ThreadType
    <3>3. tRuns = tCalls - 1 /\ tMutex # "caller" /\ tSignal.call = tCalls
      BY <2>0, <3>0 DEF BatonFits
    <3>4. tRuns' = tCalls
      BY <3>3, <2>8, <1>0 DEF RunAnnotator, ThreadType
    <3>1. BatonFits'
      BY <3>0, <3>3, <3>4, <2>8 DEF RunAnnotator, BatonFits
    <3> QED
      BY <3>1, <1>t DEF ThreadInv
  <2>9. CASE SignalCaller
    <3>1. BatonFits'
      BY <2>0, <2>9, <1>0 DEF SignalCaller, BatonFits, ThreadType
    <3> QED
      BY <3>1, <1>t DEF ThreadInv
  <2>10. CASE CallerReturns
    <3>1. BatonFits'
      BY <2>0, <2>10, <1>0 DEF CallerReturns, BatonFits, ThreadType
    <3> QED
      BY <3>1, <1>t DEF ThreadInv
  <2>11. CASE UNCHANGED tVars
    <3>1. BatonFits'
      BY <2>0, <2>11 DEF tVars, BatonFits
    <3> QED
      BY <3>1, <1>t DEF ThreadInv
  <2>12. QED
    BY <2>1, <2>2, <2>3, <2>4, <2>5, <2>6, <2>7, <2>8, <2>9, <2>10, <2>11 DEF TNext, CallerSteps, WorkerSteps
<1>z. QED
  BY <1>a, <1>b

LEMMA ThreadInvImplies == ThreadInv => BatonIsPassed
<1> SUFFICES ASSUME ThreadInv, ~tLate PROVE BatonIsPassed
  BY DEF BatonIsPassed
<1>1. ThreadType /\ BatonFits
  BY DEF ThreadInv
<1>2. tWorker = "running" => tCaller = "waiting"
  BY <1>1 DEF BatonFits, ThreadType
<1>3. tCaller \in {"idle", "gone"} => tRuns = tCalls /\ tResult = tCalls
  BY <1>1 DEF BatonFits
<1> QED
  BY <1>2, <1>3 DEF BatonIsPassed

----------------------------------------------------------------------------
(* Annotators that run a script *)

\* Where an annotator, its lock and what it does may be.
ScriptPlaces == {"new", "looking", "locking", "inside", "idle", "failed", "gone"}
ScriptType ==
    /\ sLanguage \in {"python", "single", "tcl", "perl"}
    /\ sAt \in [ScriptAnnotator -> ScriptPlaces]
    /\ sDoing \in [ScriptAnnotator -> sMethods \cup {"none", "initialize", "destroy"}]
    /\ sReady \in [ScriptAnnotator -> BOOLEAN]
    /\ sCount \in Nat
    /\ sLock \in ScriptAnnotator \cup {sFree}

\* Unless an annotator failed too early: every annotator that works was made, and refcount says
\* how many use Python.
Users == {a \in ScriptAnnotator : Using(a)}
AnnotatorMade(a) ==
    /\ sAt[a] \in {"looking", "locking", "inside", "idle"} => sReady[a]
    /\ sAt[a] = "looking" => sLanguage = "tcl"
    /\ sAt[a] = "new" => sDoing[a] = "none"
    /\ sAt[a] = "failed" /\ ~sReady[a] => sLanguage = "tcl" /\ sDoing[a] = "none"
MadeFits ==
    /\ ~sCrashed
    /\ \A a \in ScriptAnnotator : AnnotatorMade(a)
UsersFit == InPython => /\ sCount = Cardinality(Users)
                        /\ sUp <=> Users # {}

ScriptInv ==
    /\ ScriptType
    /\ sUnready \/ (MadeFits /\ UsersFit)
    /\ ScriptsTakeTurns

LEMMA ScriptInvInit == SInit => ScriptInv
<1> SUFFICES ASSUME SInit PROVE ScriptInv
  OBVIOUS
<1>1. ScriptType
  BY DEF SInit, ScriptType, ScriptPlaces
<1>2. MadeFits
  BY DEF SInit, MadeFits, AnnotatorMade
<1>3. Users = {}
  BY DEF SInit, Users, Using
<1>4. UsersFit
  BY <1>3, FS_EmptySet DEF SInit, UsersFit
<1>5. ScriptsTakeTurns
  BY ScriptAssumption DEF SInit, ScriptsTakeTurns, sFree
<1> QED
  BY <1>1, <1>2, <1>4, <1>5 DEF ScriptInv

\* Who leaves never counted below zero, who comes never to the end of an unsigned int.
LEMMA CountsInRange ==
    ASSUME NEW n \in Nat, NEW m \in Nat, n < m
    PROVE  n % m = n /\ (n + 1 < m => (n + 1) % m = n + 1) /\ (n > 0 => (n + m - 1) % m = n - 1)
<1>1. n % m = n
  OBVIOUS
<1>2. n + 1 < m => (n + 1) % m = n + 1
  OBVIOUS
<1>3. n > 0 => (n + m - 1) % m = n - 1
  OBVIOUS
<1> QED
  BY <1>1, <1>2, <1>3

LEMMA UsersFinite ==
    /\ IsFiniteSet(Users) /\ Cardinality(Users) \in Nat
    /\ Cardinality(Users) <= Cardinality(ScriptAnnotator)
    /\ Cardinality(Users) = 0 <=> Users = {}
BY ScriptAssumption, FS_Subset, FS_CardinalityType, FS_EmptySet DEF Users

\* A place, a method, a lock and a count stay what they are.
LEMMA ScriptTypeStep ==
    ScriptType /\ [SNext]_sVars => ScriptType'
<1> SUFFICES ASSUME ScriptType, [SNext]_sVars PROVE ScriptType'
  OBVIOUS
<1>m. CountModulus \in Nat /\ CountModulus > 0
  BY ScriptAssumption, FS_CardinalityType
<1>1. ASSUME NEW a \in ScriptAnnotator, InitializeRefused(a) PROVE ScriptType'
  BY <1>1 DEF InitializeRefused, sAlone, ScriptType, ScriptPlaces
<1>2. ASSUME NEW a \in ScriptAnnotator, StartPython(a) PROVE ScriptType'
  <2>1. sCount' \in Nat
    BY <1>2, <1>m, ScriptAssumption DEF StartPython, ScriptType
  <2>2. QED
    BY <1>2, <2>1 DEF StartPython, sAlone, ScriptType, ScriptPlaces
<1>3. ASSUME NEW a \in ScriptAnnotator, StartTcl(a) PROVE ScriptType'
  BY <1>3 DEF StartTcl, sAlone, ScriptType, ScriptPlaces
<1>4. ASSUME NEW a \in ScriptAnnotator, StartPerl(a) PROVE ScriptType'
  BY <1>4 DEF StartPerl, sShared, sAlone, ScriptType, ScriptPlaces
<1>5. ASSUME NEW a \in ScriptAnnotator, LookForModule(a) PROVE ScriptType'
  BY <1>5 DEF LookForModule, sAlone, ScriptType, ScriptPlaces
<1>6. ASSUME NEW a \in ScriptAnnotator, TakeScriptLock(a) PROVE ScriptType'
  BY <1>6 DEF TakeScriptLock, sAlone, ScriptType, ScriptPlaces
<1>7. ASSUME NEW a \in ScriptAnnotator, InitializeEnds(a) PROVE ScriptType'
  BY <1>7 DEF InitializeEnds, Released, sAlone, ScriptType, ScriptPlaces
<1>8. ASSUME NEW a \in ScriptAnnotator, ScriptReturns(a) PROVE ScriptType'
  BY <1>8 DEF ScriptReturns, Released, KeepsLock, sAlone, ScriptType, ScriptPlaces
<1>9. ASSUME NEW a \in ScriptAnnotator, DestroyUnready(a) PROVE ScriptType'
  BY <1>9 DEF DestroyUnready, sShared, sAlone, ScriptType, ScriptPlaces
<1>10. ASSUME NEW a \in ScriptAnnotator, CallDestroy(a) PROVE ScriptType'
  BY <1>10 DEF CallDestroy, sShared, sAlone, ScriptType, ScriptPlaces
<1>11. ASSUME NEW a \in ScriptAnnotator, DestroyEnds(a) PROVE ScriptType'
  <2>1. sCount' \in Nat
    <3>1. CASE InPython
      BY <3>1, <1>11, <1>m, ScriptAssumption DEF DestroyEnds, LastDestroyed, ScriptType
    <3>2. CASE ~InPython
      BY <3>2, <1>11 DEF DestroyEnds, ScriptType
    <3> QED
      BY <3>1, <3>2
  <2>2. QED
    BY <1>11, <2>1 DEF DestroyEnds, Released, sAlone, ScriptType, ScriptPlaces
<1>12. ASSUME NEW a \in ScriptAnnotator, NEW m \in sMethods, CallScript(a, m) PROVE ScriptType'
  BY <1>12 DEF CallScript, sShared, Refuses, sAlone, ScriptType, ScriptPlaces
<1>13. CASE UNCHANGED sVars
  BY <1>13 DEF sVars, ScriptType, ScriptPlaces
<1>14. QED
  BY <1>1, <1>2, <1>3, <1>4, <1>5, <1>6, <1>7, <1>8, <1>9, <1>10, <1>11, <1>12, <1>13 DEF SNext

\* An annotator that failed too early, a mutex made anew and a crash are never forgotten.
LEMMA ScriptMishaps ==
    [SNext]_sVars =>
        /\ sLanguage' = sLanguage /\ sDefines' = sDefines
        /\ (sUnready => sUnready') /\ (sRemade => sRemade')
<1> SUFFICES ASSUME [SNext]_sVars
             PROVE  /\ sLanguage' = sLanguage /\ sDefines' = sDefines
                    /\ (sUnready => sUnready') /\ (sRemade => sRemade')
  OBVIOUS
<1>1. ASSUME NEW a \in ScriptAnnotator, InitializeRefused(a)
         PROVE  /\ sLanguage' = sLanguage /\ sDefines' = sDefines
                /\ (sUnready => sUnready') /\ (sRemade => sRemade')
  BY <1>1, Zenon DEF InitializeRefused
<1>2. ASSUME NEW a \in ScriptAnnotator, StartPython(a)
         PROVE  /\ sLanguage' = sLanguage /\ sDefines' = sDefines
                /\ (sUnready => sUnready') /\ (sRemade => sRemade')
  BY <1>2 DEF StartPython
<1>3. ASSUME NEW a \in ScriptAnnotator, StartTcl(a)
         PROVE  /\ sLanguage' = sLanguage /\ sDefines' = sDefines
                /\ (sUnready => sUnready') /\ (sRemade => sRemade')
  BY <1>3 DEF StartTcl
<1>4. ASSUME NEW a \in ScriptAnnotator, StartPerl(a)
         PROVE  /\ sLanguage' = sLanguage /\ sDefines' = sDefines
                /\ (sUnready => sUnready') /\ (sRemade => sRemade')
  BY <1>4, Zenon DEF StartPerl, sShared
<1>5. ASSUME NEW a \in ScriptAnnotator, LookForModule(a)
         PROVE  /\ sLanguage' = sLanguage /\ sDefines' = sDefines
                /\ (sUnready => sUnready') /\ (sRemade => sRemade')
  BY <1>5, Zenon DEF LookForModule
<1>6. ASSUME NEW a \in ScriptAnnotator, TakeScriptLock(a)
         PROVE  /\ sLanguage' = sLanguage /\ sDefines' = sDefines
                /\ (sUnready => sUnready') /\ (sRemade => sRemade')
  BY <1>6, Zenon DEF TakeScriptLock
<1>7. ASSUME NEW a \in ScriptAnnotator, InitializeEnds(a)
         PROVE  /\ sLanguage' = sLanguage /\ sDefines' = sDefines
                /\ (sUnready => sUnready') /\ (sRemade => sRemade')
  BY <1>7, Zenon DEF InitializeEnds, Released
<1>8. ASSUME NEW a \in ScriptAnnotator, ScriptReturns(a)
         PROVE  /\ sLanguage' = sLanguage /\ sDefines' = sDefines
                /\ (sUnready => sUnready') /\ (sRemade => sRemade')
  BY <1>8, Zenon DEF ScriptReturns, Released, KeepsLock
<1>9. ASSUME NEW a \in ScriptAnnotator, DestroyUnready(a)
         PROVE  /\ sLanguage' = sLanguage /\ sDefines' = sDefines
                /\ (sUnready => sUnready') /\ (sRemade => sRemade')
  BY <1>9, Zenon DEF DestroyUnready, sShared
<1>10. ASSUME NEW a \in ScriptAnnotator, CallDestroy(a)
         PROVE  /\ sLanguage' = sLanguage /\ sDefines' = sDefines
                /\ (sUnready => sUnready') /\ (sRemade => sRemade')
  BY <1>10, Zenon DEF CallDestroy, sShared
<1>11. ASSUME NEW a \in ScriptAnnotator, DestroyEnds(a)
         PROVE  /\ sLanguage' = sLanguage /\ sDefines' = sDefines
                /\ (sUnready => sUnready') /\ (sRemade => sRemade')
  BY <1>11, Zenon DEF DestroyEnds, LastDestroyed, Released
<1>12. ASSUME NEW a \in ScriptAnnotator, NEW m \in sMethods, CallScript(a, m)
         PROVE  /\ sLanguage' = sLanguage /\ sDefines' = sDefines
                /\ (sUnready => sUnready') /\ (sRemade => sRemade')
  BY <1>12, Zenon DEF CallScript, sShared
<1>13. CASE UNCHANGED sVars
  BY <1>13, Zenon DEF sVars
<1>14. QED
  BY <1>1, <1>2, <1>3, <1>4, <1>5, <1>6, <1>7, <1>8, <1>9, <1>10, <1>11, <1>12, <1>13 DEF SNext

\* An engine calls only an annotator that was made.
LEMMA MadeFitsStep ==
    ScriptType /\ MadeFits /\ ~sUnready' /\ [SNext]_sVars => MadeFits'
<1> SUFFICES ASSUME ScriptType, MadeFits, ~sUnready', [SNext]_sVars PROVE MadeFits'
  OBVIOUS
<1>1. ASSUME NEW a \in ScriptAnnotator, InitializeRefused(a) PROVE MadeFits'
  BY <1>1 DEF InitializeRefused, sAlone, MadeFits, AnnotatorMade, ScriptType, ScriptPlaces, InPython
<1>2. ASSUME NEW a \in ScriptAnnotator, StartPython(a) PROVE MadeFits'
  BY <1>2 DEF StartPython, sAlone, MadeFits, AnnotatorMade, ScriptType, ScriptPlaces, InPython
<1>3. ASSUME NEW a \in ScriptAnnotator, StartTcl(a) PROVE MadeFits'
  BY <1>3 DEF StartTcl, sAlone, MadeFits, AnnotatorMade, ScriptType, ScriptPlaces, InPython
<1>4. ASSUME NEW a \in ScriptAnnotator, StartPerl(a) PROVE MadeFits'
  BY <1>4 DEF StartPerl, sShared, sAlone, MadeFits, AnnotatorMade, ScriptType, ScriptPlaces, InPython
<1>5. ASSUME NEW a \in ScriptAnnotator, LookForModule(a) PROVE MadeFits'
  BY <1>5 DEF LookForModule, sAlone, MadeFits, AnnotatorMade, ScriptType, ScriptPlaces, InPython
<1>6. ASSUME NEW a \in ScriptAnnotator, TakeScriptLock(a) PROVE MadeFits'
  BY <1>6 DEF TakeScriptLock, sAlone, MadeFits, AnnotatorMade, ScriptType, ScriptPlaces, InPython
<1>7. ASSUME NEW a \in ScriptAnnotator, InitializeEnds(a) PROVE MadeFits'
  BY <1>7 DEF InitializeEnds, Released, sAlone, MadeFits, AnnotatorMade, ScriptType, ScriptPlaces, InPython
<1>8. ASSUME NEW a \in ScriptAnnotator, ScriptReturns(a) PROVE MadeFits'
  BY <1>8 DEF ScriptReturns, Released, KeepsLock, sAlone, MadeFits, AnnotatorMade, ScriptType, ScriptPlaces, InPython
<1>9. ASSUME NEW a \in ScriptAnnotator, DestroyUnready(a) PROVE MadeFits'
  BY <1>9 DEF DestroyUnready, sShared, sAlone, MadeFits, AnnotatorMade, ScriptType, ScriptPlaces, InPython
<1>10. ASSUME NEW a \in ScriptAnnotator, CallDestroy(a) PROVE MadeFits'
  BY <1>10 DEF CallDestroy, sShared, sAlone, MadeFits, AnnotatorMade, ScriptType, ScriptPlaces, InPython
<1>11. ASSUME NEW a \in ScriptAnnotator, DestroyEnds(a) PROVE MadeFits'
  BY <1>11 DEF DestroyEnds, LastDestroyed, Released, sAlone, MadeFits, AnnotatorMade, ScriptType, ScriptPlaces, InPython
<1>12. ASSUME NEW a \in ScriptAnnotator, NEW m \in sMethods, CallScript(a, m) PROVE MadeFits'
  BY <1>12 DEF CallScript, sShared, Refuses, sAlone, MadeFits, AnnotatorMade, ScriptType, ScriptPlaces, InPython
<1>13. CASE UNCHANGED sVars
  BY <1>13 DEF sVars, MadeFits, AnnotatorMade, ScriptType, ScriptPlaces, InPython
<1>14. QED
  BY <1>1, <1>2, <1>3, <1>4, <1>5, <1>6, <1>7, <1>8, <1>9, <1>10, <1>11, <1>12, <1>13 DEF SNext

\* Who is inside has the lock, which is free when he comes; he leaves with it or frees it.
LEMMA ScriptsTakeTurnsStep ==
    ScriptType /\ (MadeFits \/ sUnready) /\ ScriptsTakeTurns /\ [SNext]_sVars => ScriptsTakeTurns'
<1> SUFFICES ASSUME ScriptType, MadeFits \/ sUnready, ScriptsTakeTurns, [SNext]_sVars PROVE ScriptsTakeTurns'
  OBVIOUS
<1> DEFINE Turns == \A b \in ScriptAnnotator :
                        /\ sAt'[b] = "inside" => sLock' = b
                        /\ sLock' = b => sAt'[b] = "inside" \/ "typeSystemInit" \notin sDefines[b]
<1>0. SUFFICES ASSUME Locking, ~sRemade, ~sRemade', ~sUnready, ~sUnready', MadeFits,
                      \A b \in ScriptAnnotator :
                          /\ sAt[b] = "inside" => sLock = b
                          /\ sLock = b => sAt[b] = "inside" \/ "typeSystemInit" \notin sDefines[b]
               PROVE  Turns
  BY ScriptMishaps DEF ScriptsTakeTurns, Locking
<1>1. ASSUME NEW a \in ScriptAnnotator, InitializeRefused(a) PROVE Turns
  BY <1>1, <1>0, ScriptAssumption DEF InitializeRefused, sAlone, ScriptType, ScriptPlaces, Locking, MadeFits, AnnotatorMade, InPython, sFree
<1>2. ASSUME NEW a \in ScriptAnnotator, StartPython(a) PROVE Turns
  BY <1>2, <1>0, ScriptAssumption DEF StartPython, sAlone, ScriptType, ScriptPlaces, Locking, MadeFits, AnnotatorMade, InPython, sFree
<1>3. ASSUME NEW a \in ScriptAnnotator, StartTcl(a) PROVE Turns
  BY <1>3, <1>0, ScriptAssumption DEF StartTcl, sAlone, ScriptType, ScriptPlaces, Locking, MadeFits, AnnotatorMade, InPython, sFree
<1>4. ASSUME NEW a \in ScriptAnnotator, StartPerl(a) PROVE Turns
  BY <1>4, <1>0, ScriptAssumption DEF StartPerl, sShared, sAlone, ScriptType, ScriptPlaces, Locking, MadeFits, AnnotatorMade, InPython, sFree
<1>5. ASSUME NEW a \in ScriptAnnotator, LookForModule(a) PROVE Turns
  BY <1>5, <1>0, ScriptAssumption DEF LookForModule, sAlone, ScriptType, ScriptPlaces, Locking, MadeFits, AnnotatorMade, InPython, sFree
<1>6. ASSUME NEW a \in ScriptAnnotator, TakeScriptLock(a) PROVE Turns
  BY <1>6, <1>0, ScriptAssumption DEF TakeScriptLock, sAlone, ScriptType, ScriptPlaces, Locking, MadeFits, AnnotatorMade, InPython, sFree
<1>7. ASSUME NEW a \in ScriptAnnotator, InitializeEnds(a) PROVE Turns
  BY <1>7, <1>0, ScriptAssumption DEF InitializeEnds, Released, sAlone, ScriptType, ScriptPlaces, Locking, MadeFits, AnnotatorMade, InPython, sFree
<1>8. ASSUME NEW a \in ScriptAnnotator, ScriptReturns(a) PROVE Turns
  BY <1>8, <1>0, ScriptAssumption DEF ScriptReturns, Released, KeepsLock, sAlone, ScriptType, ScriptPlaces, Locking, MadeFits, AnnotatorMade, InPython, sFree
<1>9. ASSUME NEW a \in ScriptAnnotator, DestroyUnready(a) PROVE Turns
  BY <1>9, <1>0, ScriptAssumption DEF DestroyUnready, sShared, sAlone, ScriptType, ScriptPlaces, Locking, MadeFits, AnnotatorMade, InPython, sFree
<1>10. ASSUME NEW a \in ScriptAnnotator, CallDestroy(a) PROVE Turns
  BY <1>10, <1>0, ScriptAssumption DEF CallDestroy, sShared, sAlone, ScriptType, ScriptPlaces, Locking, MadeFits, AnnotatorMade, InPython, sFree
<1>11. ASSUME NEW a \in ScriptAnnotator, DestroyEnds(a) PROVE Turns
  BY <1>11, <1>0, ScriptAssumption DEF DestroyEnds, LastDestroyed, Released, sAlone, ScriptType, ScriptPlaces, Locking, MadeFits, AnnotatorMade, InPython, sFree
<1>12. ASSUME NEW a \in ScriptAnnotator, NEW m \in sMethods, CallScript(a, m) PROVE Turns
  BY <1>12, <1>0, ScriptAssumption DEF CallScript, sShared, Refuses, sAlone, ScriptType, ScriptPlaces, Locking, MadeFits, AnnotatorMade, InPython, sFree
<1>13. ASSUME UNCHANGED sVars PROVE Turns
  BY <1>13, <1>0, ScriptAssumption DEF sVars, ScriptType, ScriptPlaces, Locking, MadeFits, AnnotatorMade, InPython, sFree
<1>14. QED
  BY <1>1, <1>2, <1>3, <1>4, <1>5, <1>6, <1>7, <1>8, <1>9, <1>10, <1>11, <1>12, <1>13 DEF SNext

\* refcount goes with those who use Python, and Python is up while it is not zero.
LEMMA UsersFitStep ==
    ScriptType /\ MadeFits /\ UsersFit /\ ~sUnready' /\ [SNext]_sVars => UsersFit'
<1> SUFFICES ASSUME ScriptType, MadeFits, UsersFit, ~sUnready', [SNext]_sVars PROVE UsersFit'
  OBVIOUS
<1>0. InPython' = InPython
  BY ScriptMishaps DEF InPython
<1>1. ASSUME NEW a \in ScriptAnnotator, InitializeRefused(a) PROVE UsersFit'
  <2>1. ~InPython
    BY <1>1 DEF InitializeRefused, InPython
  <2>2. QED
    BY <2>1, <1>0 DEF UsersFit
<1>2. ASSUME NEW a \in ScriptAnnotator, StartPython(a) PROVE UsersFit'
  <2>0. InPython /\ sCount = Cardinality(Users) /\ (sUp <=> Users # {})
    BY <1>2 DEF StartPython, UsersFit
  <2>1. Users' = Users \cup {a} /\ a \notin Users
    BY <1>2 DEF StartPython, sAlone, Users, Using, ScriptType, ScriptPlaces
  <2>2. Cardinality(Users') = Cardinality(Users) + 1
    BY <2>1, UsersFinite, FS_AddElement
  <2>3. Cardinality(Users') <= Cardinality(ScriptAnnotator)
    BY <2>1, ScriptAssumption, FS_Subset, UsersFinite DEF Users
  <2>4. sCount' = Cardinality(Users')
    <3> DEFINE n == Cardinality(Users)
    <3>1. n \in Nat /\ n < CountModulus /\ n + 1 < CountModulus /\ CountModulus \in Nat /\ sCount = n
      BY <2>0, <2>2, <2>3, UsersFinite, ScriptAssumption, FS_CardinalityType
    <3>2. sCount' = (n + 1) % CountModulus
      BY <3>1, <1>2 DEF StartPython
    <3> HIDE DEF n
    <3>3. (n + 1) % CountModulus = n + 1
      BY <3>1, CountsInRange
    <3> QED
      BY <3>2, <3>3, <2>2 DEF n
  <2>5. sCount = 0 <=> ~sUp
    BY <2>0, UsersFinite
  <2>6. sUp'
    BY <2>5, <1>2 DEF StartPython
  <2>7. QED
    BY <2>1, <2>4, <2>6 DEF UsersFit
<1>3. ASSUME NEW a \in ScriptAnnotator, StartTcl(a) PROVE UsersFit'
  <2>1. ~InPython
    BY <1>3 DEF StartTcl, InPython
  <2>2. QED
    BY <2>1, <1>0 DEF UsersFit
<1>4. ASSUME NEW a \in ScriptAnnotator, StartPerl(a) PROVE UsersFit'
  <2>1. ~InPython
    BY <1>4 DEF StartPerl, InPython
  <2>2. QED
    BY <2>1, <1>0 DEF UsersFit
<1>5. ASSUME NEW a \in ScriptAnnotator, LookForModule(a) PROVE UsersFit'
  <2>1. ~InPython
    BY <1>5 DEF LookForModule, InPython, MadeFits, AnnotatorMade
  <2>2. QED
    BY <2>1, <1>0 DEF UsersFit
<1>6. ASSUME NEW a \in ScriptAnnotator, TakeScriptLock(a) PROVE UsersFit'
  <2>1. Users' = Users
    BY <1>6 DEF TakeScriptLock, sAlone, Users, Using, MadeFits, AnnotatorMade, ScriptType, ScriptPlaces, InPython
  <2>2. sCount' = sCount /\ sUp' = sUp
    BY <1>6 DEF TakeScriptLock, InPython
  <2>3. QED
    BY <2>1, <2>2, <1>0 DEF UsersFit
<1>7. ASSUME NEW a \in ScriptAnnotator, InitializeEnds(a) PROVE UsersFit'
  <2>1. Users' = Users
    BY <1>7 DEF InitializeEnds, Released, sAlone, Users, Using, MadeFits, AnnotatorMade, ScriptType, ScriptPlaces, InPython
  <2>2. sCount' = sCount /\ sUp' = sUp
    BY <1>7 DEF InitializeEnds, Released, InPython
  <2>3. QED
    BY <2>1, <2>2, <1>0 DEF UsersFit
<1>8. ASSUME NEW a \in ScriptAnnotator, ScriptReturns(a) PROVE UsersFit'
  <2>1. Users' = Users
    BY <1>8 DEF ScriptReturns, Released, KeepsLock, sAlone, Users, Using, MadeFits, AnnotatorMade, ScriptType, ScriptPlaces, InPython
  <2>2. sCount' = sCount /\ sUp' = sUp
    BY <1>8 DEF ScriptReturns, Released, KeepsLock, InPython
  <2>3. QED
    BY <2>1, <2>2, <1>0 DEF UsersFit
<1>9. ASSUME NEW a \in ScriptAnnotator, DestroyUnready(a) PROVE UsersFit'
  <2>1. ~InPython
    BY <1>9 DEF DestroyUnready, InPython, MadeFits, AnnotatorMade
  <2>2. QED
    BY <2>1, <1>0 DEF UsersFit
<1>10. ASSUME NEW a \in ScriptAnnotator, CallDestroy(a) PROVE UsersFit'
  <2>1. Users' = Users
    BY <1>10 DEF CallDestroy, sShared, sAlone, Users, Using, MadeFits, AnnotatorMade, ScriptType, ScriptPlaces, InPython
  <2>2. sCount' = sCount /\ sUp' = sUp
    BY <1>10 DEF CallDestroy, sShared, InPython
  <2>3. QED
    BY <2>1, <2>2, <1>0 DEF UsersFit
<1>11. ASSUME NEW a \in ScriptAnnotator, DestroyEnds(a) PROVE UsersFit'
  <2>1. CASE ~InPython
    BY <2>1, <1>0 DEF UsersFit
  <2>2. CASE InPython
    <3>0. sCount = Cardinality(Users) /\ (sUp <=> Users # {}) /\ LastDestroyed(a)
      BY <1>11, <2>2 DEF DestroyEnds, UsersFit
    <3>1. Users' = Users \ {a} /\ a \in Users
      BY <1>11 DEF DestroyEnds, sAlone, Users, Using, ScriptType, ScriptPlaces
    <3>2. Cardinality(Users') = Cardinality(Users) - 1 /\ Cardinality(Users) # 0
      BY <3>1, UsersFinite, FS_RemoveElement
    <3>4. sCount' = Cardinality(Users')
      <4> DEFINE n == Cardinality(Users)
      <4>1. n \in Nat /\ n > 0 /\ n < CountModulus /\ CountModulus \in Nat /\ sCount = n
        BY <3>0, <3>2, UsersFinite, ScriptAssumption, FS_CardinalityType
      <4>2. sCount' = (n + CountModulus - 1) % CountModulus
        BY <4>1, <3>0 DEF LastDestroyed
      <4> HIDE DEF n
      <4>3. (n + CountModulus - 1) % CountModulus = n - 1
        BY <4>1, CountsInRange
      <4> QED
        BY <4>2, <4>3, <3>2 DEF n
    <3>5. sUp
      BY <3>0, <3>1
    <3>6. sUp' <=> sCount' # 0
      BY <3>0, <3>5 DEF LastDestroyed
    <3>7. Cardinality(Users') = 0 <=> Users' = {}
      BY <3>1, UsersFinite, FS_RemoveElement, FS_EmptySet
    <3>8. sUp' <=> Users' # {}
      BY <3>4, <3>6, <3>7
    <3>9. QED
      BY <3>4, <3>8 DEF UsersFit
  <2>3. QED
    BY <2>1, <2>2
<1>12. ASSUME NEW a \in ScriptAnnotator, NEW m \in sMethods, CallScript(a, m) PROVE UsersFit'
  <2>1. Users' = Users
    BY <1>12 DEF CallScript, sShared, sAlone, Users, Using, MadeFits, AnnotatorMade, ScriptType, ScriptPlaces, InPython
  <2>2. sCount' = sCount /\ sUp' = sUp
    BY <1>12 DEF CallScript, sShared, InPython
  <2>3. QED
    BY <2>1, <2>2, <1>0 DEF UsersFit
<1>13. CASE UNCHANGED sVars
  <2>1. Users' = Users
    BY <1>13 DEF sVars, Users, Using
  <2>2. QED
    BY <2>1, <1>13 DEF UsersFit, sVars, InPython
<1>14. QED
  BY <1>1, <1>2, <1>3, <1>4, <1>5, <1>6, <1>7, <1>8, <1>9, <1>10, <1>11, <1>12, <1>13 DEF SNext

LEMMA ScriptInvStep == ScriptInv /\ [SNext]_sVars => ScriptInv'
<1> SUFFICES ASSUME ScriptInv, [SNext]_sVars PROVE ScriptInv'
  OBVIOUS
<1>1. ScriptType'
  BY ScriptTypeStep DEF ScriptInv
<1>2. ScriptsTakeTurns'
  BY ScriptsTakeTurnsStep DEF ScriptInv
<1>3. ASSUME ~sUnready' PROVE MadeFits' /\ UsersFit'
  <2>1. MadeFits /\ UsersFit /\ ScriptType
    BY <1>3, ScriptMishaps DEF ScriptInv
  <2>2. QED
    BY <1>3, <2>1, MadeFitsStep, UsersFitStep
<1>4. QED
  BY <1>1, <1>2, <1>3 DEF ScriptInv

LEMMA ScriptInvImplies == ScriptInv => ScriptsTakeTurns /\ InterpreterOutlivesItsUsers
<1> SUFFICES ASSUME ScriptInv, ~sUnready PROVE InterpreterOutlivesItsUsers
  BY DEF ScriptInv, InterpreterOutlivesItsUsers
<1>1. Users # {} <=> \E a \in ScriptAnnotator : Using(a)
  BY DEF Users
<1> QED
  BY <1>1 DEF ScriptInv, MadeFits, UsersFit, InterpreterOutlivesItsUsers

----------------------------------------------------------------------------
(* The Java bridge *)

\* Unless the annotators of an engine threw and nobody was told: the CAS and a ready engine have
\* the type system that Java gave last.
TypesFit ==
    /\ ~bExcused => /\ bDefinition = bGiven /\ bCas.types = bGiven
                    /\ bEngine.at = "ready" => bEngine.types = bGiven
    /\ bLast.call = "process" /\ bLast.ok => bEngine.at = "ready"

\* The pool of a hosted engine is whole: each of its CASes is free or the segment, none is twice there.
Pooled == {bFree[i] : i \in DOMAIN bFree} \cup ({bSegment} \ {0})
PoolWhole ==
    /\ Pooled = 1 .. PoolSize
    /\ Len(bFree) + (IF bSegment = 0 THEN 0 ELSE 1) = PoolSize
PoolUntouched == bSegment = 0 /\ bFree = << >>
PoolFits ==
    /\ bFree \in Seq(1 .. PoolSize) /\ bSegment \in 0 .. PoolSize
    /\ bSegmentData # 0 => bSegmentData = bSegment
    /\ bLast.call = "nextSegment" => bLast.ok
    /\ PoolUntouched \/ PoolWhole
    /\ bEngine.at # "none" => PoolWhole
    /\ bInstance \in {"none", "live"} /\ bEngine.at = "none" => PoolUntouched

BridgeType ==
    /\ DOMAIN bEngine = {"at", "types"} /\ bEngine = [at |-> bEngine.at, types |-> bEngine.types]
    /\ DOMAIN bCas = {"types", "doc"} /\ bCas = [types |-> bCas.types, doc |-> bCas.doc]

BridgeInv == BridgeType /\ TypesFit /\ PoolFits

LEMMA BridgeInvInit == BInit => BridgeInv
<1> SUFFICES ASSUME BInit PROVE BridgeInv
  OBVIOUS
<1>1. BridgeType
  BY DEF BInit, BridgeType
<1>2. TypesFit
  BY DEF BInit, TypesFit
<1>3. PoolFits
  BY BridgeAssumption DEF BInit, PoolFits, PoolUntouched
<1> QED
  BY <1>1, <1>2, <1>3 DEF BridgeInv

\* What a queue has when its first element is taken or one more is put behind the last.
LEMMA TakenFromQueue ==
    ASSUME NEW S, NEW f \in Seq(S), f # << >>
    PROVE  /\ Tail(f) \in Seq(S) /\ Len(Tail(f)) = Len(f) - 1 /\ Head(f) \in S
           /\ {Tail(f)[i] : i \in DOMAIN Tail(f)} \cup {Head(f)} = {f[i] : i \in DOMAIN f}
<1>1. Len(f) \in Nat /\ Len(f) > 0 /\ DOMAIN f = 1 .. Len(f)
  OBVIOUS
<1>2. Tail(f) \in Seq(S) /\ Len(Tail(f)) = Len(f) - 1 /\ Head(f) = f[1] /\ Head(f) \in S
  BY <1>1
<1>3. \A i \in 1 .. Len(f) - 1 : Tail(f)[i] = f[i + 1]
  BY <1>1
<1>4. DOMAIN Tail(f) = 1 .. Len(f) - 1
  BY <1>2, <1>1
<1>5. ASSUME NEW x \in {f[i] : i \in DOMAIN f}
      PROVE  x \in {Tail(f)[i] : i \in DOMAIN Tail(f)} \cup {Head(f)}
  <2>1. PICK i \in 1 .. Len(f) : x = f[i]
    BY <1>1
  <2>2. CASE i = 1
    BY <2>1, <2>2, <1>2
  <2>3. CASE i # 1
    <3>1. i - 1 \in 1 .. Len(f) - 1
      BY <2>3, <1>1
    <3>2. Tail(f)[i - 1] = x
      BY <3>1, <1>3, <2>1
    <3> QED
      BY <3>1, <3>2, <1>4
  <2> QED
    BY <2>2, <2>3
<1>6. ASSUME NEW x \in {Tail(f)[i] : i \in DOMAIN Tail(f)} \cup {Head(f)}
      PROVE  x \in {f[i] : i \in DOMAIN f}
  <2>1. CASE x = Head(f)
    BY <2>1, <1>1, <1>2
  <2>2. CASE x # Head(f)
    <3>1. PICK i \in 1 .. Len(f) - 1 : x = Tail(f)[i]
      BY <2>2, <1>4
    <3>2. x = f[i + 1] /\ i + 1 \in 1 .. Len(f)
      BY <3>1, <1>1, <1>3
    <3> QED
      BY <3>2, <1>1
  <2> QED
    BY <2>1, <2>2
<1>7. QED
  BY <1>2, <1>5, <1>6

LEMMA PutInQueue ==
    ASSUME NEW S, NEW f \in Seq(S), NEW x \in S
    PROVE  /\ Append(f, x) \in Seq(S) /\ Len(Append(f, x)) = Len(f) + 1
           /\ {Append(f, x)[i] : i \in DOMAIN Append(f, x)} = {f[i] : i \in DOMAIN f} \cup {x}
<1> DEFINE g == Append(f, x)
<1>1. Len(f) \in Nat /\ DOMAIN f = 1 .. Len(f)
  OBVIOUS
<1>2. g \in Seq(S) /\ Len(g) = Len(f) + 1 /\ DOMAIN g = 1 .. Len(f) + 1
  BY <1>1
<1>3. /\ \A i \in 1 .. Len(f) : g[i] = f[i]
      /\ g[Len(f) + 1] = x
  BY <1>1
<1> HIDE DEF g
<1>4. ASSUME NEW y \in {g[i] : i \in DOMAIN g} PROVE y \in {f[i] : i \in DOMAIN f} \cup {x}
  <2>1. PICK i \in 1 .. Len(f) + 1 : y = g[i]
    BY <1>2
  <2>2. i \in 1 .. Len(f) \/ i = Len(f) + 1
    BY <1>1
  <2> QED
    BY <2>1, <2>2, <1>1, <1>3
<1>5. ASSUME NEW y \in {f[i] : i \in DOMAIN f} \cup {x} PROVE y \in {g[i] : i \in DOMAIN g}
  <2>1. CASE y = x
    <3>1. Len(f) + 1 \in DOMAIN g
      BY <1>1, <1>2
    <3> QED
      BY <2>1, <3>1, <1>3
  <2>2. CASE y # x
    <3>1. PICK i \in 1 .. Len(f) : y = f[i]
      BY <2>2, <1>1
    <3>2. i \in DOMAIN g /\ g[i] = y
      BY <3>1, <1>1, <1>2, <1>3
    <3> QED
      BY <3>2
  <2> QED
    BY <2>1, <2>2
<1>6. {g[i] : i \in DOMAIN g} = {f[i] : i \in DOMAIN f} \cup {x}
  BY <1>4, <1>5
<1> QED
  BY <1>2, <1>6 DEF g

\* The engine was told of the type system that was given, was destroyed, or threw.
LEMMA ToldOrNot ==
    ASSUME BridgeType, NEW r \in Reinitialized(bEngine), bEngine' = r.engine, bExcused' = r.threw
    PROVE  /\ DOMAIN bEngine' = {"at", "types"} /\ bEngine' = [at |-> bEngine'.at, types |-> bEngine'.types]
           /\ ~bExcused' => bEngine'.types = bGiven' \/ bEngine'.at = "destroyed"
           /\ bEngine'.at = "none" => bEngine.at = "none"
           /\ bEngine'.at # "none" \/ bEngine.at = "none"
<1>1. CASE r = [engine |-> [bEngine EXCEPT !.types = bGiven'], threw |-> FALSE]
  <2>1. bEngine' = [at |-> bEngine.at, types |-> bGiven']
    BY <1>1 DEF BridgeType
  <2> QED
    BY <2>1
<1>2. CASE r = [engine |-> [bEngine EXCEPT !.at = "destroyed"], threw |-> FALSE]
  <2>1. bEngine' = [at |-> "destroyed", types |-> bEngine.types]
    BY <1>2 DEF BridgeType
  <2> QED
    BY <2>1
<1>3. CASE r = [engine |-> bEngine, threw |-> TRUE]
  <2>1. bEngine' = bEngine /\ bExcused' = TRUE
    BY <1>3
  <2> QED
    BY <2>1 DEF BridgeType
<1>4. QED
  BY <1>1, <1>2, <1>3 DEF Reinitialized


\* An engine and a CAS stay records.
LEMMA BridgeTypeStep ==
    BridgeType /\ [BNext]_bVars => BridgeType'
<1> SUFFICES ASSUME BridgeType, [BNext]_bVars PROVE BridgeType'
  OBVIOUS
<1>1. ASSUME ConstructorJNI PROVE BridgeType'
  BY <1>1 DEF ConstructorJNI, bData, bPool, bTypes, bObject, bReply, Hosted, BridgeType
<1>2. ASSUME InitializeJNI PROVE BridgeType'
  BY <1>2 DEF InitializeJNI, bData, bPool, bTypes, bObject, bReply, Hosted, BridgeType
<1>3. ASSUME TypeSystemInitJNI PROVE BridgeType'
  <2>1. ASSUME NEW r \in Reinitialized(bEngine), bEngine' = r.engine, bExcused' = r.threw,
               bDefinition' = bGiven', bCas' = [types |-> bDefinition', doc |-> 0], bReply("typeSystemInit", TRUE)
        PROVE  BridgeType'
    BY <2>1, <1>3, ToldOrNot DEF TypeSystemInitJNI, BridgeType
  <2>2. ASSUME bDefinition' = 0, bExcused' = TRUE, UNCHANGED <<bEngine, bCas>>, bReply("typeSystemInit", FALSE)
        PROVE  BridgeType'
    BY <2>2, <1>3 DEF TypeSystemInitJNI, BridgeType
  <2>3. QED
    BY <2>1, <2>2, <1>3 DEF TypeSystemInitJNI
<1>4. ASSUME ProcessJNI PROVE BridgeType'
  BY <1>4 DEF ProcessJNI, bData, bPool, bTypes, bObject, bReply, Hosted, BridgeType
<1>5. ASSUME ResetJNI PROVE BridgeType'
  BY <1>5 DEF ResetJNI, bData, bPool, bTypes, bObject, bReply, Hosted, BridgeType
<1>6. ASSUME SerializeCASJNI PROVE BridgeType'
  BY <1>6 DEF SerializeCASJNI, bData, bPool, bTypes, bObject, bReply, Hosted, BridgeType
<1>7. ASSUME BatchProcessCompleteJNI PROVE BridgeType'
  BY <1>7 DEF BatchProcessCompleteJNI, bData, bPool, bTypes, bObject, bReply, Hosted, BridgeType
<1>8. ASSUME CollectionProcessCompleteJNI PROVE BridgeType'
  BY <1>8 DEF CollectionProcessCompleteJNI, bData, bPool, bTypes, bObject, bReply, Hosted, BridgeType
<1>9. ASSUME HasNextSegmentJNI PROVE BridgeType'
  BY <1>9 DEF HasNextSegmentJNI, bData, bPool, bTypes, bObject, bReply, Hosted, BridgeType
<1>10. ASSUME NextSegmentJNI PROVE BridgeType'
  BY <1>10 DEF NextSegmentJNI, bData, bPool, bTypes, bObject, bReply, Hosted, BridgeType
<1>11. ASSUME SerializeSegmentJNI PROVE BridgeType'
  BY <1>11 DEF SerializeSegmentJNI, bData, bPool, bTypes, bObject, bReply, Hosted, BridgeType
<1>12. ASSUME ReleaseSegmentJNI PROVE BridgeType'
  BY <1>12 DEF ReleaseSegmentJNI, bData, bPool, bTypes, bObject, bReply, Hosted, BridgeType
<1>13. ASSUME DestroyJNI PROVE BridgeType'
  BY <1>13 DEF DestroyJNI, bData, bPool, bTypes, bObject, bReply, Hosted, BridgeType
<1>14. ASSUME DestructorJNI PROVE BridgeType'
  BY <1>14 DEF DestructorJNI, bData, bPool, bTypes, bObject, bReply, Hosted, BridgeType
<1>15. ASSUME NEW d \in bDocuments, FillCASJNI(d) PROVE BridgeType'
  BY <1>15 DEF FillCASJNI, bData, bPool, bTypes, bObject, bReply, Hosted, BridgeType
<1>16. ASSUME NEW which \in AskedParts, GetSerializedDataJNI(which) PROVE BridgeType'
  BY <1>16 DEF GetSerializedDataJNI, bData, bPool, bTypes, bObject, bReply, Hosted, BridgeType
<1>17. ASSUME NEW which \in AskedParts, GetSerializedSegmentDataJNI(which) PROVE BridgeType'
  BY <1>17 DEF GetSerializedSegmentDataJNI, bData, bPool, bTypes, bObject, bReply, Hosted, BridgeType
<1>18. ASSUME UNCHANGED bVars PROVE BridgeType'
  BY <1>18 DEF bVars, BridgeType
<1>19. QED
  BY <1>1, <1>2, <1>3, <1>4, <1>5, <1>6, <1>7, <1>8, <1>9, <1>10, <1>11, <1>12, <1>13, <1>14, <1>15, <1>16, <1>17, <1>18 DEF BNext

\* A type system is given to the definition, the CAS and the engine, or the engine is destroyed.
LEMMA TypesFitStep ==
    BridgeType /\ TypesFit /\ [BNext]_bVars => TypesFit'
<1> SUFFICES ASSUME BridgeType, TypesFit, [BNext]_bVars PROVE TypesFit'
  OBVIOUS
<1>1. ASSUME ConstructorJNI PROVE TypesFit'
  BY <1>1 DEF ConstructorJNI, bData, bPool, bTypes, bObject, bReply, Hosted, TypesFit, BridgeType
<1>2. ASSUME InitializeJNI PROVE TypesFit'
  BY <1>2 DEF InitializeJNI, bData, bPool, bTypes, bObject, bReply, Hosted, TypesFit, BridgeType
<1>3. ASSUME TypeSystemInitJNI PROVE TypesFit'
  <2>1. ASSUME NEW r \in Reinitialized(bEngine), bEngine' = r.engine, bExcused' = r.threw,
               bDefinition' = bGiven', bCas' = [types |-> bDefinition', doc |-> 0], bReply("typeSystemInit", TRUE)
        PROVE  TypesFit'
    BY <2>1, <1>3, ToldOrNot DEF TypeSystemInitJNI, TypesFit, bReply
  <2>2. ASSUME bDefinition' = 0, bExcused' = TRUE, UNCHANGED <<bEngine, bCas>>, bReply("typeSystemInit", FALSE)
        PROVE  TypesFit'
    BY <2>2, <1>3 DEF TypeSystemInitJNI, TypesFit, bReply
  <2>3. QED
    BY <2>1, <2>2, <1>3 DEF TypeSystemInitJNI
<1>4. ASSUME ProcessJNI PROVE TypesFit'
  BY <1>4 DEF ProcessJNI, bData, bPool, bTypes, bObject, bReply, Hosted, TypesFit, BridgeType
<1>5. ASSUME ResetJNI PROVE TypesFit'
  BY <1>5 DEF ResetJNI, bData, bPool, bTypes, bObject, bReply, Hosted, TypesFit, BridgeType
<1>6. ASSUME SerializeCASJNI PROVE TypesFit'
  BY <1>6 DEF SerializeCASJNI, bData, bPool, bTypes, bObject, bReply, Hosted, TypesFit, BridgeType
<1>7. ASSUME BatchProcessCompleteJNI PROVE TypesFit'
  BY <1>7 DEF BatchProcessCompleteJNI, bData, bPool, bTypes, bObject, bReply, Hosted, TypesFit, BridgeType
<1>8. ASSUME CollectionProcessCompleteJNI PROVE TypesFit'
  BY <1>8 DEF CollectionProcessCompleteJNI, bData, bPool, bTypes, bObject, bReply, Hosted, TypesFit, BridgeType
<1>9. ASSUME HasNextSegmentJNI PROVE TypesFit'
  BY <1>9 DEF HasNextSegmentJNI, bData, bPool, bTypes, bObject, bReply, Hosted, TypesFit, BridgeType
<1>10. ASSUME NextSegmentJNI PROVE TypesFit'
  BY <1>10 DEF NextSegmentJNI, bData, bPool, bTypes, bObject, bReply, Hosted, TypesFit, BridgeType
<1>11. ASSUME SerializeSegmentJNI PROVE TypesFit'
  BY <1>11 DEF SerializeSegmentJNI, bData, bPool, bTypes, bObject, bReply, Hosted, TypesFit, BridgeType
<1>12. ASSUME ReleaseSegmentJNI PROVE TypesFit'
  BY <1>12 DEF ReleaseSegmentJNI, bData, bPool, bTypes, bObject, bReply, Hosted, TypesFit, BridgeType
<1>13. ASSUME DestroyJNI PROVE TypesFit'
  BY <1>13 DEF DestroyJNI, bData, bPool, bTypes, bObject, bReply, Hosted, TypesFit, BridgeType
<1>14. ASSUME DestructorJNI PROVE TypesFit'
  BY <1>14 DEF DestructorJNI, bData, bPool, bTypes, bObject, bReply, Hosted, TypesFit, BridgeType
<1>15. ASSUME NEW d \in bDocuments, FillCASJNI(d) PROVE TypesFit'
  BY <1>15 DEF FillCASJNI, bData, bPool, bTypes, bObject, bReply, Hosted, TypesFit, BridgeType
<1>16. ASSUME NEW which \in AskedParts, GetSerializedDataJNI(which) PROVE TypesFit'
  BY <1>16 DEF GetSerializedDataJNI, bData, bPool, bTypes, bObject, bReply, Hosted, TypesFit, BridgeType
<1>17. ASSUME NEW which \in AskedParts, GetSerializedSegmentDataJNI(which) PROVE TypesFit'
  BY <1>17 DEF GetSerializedSegmentDataJNI, bData, bPool, bTypes, bObject, bReply, Hosted, TypesFit, BridgeType
<1>18. ASSUME UNCHANGED bVars PROVE TypesFit'
  BY <1>18 DEF bVars, TypesFit, BridgeType
<1>19. QED
  BY <1>1, <1>2, <1>3, <1>4, <1>5, <1>6, <1>7, <1>8, <1>9, <1>10, <1>11, <1>12, <1>13, <1>14, <1>15, <1>16, <1>17, <1>18 DEF BNext

\* With the segment given back every CAS of the pool is free.
LEMMA WholeAfterRelease ==
    ASSUME PoolWhole, bFree \in Seq(1 .. PoolSize), bSegment \in 0 .. PoolSize
    PROVE  /\ FreeAfterRelease \in Seq(1 .. PoolSize)
           /\ {FreeAfterRelease[i] : i \in DOMAIN FreeAfterRelease} = 1 .. PoolSize
           /\ Len(FreeAfterRelease) = PoolSize
<1>1. CASE bSegment = 0
  <2>1. FreeAfterRelease = bFree
    BY <1>1 DEF FreeAfterRelease
  <2> QED
    BY <1>1, <2>1, BridgeAssumption DEF PoolWhole, Pooled
<1>2. CASE bSegment # 0
  <2>1. FreeAfterRelease = Append(bFree, bSegment) /\ bSegment \in 1 .. PoolSize
    BY <1>2, BridgeAssumption DEF FreeAfterRelease
  <2>2. {bFree[i] : i \in DOMAIN bFree} \cup {bSegment} = 1 .. PoolSize /\ Len(bFree) + 1 = PoolSize
    BY <1>2 DEF PoolWhole, Pooled
  <2> QED
    BY <2>1, <2>2, PutInQueue
<1>3. QED
  BY <1>1, <1>2

\* A segment goes back to the pool before the next one is taken from it.
LEMMA PoolFitsStep ==
    BridgeType /\ PoolFits /\ [BNext]_bVars => PoolFits'
<1> SUFFICES ASSUME BridgeType, PoolFits, [BNext]_bVars PROVE PoolFits'
  OBVIOUS
<1>1. ASSUME ConstructorJNI PROVE PoolFits'
  BY <1>1 DEF ConstructorJNI, bData, bPool, bTypes, bObject, bReply, Hosted, PoolFits, PoolWhole, PoolUntouched, Pooled, BridgeType
<1>2. ASSUME InitializeJNI PROVE PoolFits'
  <2>1. CASE UNCHANGED bFree
    <3>1. PoolUntouched /\ UNCHANGED <<bSegment, bSegmentData, bInstance>>
      BY <1>2 DEF InitializeJNI, PoolFits, bObject
    <3>2. bLast'.call = "initialize"
      BY <1>2 DEF InitializeJNI, bReply
    <3>3. bEngine'.at # "none" => PoolSize = 0
      <4>1. CASE bFree = [i \in 1 .. PoolSize |-> i]
        BY <4>1, <3>1, BridgeAssumption DEF PoolUntouched
      <4>2. CASE bFree # [i \in 1 .. PoolSize |-> i]
        BY <4>2, <2>1, <1>2 DEF InitializeJNI
      <4> QED
        BY <4>1, <4>2
    <3>4. PoolSize = 0 => PoolWhole'
      BY <3>1, <2>1 DEF PoolWhole, PoolUntouched, Pooled
    <3> QED
      BY <3>1, <3>2, <3>3, <3>4, <2>1 DEF PoolFits, PoolUntouched
  <2>2. CASE bFree' = [i \in 1 .. PoolSize |-> i]
    <3>1. bSegment' = 0 /\ bSegmentData' = bSegmentData /\ bLast'.call = "initialize" /\ bSegmentData = 0
      BY <1>2 DEF InitializeJNI, bReply, PoolFits, PoolUntouched
    <3>2. bFree' \in Seq(1 .. PoolSize) /\ Len(bFree') = PoolSize /\ DOMAIN bFree' = 1 .. PoolSize
      BY <2>2, BridgeAssumption
    <3>3. Pooled' = 1 .. PoolSize
      BY <2>2, <3>1, <3>2 DEF Pooled
    <3>4. PoolWhole'
      BY <3>1, <3>2, <3>3, BridgeAssumption DEF PoolWhole
    <3> QED
      <4>1. bInstance' = bInstance
        BY <1>2 DEF InitializeJNI, bObject
      <4>2. bEngine' = [at |-> "ready", types |-> 1] \/ (bEngine' = bEngine /\ bFree' = bFree)
        BY <1>2 DEF InitializeJNI
      <4>4. bFree = << >>
        BY <1>2 DEF InitializeJNI, PoolFits, PoolUntouched
      <4>3. bInstance' \in {"none", "live"} /\ bEngine'.at = "none" => PoolUntouched'
        <5>1. CASE bEngine' = [at |-> "ready", types |-> 1]
          BY <5>1
        <5>2. CASE bFree' = bFree
          BY <5>2, <4>4, <3>1 DEF PoolUntouched
        <5> QED
          BY <5>1, <5>2, <4>2
      <4> QED
        BY <3>1, <3>2, <3>4, <4>3, BridgeAssumption DEF PoolFits
  <2>3. QED
    BY <2>1, <2>2, <1>2 DEF InitializeJNI
<1>3. ASSUME TypeSystemInitJNI PROVE PoolFits'
  <2>1. ASSUME NEW r \in Reinitialized(bEngine), bEngine' = r.engine, bExcused' = r.threw,
               bDefinition' = bGiven', bCas' = [types |-> bDefinition', doc |-> 0], bReply("typeSystemInit", TRUE)
        PROVE  PoolFits'
    BY <2>1, <1>3, ToldOrNot DEF TypeSystemInitJNI, PoolFits, PoolWhole, PoolUntouched, Pooled, bReply, bPool, bObject, Hosted
  <2>2. ASSUME bDefinition' = 0, bExcused' = TRUE, UNCHANGED <<bEngine, bCas>>, bReply("typeSystemInit", FALSE)
        PROVE  PoolFits'
    BY <2>2, <1>3 DEF TypeSystemInitJNI, PoolFits, PoolWhole, PoolUntouched, Pooled, bReply, bPool, bObject, Hosted
  <2>3. QED
    BY <2>1, <2>2, <1>3 DEF TypeSystemInitJNI
<1>4. ASSUME ProcessJNI PROVE PoolFits'
  BY <1>4 DEF ProcessJNI, bData, bPool, bTypes, bObject, bReply, Hosted, PoolFits, PoolWhole, PoolUntouched, Pooled, BridgeType
<1>5. ASSUME ResetJNI PROVE PoolFits'
  BY <1>5 DEF ResetJNI, bData, bPool, bTypes, bObject, bReply, Hosted, PoolFits, PoolWhole, PoolUntouched, Pooled, BridgeType
<1>6. ASSUME SerializeCASJNI PROVE PoolFits'
  BY <1>6 DEF SerializeCASJNI, bData, bPool, bTypes, bObject, bReply, Hosted, PoolFits, PoolWhole, PoolUntouched, Pooled, BridgeType
<1>7. ASSUME BatchProcessCompleteJNI PROVE PoolFits'
  BY <1>7 DEF BatchProcessCompleteJNI, bData, bPool, bTypes, bObject, bReply, Hosted, PoolFits, PoolWhole, PoolUntouched, Pooled, BridgeType
<1>8. ASSUME CollectionProcessCompleteJNI PROVE PoolFits'
  BY <1>8 DEF CollectionProcessCompleteJNI, bData, bPool, bTypes, bObject, bReply, Hosted, PoolFits, PoolWhole, PoolUntouched, Pooled, BridgeType
<1>9. ASSUME HasNextSegmentJNI PROVE PoolFits'
  BY <1>9 DEF HasNextSegmentJNI, bData, bPool, bTypes, bObject, bReply, Hosted, PoolFits, PoolWhole, PoolUntouched, Pooled, BridgeType
<1>10. ASSUME NextSegmentJNI PROVE PoolFits'
  <2> DEFINE g == FreeAfterRelease
  <2>1. PoolWhole /\ bFree \in Seq(1 .. PoolSize) /\ bSegment \in 0 .. PoolSize /\ bSegmentData \in {0, bSegment}
    BY <1>10 DEF NextSegmentJNI, Hosted, PoolFits
  <2>2. g \in Seq(1 .. PoolSize) /\ {g[i] : i \in DOMAIN g} = 1 .. PoolSize /\ Len(g) = PoolSize /\ PoolSize > 0
    BY <2>1, WholeAfterRelease, <1>10 DEF NextSegmentJNI
  <2>3. g # << >>
    BY <2>2
  <2>4. /\ bSegment' = Head(g) /\ bFree' = Tail(g) /\ bSegmentData' = 0
        /\ UNCHANGED <<bEngine, bInstance>> /\ bLast'.ok = TRUE
    BY <1>10, <2>1, <2>3 DEF NextSegmentJNI, bObject, bReply
  <2> HIDE DEF g
  <2>5. /\ bFree' \in Seq(1 .. PoolSize) /\ Len(bFree') = PoolSize - 1 /\ bSegment' \in 1 .. PoolSize
        /\ {bFree'[i] : i \in DOMAIN bFree'} \cup {bSegment'} = 1 .. PoolSize
    <3>1. ASSUME NEW q, q = bFree' PROVE q = Tail(g)
      BY <3>1, <2>4
    <3>2. /\ Tail(g) \in Seq(1 .. PoolSize) /\ Len(Tail(g)) = PoolSize - 1 /\ Head(g) \in 1 .. PoolSize
          /\ {Tail(g)[i] : i \in DOMAIN Tail(g)} \cup {Head(g)} = 1 .. PoolSize
      BY <2>2, <2>3, TakenFromQueue
    <3> QED
      BY <3>2, <2>4
  <2>6. {bSegment'} \ {0} = {bSegment'} /\ bSegment' # 0
    BY <2>5, BridgeAssumption
  <2>7. Pooled' = 1 .. PoolSize
    BY <2>5, <2>6 DEF Pooled
  <2>8. PoolWhole'
    BY <2>7, <2>5, <2>6, BridgeAssumption DEF PoolWhole
  <2>9. QED
    BY <1>10, <2>4, <2>5, <2>8, BridgeAssumption DEF PoolFits, NextSegmentJNI, Hosted
<1>11. ASSUME SerializeSegmentJNI PROVE PoolFits'
  BY <1>11 DEF SerializeSegmentJNI, bData, bPool, bTypes, bObject, bReply, Hosted, PoolFits, PoolWhole, PoolUntouched, Pooled, BridgeType
<1>12. ASSUME ReleaseSegmentJNI PROVE PoolFits'
  <2>1. PoolWhole /\ bFree \in Seq(1 .. PoolSize) /\ bSegment \in 0 .. PoolSize /\ bSegmentData \in {0, bSegment}
    BY <1>12 DEF ReleaseSegmentJNI, Hosted, PoolFits
  <2>2. bFree' = FreeAfterRelease /\ bSegment' = 0 /\ bSegmentData' = 0 /\ UNCHANGED <<bEngine, bInstance>>
        /\ bLast'.call = "releaseSegment"
    BY <1>12, <2>1 DEF ReleaseSegmentJNI, bObject, bReply
  <2>3. PoolWhole'
    BY <2>2, WholeAfterRelease, <2>1 DEF PoolWhole, Pooled
  <2>4. QED
    BY <1>12, <2>1, <2>2, <2>3, WholeAfterRelease DEF PoolFits, ReleaseSegmentJNI, Hosted
<1>13. ASSUME DestroyJNI PROVE PoolFits'
  BY <1>13 DEF DestroyJNI, bData, bPool, bTypes, bObject, bReply, Hosted, PoolFits, PoolWhole, PoolUntouched, Pooled, BridgeType
<1>14. ASSUME DestructorJNI PROVE PoolFits'
  BY <1>14 DEF DestructorJNI, bData, bPool, bTypes, bObject, bReply, Hosted, PoolFits, PoolWhole, PoolUntouched, Pooled, BridgeType
<1>15. ASSUME NEW d \in bDocuments, FillCASJNI(d) PROVE PoolFits'
  BY <1>15 DEF FillCASJNI, bData, bPool, bTypes, bObject, bReply, Hosted, PoolFits, PoolWhole, PoolUntouched, Pooled, BridgeType
<1>16. ASSUME NEW which \in AskedParts, GetSerializedDataJNI(which) PROVE PoolFits'
  BY <1>16 DEF GetSerializedDataJNI, bData, bPool, bTypes, bObject, bReply, Hosted, PoolFits, PoolWhole, PoolUntouched, Pooled, BridgeType
<1>17. ASSUME NEW which \in AskedParts, GetSerializedSegmentDataJNI(which) PROVE PoolFits'
  BY <1>17 DEF GetSerializedSegmentDataJNI, bData, bPool, bTypes, bObject, bReply, Hosted, PoolFits, PoolWhole, PoolUntouched, Pooled, BridgeType
<1>18. ASSUME UNCHANGED bVars PROVE PoolFits'
  BY <1>18 DEF bVars, PoolFits, PoolWhole, PoolUntouched, Pooled, BridgeType
<1>19. QED
  BY <1>1, <1>2, <1>3, <1>4, <1>5, <1>6, <1>7, <1>8, <1>9, <1>10, <1>11, <1>12, <1>13, <1>14, <1>15, <1>16, <1>17, <1>18 DEF BNext

LEMMA BridgeInvStep == BridgeInv /\ [BNext]_bVars => BridgeInv'
BY BridgeTypeStep, TypesFitStep, PoolFitsStep DEF BridgeInv

LEMMA BridgeInvImplies == BridgeInv => ProcessedWithTheTypesGiven /\ SegmentsAreReturned
<1> SUFFICES ASSUME BridgeInv PROVE ProcessedWithTheTypesGiven /\ SegmentsAreReturned
  OBVIOUS
<1>1. ProcessedWithTheTypesGiven
  BY DEF BridgeInv, TypesFit, ProcessedWithTheTypesGiven
<1>2. SegmentsAreReturned
  BY DEF BridgeInv, PoolFits, PoolUntouched, PoolWhole, Pooled, SegmentsAreReturned
<1> QED
  BY <1>1, <1>2

----------------------------------------------------------------------------
(* Engines in Java *)

JavaRecords == [at : {"new", "ready", "gone"}, loader : BOOLEAN, vm : BOOLEAN, created : BOOLEAN, proxy : Int]
JavaType ==
    /\ jVm \in {"none", "running", "gone"}
    /\ jEngine \in [JavaEngines -> JavaRecords]
    /\ jTypes \in [JavaEngines -> Nat \ {0}]
    /\ jTold \in [JavaEngines -> BOOLEAN]
    /\ jOrder \in Seq(JavaEngines)
    /\ \A e \in JavaEngines : jEngine[e].at = "new" => jEngine[e] = NewJavaEngine

\* The engines that are ready are in the order they were made, each once.
OrderFits ==
    /\ \A e \in JavaEngines : jEngine[e].at = "ready" <=> \E k \in DOMAIN jOrder : jOrder[k] = e
    /\ \A k, m \in DOMAIN jOrder : jOrder[k] = jOrder[m] => k = m

\* Only the first engine made the VM; while it is there, so is the VM.
VmFits ==
    \A e \in JavaEngines : jEngine[e].at = "ready" =>
        /\ jVm = "running" /\ jEngine[e].vm /\ jEngine[e].proxy # NoProxy
        /\ jEngine[e].created => jOrder[1] = e

ProxyFits ==
    \A e \in JavaEngines : jEngine[e].at = "ready" /\ ~jTold[e] => jEngine[e].proxy = jTypes[e]

JavaInv == JavaType /\ OrderFits /\ (jOrderly => VmFits) /\ ProxyFits

LEMMA JavaInvInit == JInit => JavaInv
<1> SUFFICES ASSUME JInit PROVE JavaInv
  OBVIOUS
<1>1. JavaType
  BY DEF JInit, JavaType, JavaRecords, NewJavaEngine, NoProxy
<1>2. \A e \in JavaEngines : jEngine[e].at = "new"
  BY DEF JInit, NewJavaEngine
<1>3. OrderFits
  BY <1>2 DEF JInit, OrderFits
<1>4. VmFits /\ ProxyFits
  BY <1>2 DEF VmFits, ProxyFits
<1> QED
  BY <1>1, <1>3, <1>4 DEF JavaInv

\* What looking for a VM may come to.
LEMMA VmOutcomesFit ==
    ASSUME NEW r \in JavaRecords, NEW v \in VmOutcomes(r), jVm \in {"none", "running", "gone"}
    PROVE  /\ v.engine \in JavaRecords /\ v.engine.at = r.at /\ v.engine.proxy = r.proxy
           /\ v.ok \in BOOLEAN /\ v.vm \in {"none", "running", "gone"}
           /\ v.ok => v.engine.vm /\ v.vm = "running" /\ (v.engine.created => jVm = "none")
           /\ jVm = "running" => v.vm = "running" /\ ~v.engine.created /\ (r.vm => v.engine.vm)
<1>1. CASE v = [engine |-> [r EXCEPT !.created = FALSE], vm |-> jVm, ok |-> FALSE]
  BY <1>1 DEF JavaRecords
<1>2. CASE v = [engine |-> WithVm(r, FALSE), vm |-> jVm, ok |-> TRUE] /\ jVm = "running"
  BY <1>2 DEF JavaRecords, WithVm
<1>3. CASE v = [engine |-> [r EXCEPT !.created = TRUE, !.vm = FALSE], vm |-> jVm, ok |-> FALSE] /\ jVm # "running"
  BY <1>3 DEF JavaRecords
<1>4. CASE v = [engine |-> WithVm(r, TRUE), vm |-> "running", ok |-> TRUE] /\ jVm = "none"
  BY <1>4 DEF JavaRecords, WithVm
<1>5. QED
  BY <1>1, <1>2, <1>3, <1>4 DEF VmOutcomes

LEMMA ProxyOutcomesFit ==
    ASSUME NEW r \in JavaRecords, NEW types \in Nat \ {0}, NEW p \in ProxyOutcomes(r, types)
    PROVE  /\ p.engine \in JavaRecords /\ p.engine.at = r.at /\ p.engine.vm = r.vm
           /\ p.engine.created = r.created /\ p.ok \in BOOLEAN
           /\ p.ok => p.engine.proxy = types
           /\ r.proxy # NoProxy => p.engine.proxy # NoProxy
<1>1. CASE p = [engine |-> r, ok |-> FALSE]
  BY <1>1 DEF JavaRecords
<1>2. CASE p = [engine |-> [r EXCEPT !.proxy = Untold], ok |-> FALSE]
  BY <1>2 DEF JavaRecords, Untold, NoProxy
<1>3. CASE p = [engine |-> [r EXCEPT !.proxy = types], ok |-> TRUE]
  BY <1>3 DEF JavaRecords, NoProxy
<1>4. QED
  BY <1>1, <1>2, <1>3 DEF ProxyOutcomes

\* An engine that is initialized has a proxy that knows its types, in a VM that runs; a VM that ran
\* before is nobody's new one, and nothing that was there is lost.
LEMMA InitializeOutcomesFit ==
    ASSUME NEW r \in JavaRecords, NEW types \in Nat \ {0}, NEW i \in InitializeOutcomes(r, types),
           jVm \in {"none", "running", "gone"}
    PROVE  /\ i.engine \in JavaRecords /\ i.engine.at = r.at /\ i.ok \in BOOLEAN
           /\ i.vm \in {"none", "running", "gone"}
           /\ i.ok => /\ i.engine.vm /\ i.vm = "running" /\ i.engine.proxy = types
                      /\ i.engine.created => jVm = "none"
           /\ r.proxy # NoProxy => i.engine.proxy # NoProxy
           /\ jVm = "running" => /\ i.vm = "running" /\ (r.vm => i.engine.vm)
                                 /\ i.engine.created => r.created
<1>1. PICK l \in LoadedJvm(r) :
          i \in IF ~l.ok THEN {[engine |-> l.engine, vm |-> jVm, ok |-> FALSE]}
                ELSE UNION { IF ~v.ok THEN {v}
                             ELSE {[engine |-> p.engine, vm |-> v.vm, ok |-> p.ok] :
                                     p \in ProxyOutcomes(v.engine, types)}
                           : v \in VmOutcomes(l.engine) }
  BY DEF InitializeOutcomes
<1>2. /\ l.engine \in JavaRecords /\ l.engine.at = r.at /\ l.engine.proxy = r.proxy
      /\ l.engine.vm = r.vm /\ l.engine.created = r.created
  <2>1. CASE l = [engine |-> [r EXCEPT !.loader = TRUE], ok |-> TRUE]
    BY <2>1 DEF JavaRecords
  <2>2. CASE l = [engine |-> [r EXCEPT !.loader = TRUE], ok |-> FALSE]
    BY <2>2 DEF JavaRecords
  <2>3. CASE l = [engine |-> [r EXCEPT !.loader = FALSE], ok |-> FALSE]
    BY <2>3 DEF JavaRecords
  <2>4. QED
    BY <2>1, <2>2, <2>3 DEF LoadedJvm
<1>3. CASE ~l.ok
  <2>1. i = [engine |-> l.engine, vm |-> jVm, ok |-> FALSE]
    BY <1>1, <1>3
  <2>2. QED
    BY <1>2, <2>1
<1>4. CASE l.ok
  <2>1. PICK v \in VmOutcomes(l.engine) :
            i \in IF ~v.ok THEN {v}
                  ELSE {[engine |-> p.engine, vm |-> v.vm, ok |-> p.ok] : p \in ProxyOutcomes(v.engine, types)}
    BY <1>1, <1>4
  <2>2. /\ v.engine \in JavaRecords /\ v.engine.at = r.at /\ v.engine.proxy = r.proxy
        /\ v.ok \in BOOLEAN /\ v.vm \in {"none", "running", "gone"}
        /\ v.ok => v.engine.vm /\ v.vm = "running" /\ (v.engine.created => jVm = "none")
        /\ jVm = "running" => v.vm = "running" /\ ~v.engine.created /\ (r.vm => v.engine.vm)
    BY <1>2, VmOutcomesFit
  <2>3. CASE ~v.ok
    <3>1. i = v
      BY <2>1, <2>3
    <3>2. QED
      BY <3>1, <2>2, <2>3
  <2>4. CASE v.ok
    <3>1. PICK p \in ProxyOutcomes(v.engine, types) : i = [engine |-> p.engine, vm |-> v.vm, ok |-> p.ok]
      BY <2>1, <2>4
    <3>2. /\ p.engine \in JavaRecords /\ p.engine.at = r.at /\ p.engine.vm = v.engine.vm
          /\ p.engine.created = v.engine.created /\ p.ok \in BOOLEAN
          /\ p.ok => p.engine.proxy = types
          /\ r.proxy # NoProxy => p.engine.proxy # NoProxy
      BY <2>2, ProxyOutcomesFit
    <3>3. i.engine = p.engine /\ i.vm = v.vm /\ i.ok = p.ok
      BY <3>1
    <3>4. QED
      BY <3>2, <3>3, <2>2, <2>4
  <2>5. QED
    BY <2>3, <2>4
<1>5. QED
  BY <1>3, <1>4

\* The VM goes with the engine that made it.
LEMMA DestroyOutcomesFit ==
    ASSUME NEW r \in JavaRecords, NEW vm, NEW d \in DestroyOutcomes(r, vm)
    PROVE  /\ d.engine \in JavaRecords /\ d.engine.at = "gone"
           /\ d.vm = vm \/ (r.created /\ d.vm = "gone")
<1>1. CASE d = [engine |-> [r EXCEPT !.at = "gone"], vm |-> vm]
  BY <1>1 DEF JavaRecords
<1>2. CASE d = [engine |-> [r EXCEPT !.at = "gone", !.vm = FALSE, !.created = FALSE,
                                      !.loader = FALSE, !.proxy = NoProxy], vm |-> VmAfter(r, vm)]
  <2>1. d.engine \in JavaRecords /\ d.engine.at = "gone"
    <3>1. r = [at |-> r.at, loader |-> r.loader, vm |-> r.vm, created |-> r.created, proxy |-> r.proxy]
      BY DEF JavaRecords
    <3>2. d.engine = [at |-> "gone", loader |-> FALSE, vm |-> FALSE, created |-> FALSE, proxy |-> NoProxy]
      BY <1>2, <3>1
    <3>3. NoProxy \in Int
      BY DEF NoProxy
    <3>4. QED
      BY <3>2, <3>3 DEF JavaRecords
  <2>2. CASE r.created
    BY <1>2, <2>1, <2>2 DEF VmAfter
  <2>3. CASE ~r.created
    BY <1>2, <2>1, <2>3 DEF VmAfter
  <2>4. QED
    BY <2>2, <2>3
<1>3. QED
  BY <1>1, <1>2 DEF DestroyOutcomes

\* An engine that is left keeps its place or comes one nearer.
LEMMA WithoutOne ==
    ASSUME NEW S, NEW s \in Seq(S), NEW k \in DOMAIN s
    PROVE  /\ WithoutAt(s, k) \in Seq(S)
           /\ DOMAIN WithoutAt(s, k) = 1 .. Len(s) - 1
           /\ \A i \in 1 .. Len(s) - 1 : WithoutAt(s, k)[i] = IF i < k THEN s[i] ELSE s[i + 1]
<1>1. Len(s) \in Nat /\ DOMAIN s = 1 .. Len(s) /\ Len(s) - 1 \in Nat
  OBVIOUS
<1>2. \A i \in 1 .. Len(s) - 1 : (IF i < k THEN s[i] ELSE s[i + 1]) \in S
  BY <1>1
<1>3. QED
  BY <1>1, <1>2 DEF WithoutAt

LEMMA JavaInvStep == JavaInv /\ [JNext]_jVars => JavaInv'
<1> SUFFICES ASSUME JavaInv, [JNext]_jVars PROVE JavaInv'
  OBVIOUS
<1>0. JavaType /\ OrderFits /\ ProxyFits
  BY DEF JavaInv
<1>1. ASSUME NEW e \in JavaEngines, InitializeJava(e) PROVE JavaInv'
  <2>0. /\ jEngine[e].at = "new" /\ jEngine[e] = NewJavaEngine /\ jEngine[e] \in JavaRecords
        /\ jTypes[e] \in Nat \ {0} /\ UNCHANGED <<jTypes, jTold, jOrderly>>
    BY <1>0, <1>1 DEF InitializeJava, JavaType
  <2>n. \A k \in DOMAIN jOrder : jOrder[k] \in JavaEngines /\ jOrder[k] # e
    BY <1>0, <2>0 DEF OrderFits, JavaType
  <2>1. PICK i \in InitializeOutcomes(jEngine[e], jTypes[e]) :
            IF i.ok
            THEN /\ jEngine' = [jEngine EXCEPT ![e] = [i.engine EXCEPT !.at = "ready"]]
                 /\ jVm' = i.vm
                 /\ jOrder' = Append(jOrder, e)
            ELSE /\ \E d \in DestroyOutcomes(i.engine, i.vm) :
                       jEngine' = [jEngine EXCEPT ![e] = d.engine] /\ jVm' = d.vm
                 /\ UNCHANGED jOrder
    BY <1>1 DEF InitializeJava
  <2>2. /\ i.engine \in JavaRecords /\ i.ok \in BOOLEAN /\ i.vm \in {"none", "running", "gone"}
        /\ i.ok => /\ i.engine.vm /\ i.vm = "running" /\ i.engine.proxy = jTypes[e]
                   /\ i.engine.created => jVm = "none"
        /\ jVm = "running" => i.vm = "running" /\ ~i.engine.created
    BY <2>0, <1>0, InitializeOutcomesFit DEF JavaType, NewJavaEngine
  <2>3. CASE i.ok
    <3> DEFINE r == [i.engine EXCEPT !.at = "ready"]
    <3>1. /\ r \in JavaRecords /\ r.at = "ready" /\ r.vm /\ r.proxy = jTypes[e] /\ r.proxy # NoProxy
          /\ r.created => jVm = "none"
      BY <2>0, <2>2, <2>3 DEF JavaRecords, NoProxy
    <3> HIDE DEF r
    <3>2. jEngine' = [jEngine EXCEPT ![e] = r] /\ jVm' = "running" /\ jOrder' = Append(jOrder, e)
      BY <2>1, <2>2, <2>3 DEF r
    <3>3. /\ jEngine'[e] = r /\ jEngine' \in [JavaEngines -> JavaRecords]
          /\ \A f \in JavaEngines : f # e => jEngine'[f] = jEngine[f]
      BY <3>1, <3>2, <1>0 DEF JavaType
    <3>4. /\ Len(jOrder) \in Nat /\ DOMAIN jOrder = 1 .. Len(jOrder)
          /\ jOrder' \in Seq(JavaEngines) /\ DOMAIN jOrder' = 1 .. Len(jOrder) + 1
          /\ \A k \in 1 .. Len(jOrder) : jOrder'[k] = jOrder[k]
          /\ jOrder'[Len(jOrder) + 1] = e
      BY <3>2, <1>0 DEF JavaType
    <3>5. JavaType'
      BY <3>1, <3>2, <3>3, <3>4, <2>0, <1>0 DEF JavaType
    <3>6. OrderFits'
      <4>1. ASSUME NEW f \in JavaEngines
            PROVE  jEngine'[f].at = "ready" <=> \E k \in DOMAIN jOrder' : jOrder'[k] = f
        BY <3>1, <3>3, <3>4, <1>0, <2>n DEF OrderFits
      <4>2. ASSUME NEW k \in DOMAIN jOrder', NEW m \in DOMAIN jOrder', jOrder'[k] = jOrder'[m] PROVE k = m
        BY <4>2, <3>4, <1>0, <2>n DEF OrderFits
      <4> QED
        BY <4>1, <4>2 DEF OrderFits
    <3>7. ProxyFits'
      BY <3>1, <3>3, <2>0, <1>0 DEF ProxyFits
    <3>8. ASSUME jOrderly' PROVE VmFits'
      <4>1. VmFits
        BY <3>8, <2>0 DEF JavaInv
      <4>2. ASSUME r.created PROVE Len(jOrder) = 0
        <5>1. jVm = "none"
          BY <4>2, <3>1
        <5>2. \A f \in JavaEngines : jEngine[f].at # "ready"
          BY <4>1, <5>1 DEF VmFits
        <5>3. \A k \in DOMAIN jOrder : FALSE
          BY <5>2, <1>0, <2>n DEF OrderFits
        <5> QED
          BY <5>3, <3>4
      <4>3. ASSUME NEW f \in JavaEngines, jEngine'[f].at = "ready"
            PROVE  /\ jVm' = "running" /\ jEngine'[f].vm /\ jEngine'[f].proxy # NoProxy
                   /\ jEngine'[f].created => jOrder'[1] = f
        <5>1. CASE f = e
          BY <5>1, <3>1, <3>2, <3>3, <3>4, <4>2
        <5>2. CASE f # e
          <6>1. jEngine[f].at = "ready" /\ jEngine'[f] = jEngine[f]
            BY <4>3, <5>2, <3>3
          <6>2. PICK k \in DOMAIN jOrder : jOrder[k] = f
            BY <6>1, <1>0 DEF OrderFits
          <6>3. jOrder'[1] = jOrder[1]
            BY <6>2, <3>4
          <6> QED
            BY <6>1, <6>3, <4>1, <3>2 DEF VmFits
        <5> QED
          BY <5>1, <5>2
      <4> QED
        BY <4>3 DEF VmFits
    <3> QED
      BY <3>5, <3>6, <3>7, <3>8 DEF JavaInv
  <2>4. CASE ~i.ok
    <3>1. PICK d \in DestroyOutcomes(i.engine, i.vm) : jEngine' = [jEngine EXCEPT ![e] = d.engine] /\ jVm' = d.vm
      BY <2>1, <2>4
    <3>2. /\ d.engine \in JavaRecords /\ d.engine.at = "gone"
          /\ d.vm = i.vm \/ (i.engine.created /\ d.vm = "gone")
      BY <2>2, DestroyOutcomesFit
    <3>3. jOrder' = jOrder
      BY <2>1, <2>4
    <3>4. /\ jEngine'[e] = d.engine /\ jEngine' \in [JavaEngines -> JavaRecords]
          /\ \A f \in JavaEngines : f # e => jEngine'[f] = jEngine[f]
      BY <3>1, <3>2, <1>0 DEF JavaType
    <3>5. \A f \in JavaEngines : jEngine'[f].at = "ready" => jEngine[f].at = "ready" /\ f # e
      BY <3>2, <3>4
    <3>6. JavaType'
      BY <3>1, <3>2, <3>3, <3>4, <2>0, <2>2, <1>0 DEF JavaType
    <3>7. OrderFits'
      <4>1. \A f \in JavaEngines : jEngine'[f].at = "ready" <=> jEngine[f].at = "ready"
        BY <3>2, <3>4, <2>0
      <4> QED
        BY <4>1, <3>3, <1>0 DEF OrderFits
    <3>8. ProxyFits'
      BY <3>4, <3>5, <2>0, <1>0 DEF ProxyFits
    <3>9. ASSUME jOrderly' PROVE VmFits'
      <4>1. VmFits
        BY <3>9, <2>0 DEF JavaInv
      <4>2. ASSUME NEW f \in JavaEngines, jEngine'[f].at = "ready" PROVE jVm' = "running"
        BY <4>2, <4>1, <3>5, <2>2, <3>1, <3>2 DEF VmFits
      <4> QED
        BY <4>1, <4>2, <3>3, <3>4, <3>5 DEF VmFits
    <3> QED
      BY <3>6, <3>7, <3>8, <3>9 DEF JavaInv
  <2>5. QED
    BY <2>2, <2>3, <2>4
<1>2. ASSUME NEW e \in JavaEngines, ReinitJava(e) PROVE JavaInv'
  <2>0. /\ jEngine[e].at = "ready" /\ jEngine[e] \in JavaRecords /\ jTypes'[e] = jTypes[e] + 1
        /\ jTypes' \in [JavaEngines -> Nat \ {0}] /\ UNCHANGED <<jOrder, jOrderly>>
        /\ \A f \in JavaEngines : f # e => jTypes'[f] = jTypes[f]
    BY <1>0, <1>2 DEF ReinitJava, JavaType
  <2>1. PICK i \in InitializeOutcomes(jEngine[e], jTypes'[e]) :
            /\ jEngine' = [jEngine EXCEPT ![e] = i.engine]
            /\ jVm' = i.vm
            /\ jTold' = [jTold EXCEPT ![e] = ~i.ok]
    BY <1>2 DEF ReinitJava
  <2>t. jTypes'[e] \in Nat \ {0}
    BY <2>0
  <2>2. /\ i.engine \in JavaRecords /\ i.engine.at = "ready" /\ i.ok \in BOOLEAN
        /\ i.vm \in {"none", "running", "gone"}
        /\ i.ok => i.engine.proxy = jTypes'[e]
        /\ jEngine[e].proxy # NoProxy => i.engine.proxy # NoProxy
        /\ jVm = "running" => /\ i.vm = "running" /\ (jEngine[e].vm => i.engine.vm)
                              /\ i.engine.created => jEngine[e].created
    BY <2>0, <2>t, <1>0, InitializeOutcomesFit DEF JavaType
  <2>3. /\ jEngine'[e] = i.engine /\ jEngine' \in [JavaEngines -> JavaRecords] /\ jTold' \in [JavaEngines -> BOOLEAN]
        /\ jTold'[e] = ~i.ok
        /\ \A f \in JavaEngines : f # e => jEngine'[f] = jEngine[f] /\ jTold'[f] = jTold[f]
    BY <2>1, <2>2, <1>0 DEF JavaType
  <2>4. \A f \in JavaEngines : jEngine'[f].at = "ready" <=> jEngine[f].at = "ready"
    BY <2>0, <2>2, <2>3
  <2>5. JavaType'
    BY <2>0, <2>1, <2>2, <2>3, <1>0 DEF JavaType
  <2>6. OrderFits'
    BY <2>0, <2>4, <1>0 DEF OrderFits
  <2>7. ProxyFits'
    BY <2>0, <2>2, <2>3, <2>4, <1>0 DEF ProxyFits
  <2>8. ASSUME jOrderly' PROVE VmFits'
    <3>1. VmFits
      BY <2>8, <2>0 DEF JavaInv
    <3>2. jVm = "running" /\ jVm' = "running"
      BY <3>1, <2>0, <2>1, <2>2 DEF VmFits
    <3> QED
      BY <3>1, <3>2, <2>0, <2>2, <2>3, <2>4 DEF VmFits
  <2>9. QED
    BY <2>5, <2>6, <2>7, <2>8 DEF JavaInv
<1>3. ASSUME NEW e \in JavaEngines, ProcessJava(e) PROVE JavaInv'
  BY <1>3, <1>0 DEF ProcessJava, JavaInv, JavaType, OrderFits, VmFits, ProxyFits
<1>4. ASSUME NEW e \in JavaEngines, DestroyJava(e) PROVE JavaInv'
  <2>0. jEngine[e].at = "ready" /\ jEngine[e] \in JavaRecords /\ UNCHANGED <<jTypes, jTold>>
    BY <1>0, <1>4 DEF DestroyJava, JavaType
  <2>1. PICK d \in DestroyOutcomes(jEngine[e], jVm) : jEngine' = [jEngine EXCEPT ![e] = d.engine] /\ jVm' = d.vm
    BY <1>4 DEF DestroyJava
  <2>2. /\ d.engine \in JavaRecords /\ d.engine.at = "gone"
        /\ d.vm = jVm \/ (jEngine[e].created /\ d.vm = "gone")
    BY <2>0, DestroyOutcomesFit
  <2>3. PICK k \in DOMAIN jOrder : /\ jOrder[k] = e
                                   /\ jOrderly' = (jOrderly /\ k = Len(jOrder))
                                   /\ jOrder' = WithoutAt(jOrder, k)
    BY <1>4 DEF DestroyJava
  <2>4. /\ jOrder' \in Seq(JavaEngines) /\ DOMAIN jOrder' = 1 .. Len(jOrder) - 1
        /\ \A i \in 1 .. Len(jOrder) - 1 : jOrder'[i] = IF i < k THEN jOrder[i] ELSE jOrder[i + 1]
        /\ Len(jOrder) \in Nat /\ DOMAIN jOrder = 1 .. Len(jOrder)
    <3>1. jOrder \in Seq(JavaEngines)
      BY <1>0 DEF JavaType
    <3>2. /\ WithoutAt(jOrder, k) \in Seq(JavaEngines)
          /\ DOMAIN WithoutAt(jOrder, k) = 1 .. Len(jOrder) - 1
          /\ \A i \in 1 .. Len(jOrder) - 1 : WithoutAt(jOrder, k)[i] = IF i < k THEN jOrder[i] ELSE jOrder[i + 1]
      BY <3>1, WithoutOne
    <3>3. QED
      BY <3>1, <3>2, <2>3
  <2>5. /\ jEngine'[e] = d.engine /\ jEngine' \in [JavaEngines -> JavaRecords]
        /\ \A f \in JavaEngines : f # e => jEngine'[f] = jEngine[f]
    BY <2>1, <2>2, <1>0 DEF JavaType
  <2>6. \A f \in JavaEngines : jEngine'[f].at = "ready" <=> jEngine[f].at = "ready" /\ f # e
    BY <2>2, <2>5
  <2>7. JavaType'
    BY <2>0, <2>1, <2>2, <2>4, <2>5, <1>0 DEF JavaType
  <2>8. OrderFits'
    <3>1. ASSUME NEW f \in JavaEngines, jEngine[f].at = "ready", f # e
          PROVE  \E m \in DOMAIN jOrder' : jOrder'[m] = f
      <4>1. PICK m \in DOMAIN jOrder : jOrder[m] = f
        BY <3>1, <1>0 DEF OrderFits
      <4>2. m # k
        BY <4>1, <3>1, <2>3
      <4>3. CASE m < k
        BY <4>1, <4>3, <2>4
      <4>4. CASE m > k
        <5>1. m - 1 \in 1 .. Len(jOrder) - 1 /\ ~(m - 1 < k)
          BY <4>4, <2>4
        <5>2. jOrder'[m - 1] = f
          BY <5>1, <4>1, <2>4
        <5> QED
          BY <5>1, <5>2, <2>4
      <4> QED
        BY <4>2, <4>3, <4>4, <2>4
    <3>2. ASSUME NEW m \in DOMAIN jOrder'
          PROVE  \E n \in DOMAIN jOrder : n # k /\ jOrder'[m] = jOrder[n] /\ n = IF m < k THEN m ELSE m + 1
      BY <2>4
    <3>3. ASSUME NEW f \in JavaEngines, NEW m \in DOMAIN jOrder', jOrder'[m] = f
          PROVE  jEngine[f].at = "ready" /\ f # e
      BY <3>2, <3>3, <2>3, <1>0 DEF OrderFits
    <3>4. ASSUME NEW m \in DOMAIN jOrder', NEW n \in DOMAIN jOrder', jOrder'[m] = jOrder'[n] PROVE m = n
      <4>1. PICK m2 \in DOMAIN jOrder : jOrder'[m] = jOrder[m2] /\ m2 = IF m < k THEN m ELSE m + 1
        BY <3>2
      <4>2. PICK n2 \in DOMAIN jOrder : jOrder'[n] = jOrder[n2] /\ n2 = IF n < k THEN n ELSE n + 1
        BY <3>2
      <4>3. m2 = n2
        BY <4>1, <4>2, <3>4, <1>0 DEF OrderFits
      <4>4. k \in Nat /\ m \in Nat /\ n \in Nat
        BY <2>4
      <4> QED
        BY <4>1, <4>2, <4>3, <4>4
    <3> QED
      BY <3>1, <3>3, <3>4, <2>6 DEF OrderFits
  <2>9. ProxyFits'
    BY <2>0, <2>5, <2>6, <1>0 DEF ProxyFits
  <2>10. ASSUME jOrderly' PROVE VmFits'
    <3>1. VmFits /\ k = Len(jOrder)
      BY <2>10, <2>3 DEF JavaInv
    <3>2. ASSUME NEW f \in JavaEngines, jEngine[f].at = "ready", f # e
          PROVE  ~jEngine[e].created /\ jOrder'[1] = jOrder[1]
      <4>1. PICK m \in DOMAIN jOrder : jOrder[m] = f
        BY <3>2, <1>0 DEF OrderFits
      <4>2. m \in Nat /\ m < k /\ k > 1 /\ 1 \in DOMAIN jOrder
        BY <4>1, <3>1, <3>2, <2>3, <2>4
      <4>3. jOrder[1] # e
        BY <4>2, <2>3, <1>0 DEF OrderFits
      <4>4. jOrder'[1] = jOrder[1]
        BY <4>2, <3>1, <2>4
      <4> QED
        BY <4>3, <4>4, <3>1, <2>0 DEF VmFits
    <3>3. ASSUME NEW f \in JavaEngines, jEngine'[f].at = "ready"
          PROVE  /\ jVm' = "running" /\ jEngine'[f].vm /\ jEngine'[f].proxy # NoProxy
                 /\ jEngine'[f].created => jOrder'[1] = f
      <4>1. jEngine[f].at = "ready" /\ f # e /\ jEngine'[f] = jEngine[f]
        BY <3>3, <2>5, <2>6
      <4>2. ~jEngine[e].created /\ jOrder'[1] = jOrder[1]
        BY <4>1, <3>2
      <4>3. jVm' = jVm
        BY <4>2, <2>1, <2>2
      <4> QED
        BY <4>1, <4>2, <4>3, <3>1 DEF VmFits
    <3> QED
      BY <3>3 DEF VmFits
  <2>11. QED
    BY <2>7, <2>8, <2>9, <2>10 DEF JavaInv
<1>5. CASE UNCHANGED jVars
  BY <1>5 DEF jVars, JavaInv, JavaType, OrderFits, VmFits, ProxyFits
<1>6. QED
  BY <1>1, <1>2, <1>3, <1>4, <1>5 DEF JNext

LEMMA JavaInvImplies == JavaInv => CallsReachALivingVm
BY DEF JavaInv, VmFits, ProxyFits, CallsReachALivingVm

----------------------------------------------------------------------------
(* runAECpp *)

\* The CAS of a directory is empty until a file is read into it.  The CAS of a single file has it
\* once for each run that has read it.
Copies(f, n) == [k \in 1 .. n |-> f]
HasRead(i) == IF dAt[i] = "read" \/ (dAt[i] = "next" /\ dLeft[i] # {}) THEN dRuns[i] - 1 ELSE dRuns[i]
FilesFit(i) ==
    /\ dRuns[i] \in Nat /\ dLeft[i] \subseteq Input
    /\ dAt[i] \in {"run", "ended"} \/ dRuns[i] > 0
    /\ dAt[i] \notin {"run", "next", "ended"} => dFile[i] \in Input
    /\ dAt[i] \in {"route", "engine"} => dFile[i].whole
DirectoryFits(i) ==
    /\ dAt[i] \in {"run", "next", "read"} => dCas[i] = << >>
    /\ dAt[i] \in {"route", "engine"} => dCas[i] = Copies(dFile[i], 1)
SingleFits(i) ==
    /\ dAt[i] # "next" => dLeft[i] = {}
    /\ \A f \in Input : dCas[i] = Copies(f, HasRead(i))
DriverType ==
    /\ dAt = [i \in DriverInstances |-> dAt[i]] /\ dFile = [i \in DriverInstances |-> dFile[i]]
    /\ dCas = [i \in DriverInstances |-> dCas[i]] /\ dRuns = [i \in DriverInstances |-> dRuns[i]]
    /\ dLeft = [i \in DriverInstances |-> dLeft[i]]
    /\ ~dAsked.directory => ~dAsked.rand /\ Input # {} /\ \A f, g \in Input : f = g
CasFits(i) == FilesFit(i) /\ (IF dAsked.directory THEN DirectoryFits(i) ELSE SingleFits(i))
DriverInv == DriverType /\ \A i \in DriverInstances : CasFits(i)

LEMMA DriverInvInit == DInit => DriverInv
<1> SUFFICES ASSUME DInit PROVE DriverInv
  OBVIOUS
<1>1. ASSUME ~dAsked.directory PROVE Input # {} /\ \A f, g \in Input : f = g
  <2>1. PICK f : dAsked.files = {f}
    BY <1>1 DEF DInit
  <2>2. Input = {f} \/ Input = {AsText(f)}
    BY <2>1 DEF Input
  <2>3. QED
    BY <2>2
<1>2. dAsked.directory \/ ~dAsked.rand
  BY DEF DInit
<1>3. DriverType
  BY <1>1, <1>2 DEF DInit, DriverType
<1>4. ASSUME NEW i \in DriverInstances PROVE CasFits(i)
  <2>1. dRuns[i] = 0 /\ dLeft[i] = {} /\ dAt[i] \in {"run", "ended"} /\ dCas[i] = << >>
    BY DEF DInit
  <2>2. HasRead(i) = 0 /\ \A f : Copies(f, 0) = << >>
    BY <2>1 DEF HasRead, Copies
  <2>3. QED
    BY <2>1, <2>2 DEF CasFits, FilesFit, DirectoryFits, SingleFits
<1>5. QED
  BY <1>3, <1>4 DEF DriverInv

\* Reading a file once more.
LEMMA OneMoreCopy ==
    ASSUME NEW f, NEW n \in Nat
    PROVE  /\ Append(Copies(f, n), f) = Copies(f, n + 1)
           /\ Append(<< >>, f) = Copies(f, 1)
BY DEF Copies

\* Nobody but the instance that takes a step is touched by it.
LEMMA OthersKeepTheirCas ==
    ASSUME DriverInv, DriverType', dAsked' = dAsked, NEW i \in DriverInstances, CasFits(i)',
           \A j \in DriverInstances \ {i} :
               dAt'[j] = dAt[j] /\ dRuns'[j] = dRuns[j] /\ dLeft'[j] = dLeft[j] /\ dFile'[j] = dFile[j] /\ dCas'[j] = dCas[j]
    PROVE  DriverInv'
<1>1. ASSUME NEW j \in DriverInstances, j # i PROVE CasFits(j)'
  <2>1. CasFits(j)
    BY DEF DriverInv
  <2>2. Input' = Input
    BY DEF Input
  <2>3. QED
    BY <1>1, <2>1, <2>2 DEF CasFits, FilesFit, DirectoryFits, SingleFits, HasRead
<1>2. QED
  BY <1>1 DEF DriverInv

LEMMA DriverInvStep == DriverInv /\ [DNext]_dVars => DriverInv'
<1> SUFFICES ASSUME DriverInv, [DNext]_dVars PROVE DriverInv'
  OBVIOUS
<1>a. ASSUME dAsked' = dAsked PROVE Input' = Input
  BY <1>a DEF Input
<1>t. ASSUME dAsked' = dAsked, dAt' = [i \in DriverInstances |-> dAt'[i]], dFile' = [i \in DriverInstances |-> dFile'[i]],
             dCas' = [i \in DriverInstances |-> dCas'[i]], dRuns' = [i \in DriverInstances |-> dRuns'[i]],
             dLeft' = [i \in DriverInstances |-> dLeft'[i]]
      PROVE  DriverType'
  BY <1>a, <1>t DEF DriverInv, DriverType
<1>f. ASSUME NEW i \in DriverInstances PROVE CasFits(i) /\ DriverType
  BY DEF DriverInv
<1> USE DEF dGoes, dFiles
<1>1. ASSUME NEW i \in DriverInstances, BeginRun(i) PROVE DriverInv'
  <2>1. dAsked' = dAsked /\ dAt[i] = "run" /\ dAt'[i] = "next" /\ dRuns'[i] = dRuns[i] + 1 /\ dLeft'[i] = Input
        /\ dCas' = dCas /\ dFile' = dFile
    BY <1>1, <1>f DEF BeginRun, DriverType
  <2>2. CasFits(i)'
    BY <2>1, <1>a, <1>f DEF CasFits, FilesFit, DirectoryFits, SingleFits, HasRead, DriverType
  <2>3. QED
    BY <1>1, <1>t, <1>f, <2>2, OthersKeepTheirCas DEF BeginRun, DriverType
<1>2. ASSUME NEW i \in DriverInstances, NextFile(i) PROVE DriverInv'
  <2>1. PICK f \in dLeft[i] : TakeFile(i, f) /\ dLeft' = [dLeft EXCEPT ![i] = @ \ {f}]
    BY <1>2 DEF NextFile
  <2>2. dAsked' = dAsked /\ dAt[i] = "next" /\ dAt'[i] = "read" /\ dRuns' = dRuns /\ dLeft'[i] = dLeft[i] \ {f}
        /\ dCas' = dCas /\ dFile'[i] = f
    BY <2>1, <1>f DEF TakeFile, DriverType
  <2>3. CasFits(i)'
    BY <2>2, <1>a, <1>f DEF CasFits, FilesFit, DirectoryFits, SingleFits, HasRead, DriverType
  <2>4. QED
    BY <2>1, <1>t, <1>f, <2>3, OthersKeepTheirCas DEF TakeFile, DriverType
<1>3. ASSUME NEW i \in DriverInstances, PickFile(i) PROVE DriverInv'
  <2>1. PICK f \in dLeft[i] : TakeFile(i, f) /\ dLeft' = dLeft
    BY <1>3 DEF PickFile
  <2>2. dAsked' = dAsked /\ dAt[i] = "next" /\ dAt'[i] = "read" /\ dRuns' = dRuns
        /\ dCas' = dCas /\ dFile'[i] = f /\ dAsked.rand
    BY <2>1, <1>3, <1>f DEF TakeFile, DriverType, PickFile
  <2>3. CasFits(i)'
    BY <2>1, <2>2, <1>a, <1>f DEF CasFits, FilesFit, DirectoryFits, SingleFits, HasRead, DriverType
  <2>4. QED
    BY <2>1, <1>t, <1>f, <2>3, OthersKeepTheirCas DEF TakeFile, DriverType
<1>4. ASSUME NEW i \in DriverInstances, AfterFile(i) PROVE DriverInv'
  <2>1. dAsked' = dAsked /\ dAt[i] = "after" /\ dAt'[i] = "next" /\ dRuns' = dRuns /\ dLeft' = dLeft
        /\ dCas'[i] = CasAfterFile(dCas[i]) /\ dFile' = dFile
    BY <1>4, <1>f DEF AfterFile, DriverType
  <2>2. CasFits(i)'
    BY <2>1, <1>a, <1>f DEF CasFits, FilesFit, DirectoryFits, SingleFits, HasRead, CasAfterFile
  <2>3. QED
    BY <1>4, <1>t, <1>f, <2>2, OthersKeepTheirCas DEF AfterFile, DriverType
<1>5. ASSUME NEW i \in DriverInstances, EndRun(i) PROVE DriverInv'
  <2>1. dAsked' = dAsked /\ dAt[i] = "next" /\ dAt'[i] = "run" /\ dRuns' = dRuns /\ dLeft' = dLeft
        /\ dCas' = dCas /\ dFile' = dFile /\ (~dAsked.rand => dLeft[i] = {})
    BY <1>5, <1>f DEF EndRun, DriverType
  <2>2. CasFits(i)'
    BY <2>1, <1>a, <1>f DEF CasFits, FilesFit, DirectoryFits, SingleFits, HasRead, DriverType
  <2>3. QED
    BY <1>5, <1>t, <1>f, <2>2, OthersKeepTheirCas DEF EndRun, DriverType
<1>6. ASSUME NEW i \in DriverInstances, EndInstance(i) PROVE DriverInv'
  <2>1. dAsked' = dAsked /\ dAt[i] = "run" /\ dAt'[i] = "ended" /\ UNCHANGED <<dRuns, dLeft, dCas, dFile>>
    BY <1>6, <1>f DEF EndInstance, DriverType
  <2>2. CasFits(i)'
    BY <2>1, <1>a, <1>f DEF CasFits, FilesFit, DirectoryFits, SingleFits, HasRead
  <2>3. QED
    BY <1>6, <1>t, <1>f, <2>2, OthersKeepTheirCas DEF EndInstance, DriverType
<1>7. ASSUME NEW i \in DriverInstances, ReadFile(i) PROVE DriverInv'
  <2>1. dAsked' = dAsked /\ dAt[i] = "read" /\ dAt'[i] = (IF dFile[i].whole THEN "route" ELSE "after")
        /\ UNCHANGED <<dRuns, dLeft, dFile>> /\ dCas'[i] = Append(dCas[i], dFile[i])
    BY <1>7, <1>f DEF ReadFile, DriverType
  <2>2. FilesFit(i)'
    BY <2>1, <1>a, <1>f DEF CasFits, FilesFit
  <2>3. CASE dAsked.directory
    <3>1. dCas'[i] = Copies(dFile[i], 1)
      BY <2>1, <2>3, <1>f, OneMoreCopy DEF CasFits, DirectoryFits
    <3>2. DirectoryFits(i)'
      BY <2>1, <3>1 DEF DirectoryFits
    <3>3. QED
      BY <2>1, <2>2, <2>3, <3>2, <1>t, <1>f, <1>7, OthersKeepTheirCas DEF CasFits, ReadFile, DriverType
  <2>4. CASE ~dAsked.directory
    <3>1. dFile[i] \in Input /\ dRuns[i] \in Nat /\ dRuns[i] > 0 /\ HasRead(i) = dRuns[i] - 1 /\ dLeft[i] = {}
      BY <2>1, <2>4, <1>f DEF CasFits, FilesFit, SingleFits, HasRead
    <3>2. dCas[i] = Copies(dFile[i], dRuns[i] - 1)
      BY <2>4, <3>1, <1>f DEF CasFits, SingleFits
    <3>3. dCas'[i] = Copies(dFile[i], dRuns[i])
      <4>1. dRuns[i] - 1 \in Nat /\ (dRuns[i] - 1) + 1 = dRuns[i]
        BY <3>1
      <4>2. QED
        BY <2>1, <3>2, <4>1, OneMoreCopy
    <3>4. HasRead(i)' = dRuns[i]
      BY <2>1 DEF HasRead
    <3>5. \A f \in Input : f = dFile[i]
      BY <2>4, <3>1, <1>f DEF DriverType
    <3>6. SingleFits(i)'
      BY <2>1, <3>1, <3>3, <3>4, <3>5, <1>a DEF SingleFits
    <3>7. QED
      BY <2>1, <2>2, <2>4, <3>6, <1>t, <1>f, <1>7, OthersKeepTheirCas DEF CasFits, ReadFile, DriverType
  <2>5. QED
    BY <2>3, <2>4
<1>8. ASSUME NEW i \in DriverInstances, Unreadable(i) PROVE DriverInv'
  <2>1. UNCHANGED <<dAsked, dAt, dRuns, dLeft, dFile, dCas>>
    BY <1>8 DEF Unreadable, dExits
  <2>2. QED
    BY <2>1, <1>a, <1>t, <1>f, OthersKeepTheirCas DEF CasFits, FilesFit, DirectoryFits, SingleFits, HasRead, DriverType
<1>9. ASSUME NEW i \in DriverInstances, SofaNotFound(i) PROVE DriverInv'
  <2>1. UNCHANGED <<dAsked, dAt, dRuns, dLeft, dFile, dCas>>
    BY <1>9 DEF SofaNotFound, dExits
  <2>2. QED
    BY <2>1, <1>a, <1>t, <1>f, OthersKeepTheirCas DEF CasFits, FilesFit, DirectoryFits, SingleFits, HasRead, DriverType
<1>10. ASSUME NEW i \in DriverInstances, CannotWrite(i) PROVE DriverInv'
  <2>1. UNCHANGED <<dAsked, dAt, dRuns, dLeft, dFile, dCas>>
    BY <1>10 DEF CannotWrite, dExits
  <2>2. QED
    BY <2>1, <1>a, <1>t, <1>f, OthersKeepTheirCas DEF CasFits, FilesFit, DirectoryFits, SingleFits, HasRead, DriverType
<1>11. ASSUME NEW i \in DriverInstances, FindsSofa(i) PROVE DriverInv'
  <2>1. dAsked' = dAsked /\ dAt[i] = "route" /\ dAt'[i] \in {"engine"} /\ UNCHANGED <<dRuns, dLeft, dCas, dFile>>
    BY <1>11, <1>f DEF FindsSofa, DriverType
  <2>2. CasFits(i)'
    BY <2>1, <1>a, <1>f DEF CasFits, FilesFit, DirectoryFits, SingleFits, HasRead
  <2>3. QED
    BY <1>11, <1>t, <1>f, <2>2, OthersKeepTheirCas DEF FindsSofa, DriverType
<1>12. ASSUME NEW i \in DriverInstances, UsesCas(i) PROVE DriverInv'
  <2>1. dAsked' = dAsked /\ dAt[i] = "route" /\ dAt'[i] \in {"engine"} /\ UNCHANGED <<dRuns, dLeft, dCas, dFile>>
    BY <1>12, <1>f DEF UsesCas, DriverType
  <2>2. CasFits(i)'
    BY <2>1, <1>a, <1>f DEF CasFits, FilesFit, DirectoryFits, SingleFits, HasRead
  <2>3. QED
    BY <1>12, <1>t, <1>f, <2>2, OthersKeepTheirCas DEF UsesCas, DriverType
<1>13. ASSUME NEW i \in DriverInstances, EngineProcesses(i) PROVE DriverInv'
  <2>1. dAsked' = dAsked /\ dAt[i] = "engine" /\ dAt'[i] \in {"outputs", "after"} /\ UNCHANGED <<dRuns, dLeft, dCas, dFile>>
    BY <1>13, <1>f DEF EngineProcesses, DriverType
  <2>2. CasFits(i)'
    BY <2>1, <1>a, <1>f DEF CasFits, FilesFit, DirectoryFits, SingleFits, HasRead
  <2>3. QED
    BY <1>13, <1>t, <1>f, <2>2, OthersKeepTheirCas DEF EngineProcesses, DriverType
<1>14. ASSUME NEW i \in DriverInstances, NextOutput(i) PROVE DriverInv'
  <2>1. dAsked' = dAsked /\ dAt[i] = "outputs" /\ dAt'[i] \in {"writing"} /\ UNCHANGED <<dRuns, dLeft, dCas, dFile>>
    BY <1>14, <1>f DEF NextOutput, DriverType
  <2>2. CasFits(i)'
    BY <2>1, <1>a, <1>f DEF CasFits, FilesFit, DirectoryFits, SingleFits, HasRead
  <2>3. QED
    BY <1>14, <1>t, <1>f, <2>2, OthersKeepTheirCas DEF NextOutput, DriverType
<1>15. ASSUME NEW i \in DriverInstances, WriteOutput(i) PROVE DriverInv'
  <2>1. dAsked' = dAsked /\ dAt[i] = "writing" /\ dAt'[i] \in {"outputs", "after"} /\ UNCHANGED <<dRuns, dLeft, dCas, dFile>>
    BY <1>15, <1>f DEF WriteOutput, DriverType
  <2>2. CasFits(i)'
    BY <2>1, <1>a, <1>f DEF CasFits, FilesFit, DirectoryFits, SingleFits, HasRead
  <2>3. QED
    BY <1>15, <1>t, <1>f, <2>2, OthersKeepTheirCas DEF WriteOutput, DriverType
<1>16. ASSUME NEW i \in DriverInstances, WriteInput(i) PROVE DriverInv'
  <2>1. dAsked' = dAsked /\ dAt[i] = "outputs" /\ dAt'[i] \in {"after"} /\ UNCHANGED <<dRuns, dLeft, dCas, dFile>>
    BY <1>16, <1>f DEF WriteInput, DriverType
  <2>2. CasFits(i)'
    BY <2>1, <1>a, <1>f DEF CasFits, FilesFit, DirectoryFits, SingleFits, HasRead
  <2>3. QED
    BY <1>16, <1>t, <1>f, <2>2, OthersKeepTheirCas DEF WriteInput, DriverType
<1>17. CASE UNCHANGED dVars
  BY <1>17, <1>a, <1>t, <1>f DEF dVars, DriverInv, DriverType, CasFits, FilesFit, DirectoryFits, SingleFits, HasRead
<1>18. QED
  BY <1>1, <1>2, <1>3, <1>4, <1>5, <1>6, <1>7, <1>8, <1>9, <1>10, <1>11, <1>12, <1>13, <1>14, <1>15, <1>16, <1>17 DEF DNext

LEMMA DriverInvImplies == DriverInv => EngineSeesItsFile
<1> SUFFICES ASSUME DriverInv, NEW i \in DriverInstances, dAt[i] = "engine"
             PROVE  /\ dFile[i].whole
                    /\ dCas[i] = [n \in 1 .. (IF dAsked.directory THEN 1 ELSE dRuns[i]) |-> dFile[i]]
  BY DEF EngineSeesItsFile
<1>1. dFile[i].whole /\ dFile[i] \in Input
  BY DEF DriverInv, CasFits, FilesFit
<1>2. dCas[i] = Copies(dFile[i], IF dAsked.directory THEN 1 ELSE dRuns[i])
  BY <1>1 DEF DriverInv, CasFits, DirectoryFits, SingleFits, HasRead
<1>3. QED
  BY <1>1, <1>2 DEF Copies

----------------------------------------------------------------------------
(* The resource manager *)

ResourcesType ==
    /\ rUp \in BOOLEAN /\ rMade \in Nat
    /\ rLoaded \in Seq(AllLibraries) /\ rLoads \in [AllLibraries -> Nat]
    /\ rEngine \in [Engines -> {"none", "ready", "destroyed"}]
    /\ rAnnotator \in [Engines -> AllLibraries \cup {NoLibrary}]

\* A library the manager keeps was loaded once, and no other is loaded.
LoadsFit == \A l \in AllLibraries : rLoads[l] = IF Cached(l) THEN 1 ELSE 0

\* Unless the manager was deleted too early: an engine has a manager, which keeps its library.
EnginesFit ==
    /\ \A e \in Engines : rEngine[e] # "none" => rUp
    /\ \A e \in Engines : rEngine[e] = "ready" => rAnnotator[e] \in AllLibraries /\ Cached(rAnnotator[e])
    /\ "library" \notin rDead

\* The mutex of the logs lives as long as the first manager.
LogFits ==
    /\ rMade = 0 => rLogMutex = "none" /\ ~rUp
    /\ rMade = 1 /\ rUp => rLogMutex = "live"
    /\ ~rEarly /\ rMade <= 1 => "log" \notin rDead

ResourcesInv == ResourcesType /\ LoadsFit /\ (rEarly \/ EnginesFit) /\ LogFits

LEMMA ResourcesInvInit == RInit => ResourcesInv
<1> SUFFICES ASSUME RInit PROVE ResourcesInv
  OBVIOUS
<1>1. ResourcesType
  <2>1. rLoaded \in Seq(AllLibraries) /\ rLoads \in [AllLibraries -> Nat] /\ rMade \in Nat
    BY DEF RInit
  <2>4. rUp \in BOOLEAN
    BY DEF RInit
  <2>2. rEngine \in [Engines -> {"none", "ready", "destroyed"}]
    BY DEF RInit
  <2>3. rAnnotator \in [Engines -> AllLibraries \cup {NoLibrary}]
    BY DEF RInit
  <2> QED
    BY <2>1, <2>2, <2>3, <2>4 DEF ResourcesType
<1>2. LoadsFit
  BY DEF RInit, LoadsFit, Cached
<1>3. EnginesFit
  BY DEF RInit, EnginesFit
<1>4. LogFits
  BY DEF RInit, LogFits
<1> QED
  BY <1>1, <1>2, <1>3, <1>4 DEF ResourcesInv

\* A library that is asked for is there, once, unless it cannot be found; the others stay.
LEMMA LibraryIsThere ==
    ASSUME rLoaded \in Seq(AllLibraries), rLoads \in [AllLibraries -> Nat], LoadsFit,
           NEW l \in AllLibraries, GetResource(l)
    PROVE  /\ rLoaded' \in Seq(AllLibraries) /\ rLoads' \in [AllLibraries -> Nat] /\ LoadsFit'
           /\ \A m \in AllLibraries : Cached(m) => Cached(m)'
           /\ l \notin BadLibraries.missing => Cached(l)'
<1>1. CASE Cached(l) \/ AnnotatorFileInit(l) = "error"
  <2>1. rLoaded' = rLoaded /\ rLoads' = rLoads
    BY <1>1 DEF GetResource
  <2>2. \A m \in AllLibraries : Cached(m)' <=> Cached(m)
    BY <2>1 DEF Cached
  <2>3. LoadsFit'
    BY <2>1, <2>2 DEF LoadsFit
  <2> QED
    BY <2>1, <2>2, <2>3, <1>1 DEF AnnotatorFileInit
<1>2. CASE ~Cached(l) /\ AnnotatorFileInit(l) # "error"
  <2>1. rLoaded' = Append(rLoaded, l) /\ rLoads' = [rLoads EXCEPT ![l] = @ + 1]
    BY <1>2 DEF GetResource
  <2>2. \A m \in AllLibraries : Cached(m)' <=> Cached(m) \/ m = l
    <3>1. /\ Len(rLoaded) \in Nat /\ DOMAIN rLoaded = 1 .. Len(rLoaded)
          /\ DOMAIN rLoaded' = 1 .. Len(rLoaded) + 1
          /\ rLoaded'[Len(rLoaded) + 1] = l
          /\ \A k \in 1 .. Len(rLoaded) : rLoaded'[k] = rLoaded[k]
      BY <2>1
    <3>2. ASSUME NEW m \in AllLibraries, Cached(m)' PROVE Cached(m) \/ m = l
      <4>1. PICK k \in 1 .. Len(rLoaded) + 1 : rLoaded'[k] = m
        BY <3>1, <3>2 DEF Cached
      <4>2. k \in 1 .. Len(rLoaded) \/ k = Len(rLoaded) + 1
        BY <3>1
      <4> QED
        BY <3>1, <4>1, <4>2 DEF Cached
    <3>3. ASSUME NEW m \in AllLibraries, Cached(m) PROVE Cached(m)'
      BY <3>1, <3>3 DEF Cached
    <3>4. Cached(l)'
      <4>1. Len(rLoaded) + 1 \in DOMAIN rLoaded'
        BY <3>1
      <4> QED
        BY <3>1, <4>1 DEF Cached
    <3> QED
      BY <3>2, <3>3, <3>4
  <2>3. ASSUME NEW m \in AllLibraries PROVE rLoads'[m] = IF Cached(m)' THEN 1 ELSE 0
    <3>1. CASE m = l
      BY <3>1, <2>1, <2>2, <1>2 DEF LoadsFit
    <3>2. CASE m # l
      BY <3>2, <2>1, <2>2 DEF LoadsFit
    <3> QED
      BY <3>1, <3>2
  <2>4. LoadsFit'
    BY <2>3 DEF LoadsFit
  <2>5. rLoaded' \in Seq(AllLibraries) /\ rLoads' \in [AllLibraries -> Nat]
    BY <2>1
  <2> QED
    BY <2>2, <2>4, <2>5
<1>3. QED
  BY <1>1, <1>2

\* While the first manager is there, a log is written through a mutex that lives.
LEMMA LogLives == LogFits /\ rMade = 1 /\ rUp => DoLog = {}
BY DEF LogFits, DoLog

\* What an engine may ask of the manager leaves everybody else what he has.
LEMMA ManagerAsked ==
    ASSUME ResourcesInv, NEW l \in AllLibraries, rUp, GetResource(l), rDead' = rDead \cup DoLog,
           UNCHANGED <<rManager, rEngine, rAnnotator>>
    PROVE  ResourcesInv'
<1>0. ResourcesType /\ LoadsFit /\ LogFits /\ UNCHANGED <<rUp, rMade, rLogMutex, rEarly>>
  BY DEF ResourcesInv, rManager
<1>1. /\ rLoaded' \in Seq(AllLibraries) /\ rLoads' \in [AllLibraries -> Nat] /\ LoadsFit'
      /\ \A m \in AllLibraries : Cached(m) => Cached(m)'
  BY <1>0, LibraryIsThere DEF ResourcesType
<1>2. ResourcesType'
  BY <1>0, <1>1 DEF ResourcesType
<1>3. LogFits'
  BY <1>0, LogLives DEF LogFits, ResourcesType
<1>4. EnginesFit => EnginesFit'
  BY <1>0, <1>1 DEF EnginesFit, DoLog
<1>5. QED
  BY <1>0, <1>1, <1>2, <1>3, <1>4 DEF ResourcesInv

LEMMA ResourcesInvStep == ResourcesInv /\ [RNext]_rVars => ResourcesInv'
<1> SUFFICES ASSUME ResourcesInv, [RNext]_rVars PROVE ResourcesInv'
  OBVIOUS
<1>0. ResourcesType /\ LoadsFit /\ LogFits
  BY DEF ResourcesInv
<1>1. ASSUME NEW map \in HandlerMaps, CreateInstance(map) PROVE ResourcesInv'
  <2>1. /\ ~rUp /\ rUp' = TRUE /\ rMade' = rMade + 1 /\ rLogMutex' = LogMutexOfNewLog
        /\ rDead' = rDead \cup (IF rLogMutex = "gone" THEN {"log"} ELSE {})
        /\ UNCHANGED <<rLoaded, rLoads, rEngine, rAnnotator, rEarly>>
    BY <1>1 DEF CreateInstance
  <2>2. ResourcesType'
    BY <2>1, <1>0 DEF ResourcesType
  <2>3. LoadsFit'
    BY <2>1, <1>0 DEF LoadsFit, Cached
  <2>4. EnginesFit => EnginesFit'
    BY <2>1 DEF EnginesFit, Cached
  <2>5. LogFits'
    <3>1. CASE rMade = 0
      BY <3>1, <2>1, <1>0 DEF LogFits, LogMutexOfNewLog
    <3>2. CASE rMade # 0
      BY <3>2, <2>1, <1>0 DEF LogFits, ResourcesType
    <3> QED
      BY <3>1, <3>2
  <2>6. QED
    BY <2>1, <2>2, <2>3, <2>4, <2>5 DEF ResourcesInv
<1>2. ASSUME NEW scheme, NEW library, RegisterHandler(scheme, library) PROVE ResourcesInv'
  <2>1. UNCHANGED <<rUp, rMade, rLoaded, rLoads, rLogMutex, rEngine, rAnnotator, rEarly, rDead>>
    BY <1>2 DEF RegisterHandler
  <2>2. QED
    BY <2>1 DEF ResourcesInv, ResourcesType, LoadsFit, LogFits, EnginesFit, Cached
<1>3. CASE DeleteInstance
  <2>1. /\ rUp /\ rUp' = FALSE /\ rLoads' = [l \in AllLibraries |-> 0] /\ rLoaded' = << >>
        /\ rDead' = rDead \cup DoLog /\ rLogMutex' = "gone"
        /\ UNCHANGED <<rMade, rEngine, rAnnotator>>
    BY <1>3 DEF DeleteInstance, ReleaseResources
  <2>2. ResourcesType'
    <3>1. rLoads' \in [AllLibraries -> Nat] /\ rLoaded' \in Seq(AllLibraries)
      BY <2>1
    <3>2. rUp' \in BOOLEAN
      BY <2>1
    <3> QED
      BY <3>1, <3>2, <2>1, <1>0 DEF ResourcesType
  <2>3. LoadsFit'
    BY <2>1 DEF LoadsFit, Cached
  <2>4. rEarly => rEarly'
    BY <1>3, Zenon DEF DeleteInstance
  <2>5. CASE InUse
    <3>1. rEarly'
      BY <2>5, <1>3, Zenon DEF DeleteInstance
    <3>2. LogFits'
      BY <3>1, <2>1, <1>0 DEF LogFits
    <3> QED
      BY <3>1, <3>2, <2>2, <2>3 DEF ResourcesInv
  <2>6. CASE ~InUse
    <3>1. EnginesFit => EnginesFit'
      BY <2>1, <2>6 DEF EnginesFit, InUse, DoLog
    <3>2. LogFits'
      <4>1. rMade # 0
        BY <2>1, <1>0 DEF LogFits
      <4>2. rMade = 1 => DoLog = {}
        BY <2>1, <1>0, LogLives
      <4> QED
        BY <4>1, <4>2, <2>1, <2>4, <1>0 DEF LogFits, ResourcesType
    <3> QED
      BY <3>1, <3>2, <2>2, <2>3, <2>4 DEF ResourcesInv
  <2>7. QED
    BY <2>5, <2>6
<1>4. ASSUME NEW e \in Engines, RefuseEngine(e) PROVE ResourcesInv'
  BY <1>4 DEF RefuseEngine, rVars, ResourcesInv, ResourcesType, LoadsFit, LogFits, EnginesFit, Cached
<1>5. ASSUME NEW e \in Engines, CallAnnotator(e) PROVE ResourcesInv'
  <2>1. /\ rEngine[e] = "ready"
        /\ \E throws \in BOOLEAN :
              rDead' = rDead \cup CallInto(rAnnotator[e]) \cup (IF throws THEN DoLog ELSE {})
        /\ UNCHANGED <<rUp, rMade, rLoaded, rLoads, rLogMutex, rEngine, rAnnotator, rEarly>>
    BY <1>5 DEF CallAnnotator, rManager
  <2>2. ResourcesType' /\ LoadsFit'
    BY <2>1, <1>0 DEF ResourcesType, LoadsFit, Cached
  <2>3. ASSUME ~rEarly PROVE EnginesFit' /\ LogFits'
    <3>1. EnginesFit
      BY <2>3 DEF ResourcesInv
    <3>2. CallInto(rAnnotator[e]) = {}
      BY <3>1, <2>1, <1>0 DEF EnginesFit, LoadsFit, CallInto
    <3>3. rUp /\ (rMade = 1 => DoLog = {})
      BY <3>1, <2>1, <1>0, LogLives DEF EnginesFit
    <3>4. EnginesFit'
      BY <3>1, <3>2, <2>1 DEF EnginesFit, Cached, DoLog
    <3>5. LogFits'
      BY <3>2, <3>3, <2>1, <1>0 DEF LogFits, ResourcesType
    <3> QED
      BY <3>4, <3>5
  <2>4. ASSUME rEarly PROVE LogFits'
    BY <2>4, <2>1, <1>0 DEF LogFits
  <2>5. QED
    BY <2>1, <2>2, <2>3, <2>4 DEF ResourcesInv
<1>6. ASSUME NEW e \in Engines, DestroyEngine(e) PROVE ResourcesInv'
  <2>1. PICK destroys \in {"returns", "throws"} :
            /\ DeInit(e, destroys)
            /\ IF destroys = "throws"
               THEN /\ rDead' = rDead \cup CallInto(rAnnotator[e]) \cup DoLog
                    /\ UNCHANGED <<rFile, rLoaded, rLoads>>
               ELSE /\ rDead' = rDead \cup CallInto(rAnnotator[e])
                    /\ rFile' = [rFile EXCEPT ![e] = NoLibrary]
                    /\ Unload(rFile[e])
    BY <1>6 DEF DestroyEngine
  <2>2. /\ rEngine[e] = "ready" /\ rEngine' = [rEngine EXCEPT ![e] = "destroyed"]
        /\ rAnnotator' = [rAnnotator EXCEPT ![e] = NoLibrary]
        /\ UNCHANGED <<rUp, rMade, rLoaded, rLoads, rLogMutex, rEarly>>
        /\ rDead' = rDead \cup CallInto(rAnnotator[e]) \/ rDead' = rDead \cup CallInto(rAnnotator[e]) \cup DoLog
    BY <1>6, <2>1 DEF DestroyEngine, DeInit, Unload, rManager
  <2>3. ResourcesType' /\ LoadsFit'
    BY <2>2, <1>0 DEF ResourcesType, LoadsFit, Cached
  <2>4. ASSUME ~rEarly PROVE EnginesFit' /\ LogFits'
    <3>1. EnginesFit
      BY <2>4 DEF ResourcesInv
    <3>2. CallInto(rAnnotator[e]) = {}
      BY <3>1, <2>2, <1>0 DEF EnginesFit, LoadsFit, CallInto
    <3>3. rUp /\ (rMade = 1 => DoLog = {})
      BY <3>1, <2>2, <1>0, LogLives DEF EnginesFit
    <3>4. EnginesFit'
      BY <3>1, <3>2, <2>2, <1>0 DEF EnginesFit, Cached, DoLog, ResourcesType
    <3>5. LogFits'
      BY <3>2, <3>3, <2>2, <1>0 DEF LogFits, ResourcesType
    <3> QED
      BY <3>4, <3>5
  <2>5. ASSUME rEarly PROVE LogFits'
    BY <2>5, <2>2, <1>0 DEF LogFits
  <2>6. QED
    BY <2>2, <2>3, <2>4, <2>5 DEF ResourcesInv
<1>7. ASSUME NEW e \in Engines, DeleteEngine(e) PROVE ResourcesInv'
  <2>1. /\ rEngine' = [rEngine EXCEPT ![e] = "none"]
        /\ UNCHANGED <<rUp, rMade, rLoaded, rLoads, rLogMutex, rEarly, rAnnotator, rDead>>
    BY <1>7 DEF DeleteEngine, rManager
  <2>2. ResourcesType' /\ LoadsFit' /\ LogFits'
    BY <2>1, <1>0 DEF ResourcesType, LoadsFit, LogFits, Cached
  <2>3. EnginesFit => EnginesFit'
    BY <2>1, <1>0 DEF EnginesFit, Cached, ResourcesType
  <2>4. QED
    BY <2>1, <2>2, <2>3 DEF ResourcesInv
<1>8. ASSUME NEW e \in Engines, NEW l \in AllLibraries, EngineWithoutFile(e, l) PROVE ResourcesInv'
  BY <1>8, ManagerAsked DEF EngineWithoutFile
<1>9. ASSUME NEW e \in Engines, NEW l \in AllLibraries, EngineWithoutAnnotator(e, l) PROVE ResourcesInv'
  BY <1>9, ManagerAsked DEF EngineWithoutAnnotator
<1>10. ASSUME NEW e \in Engines, NEW l \in AllLibraries, NEW destroys \in {"returns", "throws"},
              EngineNotInitialized(e, l, destroys)
       PROVE  ResourcesInv'
  BY <1>10, ManagerAsked DEF EngineNotInitialized
<1>11. ASSUME NEW e \in Engines, NEW l \in AllLibraries, CreateEngine(e, l) PROVE ResourcesInv'
  <2>1. /\ rUp /\ l \in Libraries /\ GetResource(l) /\ rEngine' = [rEngine EXCEPT ![e] = "ready"]
        /\ rAnnotator' = [rAnnotator EXCEPT ![e] = l] /\ rDead' = rDead \cup DoLog
        /\ UNCHANGED <<rUp, rMade, rLogMutex, rEarly>>
    BY <1>11 DEF CreateEngine, rManager
  <2>2. /\ rLoaded' \in Seq(AllLibraries) /\ rLoads' \in [AllLibraries -> Nat] /\ LoadsFit'
        /\ \A m \in AllLibraries : Cached(m) => Cached(m)'
        /\ Cached(l)'
    BY <2>1, <1>0, LibraryIsThere, ResourcesAssumption DEF ResourcesType
  <2>3. ResourcesType'
    BY <2>1, <2>2, <1>0 DEF ResourcesType
  <2>4. LogFits'
    BY <2>1, <1>0, LogLives DEF LogFits, ResourcesType
  <2>5. ASSUME EnginesFit PROVE EnginesFit'
    <3>1. ASSUME NEW f \in Engines, rEngine'[f] = "ready"
          PROVE  rAnnotator'[f] \in AllLibraries /\ \E k \in DOMAIN rLoaded' : rLoaded'[k] = rAnnotator'[f]
      <4>1. CASE f = e
        <5>1. rAnnotator'[f] = l
          BY <4>1, <2>1, <1>0 DEF ResourcesType
        <5> QED
          BY <5>1, <2>2 DEF Cached
      <4>2. CASE f # e
        <5>1. rAnnotator'[f] = rAnnotator[f] /\ rEngine[f] = "ready"
          BY <4>2, <3>1, <2>1, <1>0 DEF ResourcesType
        <5>2. rAnnotator[f] \in AllLibraries /\ Cached(rAnnotator[f])
          BY <5>1, <2>5 DEF EnginesFit
        <5> QED
          BY <5>1, <5>2, <2>2 DEF Cached
      <4> QED
        BY <4>1, <4>2
    <3> QED
      BY <3>1, <2>1, <2>5 DEF EnginesFit, DoLog, Cached
  <2>6. QED
    BY <2>1, <2>2, <2>3, <2>4, <2>5 DEF ResourcesInv
<1>12. CASE UNCHANGED rVars
  BY <1>12 DEF rVars, ResourcesInv, ResourcesType, LoadsFit, LogFits, EnginesFit, Cached
<1>13. QED
  BY <1>1, <1>2, <1>3, <1>4, <1>5, <1>6, <1>7, <1>8, <1>9, <1>10, <1>11, <1>12 DEF RNext

LEMMA ResourcesInvImplies == ResourcesInv => UsedWhileTheyLive
<1> SUFFICES ASSUME ResourcesInv PROVE UsedWhileTheyLive
  OBVIOUS
<1>1. ASSUME ~rEarly
      PROVE  "library" \notin rDead /\ \A e \in Engines : rEngine[e] = "ready" => rLoads[rAnnotator[e]] = 1
  BY <1>1 DEF ResourcesInv, EnginesFit, LoadsFit
<1>2. ~rEarly /\ rMade <= 1 => "log" \notin rDead
  BY DEF ResourcesInv, LogFits
<1> QED
  BY <1>1, <1>2 DEF UsedWhileTheyLive

----------------------------------------------------------------------------
(* Sofa streams *)

\* An open stream has the size of the sofa's data, another one none.
SizeFits ==
    /\ ySofa.size \in Nat /\ ySize \in Nat /\ yPos \in Int
    /\ IF yStream = "open" THEN ySize = ySofa.size ELSE ySize = 0 /\ yPos = 0

\* Where a caller who never strayed is: in the data, or at the end that an empty sofa has before its start.
PlaceFits ==
    /\ yPos \in 0 .. ySize \/ (Local /\ ySize = 0 /\ yPos = -1)
    /\ ~yOutside
    /\ yRead.result > 0 => yRead.from >= 0 /\ yRead.from + yRead.bytes = yPos

StreamInv == SizeFits /\ (yStrayed \/ PlaceFits)

LEMMA StreamInvInit == YInit => StreamInv
<1> SUFFICES ASSUME YInit PROVE StreamInv
  OBVIOUS
<1>1. ySofa.size \in Nat
  <2>1. CASE ySofa \in [where : {"local", "remote"}, kind : DOMAIN Width, size : {0}]
    BY <2>1
  <2>2. CASE ySofa \in {[where |-> w, kind |-> k, size |-> n * Width[k]] :
                            w \in {"local", "remote"}, k \in DOMAIN Width, n \in 1 .. Elements}
    <3>1. PICK w \in {"local", "remote"}, k \in DOMAIN Width, n \in 1 .. Elements :
              ySofa = [where |-> w, kind |-> k, size |-> n * Width[k]]
      BY <2>2
    <3>2. Width[k] \in {1, 2, 4, 8}
      BY DEF Width
    <3>3. n * Width[k] \in Nat
      BY <3>2, StreamsAssumption
    <3> QED
      BY <3>1, <3>3
  <2>3. QED
    BY <2>1, <2>2 DEF YInit
<1>2. SizeFits
  BY <1>1 DEF YInit, SizeFits
<1>3. PlaceFits
  BY DEF YInit, PlaceFits, Nothing
<1> QED
  BY <1>2, <1>3 DEF StreamInv

\* What a caller strayed is not forgotten.
LEMMA StrayedStays == [YNext]_yVars => (yStrayed => yStrayed')
<1> SUFFICES ASSUME [YNext]_yVars, yStrayed PROVE yStrayed'
  OBVIOUS
<1>1. CASE GetSofaDataStream \/ OpenLocal \/ OpenRemote \/ Close \/ Delete \/ CasGrows
  BY <1>1 DEF GetSofaDataStream, OpenLocal, OpenRemote, Close, Delete, CasGrows
<1>2. ASSUME NEW elementSize \in {1, 2, 4, 8}, NEW numElements \in 1 .. 2, ReadLocal(elementSize, numElements)
      PROVE  yStrayed'
  <2>1. CASE yPos = ySize
    BY <1>2, <2>1 DEF ReadLocal
  <2>2. CASE yPos # ySize
    BY <1>2, <2>2, Zenon DEF ReadLocal
  <2> QED
    BY <2>1, <2>2
<1>3. ASSUME NEW elementSize \in {1, 2, 4, 8}, NEW numElements \in 1 .. 2, ReadRemote(elementSize, numElements)
      PROVE  yStrayed'
  BY <1>3 DEF ReadRemote
<1>4. ASSUME NEW offset, NEW origin \in {"SEEK_SET", "SEEK_CUR", "SEEK_END"}, SeekLocal(offset, origin)
      PROVE  yStrayed'
  BY <1>4, Zenon DEF SeekLocal
<1>5. ASSUME NEW offset, SeekRemote(offset) PROVE yStrayed'
  BY <1>5 DEF SeekRemote
<1>6. CASE UNCHANGED yVars
  BY <1>6 DEF yVars
<1>7. QED
  BY <1>1, <1>2, <1>3, <1>4, <1>5, <1>6 DEF YNext

LEMMA StreamInvStep == StreamInv /\ [YNext]_yVars => StreamInv'
<1> SUFFICES ASSUME StreamInv, [YNext]_yVars PROVE StreamInv'
  OBVIOUS
<1>0. SizeFits
  BY DEF StreamInv
<1>s. yStrayed => yStrayed'
  BY StrayedStays
<1>1. CASE GetSofaDataStream
  <2>1. SizeFits'
    BY <1>1, <1>0 DEF GetSofaDataStream, SizeFits
  <2>2. PlaceFits => PlaceFits'
    BY <1>1 DEF GetSofaDataStream, PlaceFits, Local
  <2> QED
    BY <2>1, <2>2, <1>s DEF StreamInv
<1>2. CASE OpenLocal
  <2>1. SizeFits'
    BY <1>2, <1>0 DEF OpenLocal, SizeFits
  <2>2. PlaceFits => PlaceFits'
    BY <1>2, <2>1 DEF OpenLocal, PlaceFits, Local, SizeFits, Nothing
  <2> QED
    BY <2>1, <2>2, <1>s DEF StreamInv
<1>3. CASE OpenRemote
  <2>1. SizeFits'
    BY <1>3, <1>0 DEF OpenRemote, SizeFits
  <2>2. PlaceFits => PlaceFits'
    BY <1>3, <2>1 DEF OpenRemote, PlaceFits, Local, SizeFits, Nothing
  <2> QED
    BY <2>1, <2>2, <1>s DEF StreamInv
<1>4. CASE Close \/ Delete
  <2>1. SizeFits'
    BY <1>4, <1>0 DEF Close, Delete, SizeFits
  <2>2. PlaceFits => PlaceFits'
    BY <1>4, <2>1 DEF Close, Delete, PlaceFits, Local, SizeFits, Nothing
  <2> QED
    BY <2>1, <2>2, <1>s DEF StreamInv
<1>5. CASE CasGrows
  <2>1. SizeFits'
    BY <1>5, <1>0 DEF CasGrows, SizeFits
  <2>2. PlaceFits => PlaceFits'
    BY <1>5 DEF CasGrows, PlaceFits, Local
  <2> QED
    BY <2>1, <2>2, <1>s DEF StreamInv
<1>6. ASSUME NEW elementSize \in {1, 2, 4, 8}, NEW numElements \in 1 .. 2, ReadLocal(elementSize, numElements)
      PROVE  StreamInv'
  <2>0. Local /\ yStream = "open" /\ UNCHANGED <<ySofa, yStream, ySize>> /\ ySize = ySofa.size /\ ySize \in Nat
        /\ yPos \in Int
    BY <1>6, <1>0 DEF ReadLocal, SizeFits
  <2>1. CASE yPos = ySize
    <3>1. yRead' = EndOfStream /\ UNCHANGED <<yPos, yStrayed, yOutside>>
      BY <2>1, <1>6 DEF ReadLocal
    <3>2. SizeFits'
      BY <3>1, <2>0, <1>0 DEF SizeFits
    <3>3. PlaceFits => PlaceFits'
      BY <3>1, <2>0 DEF PlaceFits, Local, EndOfStream, EOF
    <3> QED
      BY <3>2, <3>3, <1>s DEF StreamInv
  <2>2. CASE yPos # ySize
    <3> DEFINE n == BytesRead(elementSize * numElements, HowManyBytesAvailable)
    <3>1. /\ yRead' = [from |-> yPos, bytes |-> n, result |-> n]
          /\ yPos' = yPos + n
          /\ yOutside' = (yOutside \/ n < 0 \/ (n > 0 /\ (yPos < 0 \/ yPos + n > ySofa.size \/ yMoved)))
          /\ yStrayed' = (yStrayed \/ yMoved)
      BY <2>2, <1>6, Zenon DEF ReadLocal
    <3>2. n \in Int
      BY <2>0 DEF BytesRead, AtMost, HowManyBytesAvailable, TotalStreamSizeInBytes, EOF
    <3>3. (yPos \in 0 .. ySize) => n \in 1 .. ySize - yPos
      BY <2>0, <2>2 DEF BytesRead, AtMost, HowManyBytesAvailable, TotalStreamSizeInBytes, EOF
    <3>4. (ySize = 0 /\ yPos = -1) => n = 0
      BY <2>0, <2>2 DEF BytesRead, AtMost, HowManyBytesAvailable, TotalStreamSizeInBytes, EOF
    <3> HIDE DEF n
    <3>5. SizeFits'
      BY <3>1, <3>2, <2>0, <1>0 DEF SizeFits
    <3>6. ASSUME PlaceFits, ~yMoved PROVE PlaceFits'
      <4>1. ~yOutside /\ (yPos \in 0 .. ySize \/ (ySize = 0 /\ yPos = -1))
        BY <3>6 DEF PlaceFits
      <4>2. ~(n < 0) /\ (n > 0 => ~(yPos < 0) /\ ~(yPos + n > ySofa.size))
        BY <4>1, <3>2, <3>3, <3>4, <2>0
      <4>3. ~yOutside'
        BY <4>1, <4>2, <3>6, <3>1, Zenon
      <4>4. yPos' \in 0 .. ySize \/ (ySize = 0 /\ yPos' = -1)
        BY <4>1, <3>1, <3>2, <3>3, <3>4, <2>0
      <4>5. yRead'.result > 0 => yRead'.from >= 0 /\ yRead'.from + yRead'.bytes = yPos'
        BY <4>1, <3>1, <3>2, <3>4, <2>0
      <4> QED
        BY <4>3, <4>4, <4>5, <2>0 DEF PlaceFits, Local
    <3>7. ~yStrayed' => ~yMoved
      BY <3>1, Zenon
    <3> QED
      BY <3>5, <3>6, <3>7, <1>s DEF StreamInv
  <2> QED
    BY <2>1, <2>2
<1>7. ASSUME NEW elementSize \in {1, 2, 4, 8}, NEW numElements \in 1 .. 2, ReadRemote(elementSize, numElements)
      PROVE  StreamInv'
  <2>0. ~Local /\ yStream = "open" /\ UNCHANGED <<ySofa, yStream, ySize, yOutside>> /\ ySize = ySofa.size
        /\ ySize \in Nat /\ yPos \in Int
    BY <1>7, <1>0 DEF ReadRemote, SizeFits
  <2>1. CASE yPos = ySize
    <3>1. yRead' = EndOfStream /\ UNCHANGED yPos
      BY <2>1, <1>7 DEF ReadRemote
    <3>2. SizeFits'
      BY <3>1, <2>0, <1>0 DEF SizeFits
    <3>3. PlaceFits => PlaceFits'
      BY <3>1, <2>0 DEF PlaceFits, Local, EndOfStream, EOF
    <3> QED
      BY <3>2, <3>3, <1>s DEF StreamInv
  <2>2. CASE yPos # ySize
    <3>1. PICK n \in 1 .. elementSize * numElements :
              /\ n <= ySize - yPos
              /\ yRead' = [from |-> yPos, bytes |-> n,
                           result |-> IF elementSize \in {2, 4, 8} THEN n \div elementSize ELSE n]
              /\ yPos' = yPos + n
      BY <2>2, <1>7 DEF ReadRemote
    <3>2. n \in Int /\ n >= 1
      OBVIOUS
    <3>3. SizeFits'
      BY <3>1, <3>2, <2>0, <1>0 DEF SizeFits
    <3>4. ASSUME PlaceFits PROVE PlaceFits'
      <4>1. ~yOutside' /\ yPos \in 0 .. ySize
        BY <3>4, <2>0 DEF PlaceFits
      <4>2. yPos' \in 0 .. ySize'
        BY <4>1, <3>1, <3>2, <2>0
      <4>3. yRead'.from >= 0 /\ yRead'.from + yRead'.bytes = yPos'
        BY <4>1, <3>1
      <4> QED
        BY <4>1, <4>2, <4>3 DEF PlaceFits
    <3> QED
      BY <3>3, <3>4, <1>s DEF StreamInv
  <2> QED
    BY <2>1, <2>2
<1>8. ASSUME NEW offset \in Int, NEW origin \in {"SEEK_SET", "SEEK_CUR", "SEEK_END"}, SeekLocal(offset, origin)
      PROVE  StreamInv'
  <2> DEFINE p == SeekTo(offset, origin)
  <2>0. /\ Local /\ yStream = "open" /\ UNCHANGED <<ySofa, yStream, ySize, yOutside>> /\ ySize = ySofa.size
        /\ ySize \in Nat /\ yPos' = p /\ yRead' = Nothing /\ p \in -1 .. Elements * 8 + 1
    BY <1>8, <1>0 DEF SeekLocal, SizeFits
  <2>1. yStrayed' = (yStrayed \/ (p \notin 0 .. ySize /\ ~(ySize = 0 /\ p = EOF)))
    BY <1>8, Zenon DEF SeekLocal
  <2> HIDE DEF p
  <2>2. SizeFits'
    BY <2>0, <1>0, StreamsAssumption DEF SizeFits
  <2>3. ASSUME PlaceFits, p \in 0 .. ySize \/ (ySize = 0 /\ p = EOF) PROVE PlaceFits'
    BY <2>3, <2>0 DEF PlaceFits, Local, Nothing, EOF
  <2>4. ~yStrayed' => p \in 0 .. ySize \/ (ySize = 0 /\ p = EOF)
    BY <2>1, Zenon
  <2> QED
    BY <2>2, <2>3, <2>4, <1>s DEF StreamInv
<1>9. ASSUME NEW offset, SeekRemote(offset) PROVE StreamInv'
  <2>1. SizeFits'
    BY <1>9, <1>0 DEF SeekRemote, SizeFits
  <2>2. PlaceFits => PlaceFits'
    BY <1>9 DEF SeekRemote, PlaceFits, Local, Nothing
  <2> QED
    BY <2>1, <2>2, <1>s DEF StreamInv
<1>10. CASE UNCHANGED yVars
  <2>1. SizeFits'
    BY <1>10, <1>0 DEF yVars, SizeFits
  <2>2. PlaceFits => PlaceFits'
    BY <1>10 DEF yVars, PlaceFits, Local
  <2> QED
    BY <2>1, <2>2, <1>s DEF StreamInv
<1>11. QED
  BY <1>1, <1>2, <1>3, <1>4, <1>5, <1>6, <1>7, <1>8, <1>9, <1>10, StreamsAssumption DEF YNext

LEMMA StreamInvImplies == StreamInv => ReadsStayInside
<1> SUFFICES ASSUME StreamInv, ~yStrayed PROVE ReadsStayInside
  BY DEF ReadsStayInside
<1>1. SizeFits /\ PlaceFits
  BY DEF StreamInv
<1>2. yPos <= ySofa.size
  BY <1>1 DEF SizeFits, PlaceFits
<1> QED
  BY <1>1, <1>2 DEF PlaceFits, ReadsStayInside

----------------------------------------------------------------------------
(* The deletion of a CAS *)

Frames == [cas : CasObjects, at : {"own", "family", "shared", "views", "end"}]
LifeType ==
    /\ lFamily \in Nat /\ lOwns \in BOOLEAN /\ lDeleting \in BOOLEAN
    /\ lViews \subseteq CasObjects \ {BaseCas}
    /\ lStack \in Seq(Frames)

\* The CASes that were deleted, those whose index repository was, and what the views share: each once.
FreedAs(f, owns, cases, indexes, shared) ==
    /\ f = [p \in OwnParts \cup Shared |-> f[p]]
    /\ \A c \in CasObjects : /\ f[<<"cas", c>>] = IF c \in cases THEN 1 ELSE 0
                             /\ f[<<"indexes", c>>] = IF c \in indexes THEN 1 ELSE 0
    /\ f[<<"heap", BaseCas>>] = IF shared THEN 1 ELSE 0
    /\ f[<<"filterBuilder", BaseCas>>] = IF shared THEN 1 ELSE 0
    /\ f[<<"casDefinition", BaseCas>>] = IF shared /\ owns THEN 1 ELSE 0
FreedAre(cases, indexes, shared) == FreedAs(lFreed, lOwns, cases, indexes, shared)

Family == lViews \cup {BaseCas}
Untouched == FreedAre({}, {}, FALSE) /\ ~lDeleting /\ lMap = lViews
AllGone == FreedAre(Family, Family, TRUE)

\* The view that was deleted first and waits under its base, if any.
Waiting(t) == {v \in lViews : t # << >> /\ Head(t).cas = v}
UnderBase(t) ==
    /\ t = << >> \/ (Tail(t) = << >> /\ Head(t).at = "end" /\ Head(t).cas \in lViews)
    /\ lMap = lViews \ Waiting(t)

\* Every state of the stack, with what was deleted by then.
AtRest == lStack = << >> /\ (Untouched \/ AllGone)
ViewDeleted ==
    /\ Calling /\ Tail(lStack) = << >> /\ ThisCas \in lViews
    /\ \/ Running("own") /\ Untouched
       \/ Running("family") /\ FreedAre({}, {ThisCas}, FALSE) /\ ~lDeleting /\ lMap = lViews
BaseDeleted ==
    /\ Calling /\ ThisCas = BaseCas /\ UnderBase(Tail(lStack))
    /\ \/ Running("own") /\ FreedAre({}, Waiting(Tail(lStack)), FALSE)
       \/ Running("shared") /\ FreedAre({}, Waiting(Tail(lStack)) \cup {BaseCas}, FALSE)
       \/ /\ Running("views") /\ lDeleting /\ lTodo \subseteq lMap
          /\ FreedAre(lMap \ lTodo, Family \ lTodo, TRUE)
NextDeleted ==
    /\ Calling /\ Tail(lStack) # << >> /\ Head(Tail(lStack)) = [cas |-> BaseCas, at |-> "views"]
    /\ UnderBase(Tail(Tail(lStack))) /\ lDeleting
    /\ lTodo \subseteq lMap /\ ThisCas \in lMap \ lTodo
    /\ \/ Running("own") /\ FreedAre(lMap \ (lTodo \cup {ThisCas}), Family \ (lTodo \cup {ThisCas}), TRUE)
       \/ Running("end") /\ FreedAre(lMap \ (lTodo \cup {ThisCas}), Family \ lTodo, TRUE)
LastDeleted ==
    /\ Calling /\ Tail(lStack) = << >> /\ ThisCas \in lViews /\ Running("end")
    /\ FreedAre(Family \ {ThisCas}, Family, TRUE)

LifeInv == /\ LifeType /\ ~lDangling
           /\ AtRest \/ ViewDeleted \/ BaseDeleted \/ NextDeleted \/ LastDeleted

\* What is on top of the stack, and what is under it.
LEMMA Pushed ==
    ASSUME NEW S, NEW x \in S, NEW s \in Seq(S)
    PROVE  <<x>> \o s \in Seq(S) /\ <<x>> \o s # << >> /\ Head(<<x>> \o s) = x /\ Tail(<<x>> \o s) = s
<1> DEFINE q == <<x>> \o s
<1>1. Len(s) \in Nat /\ q \in Seq(S) /\ Len(q) = Len(s) + 1
  OBVIOUS
<1>2. q[1] = x /\ \A i \in 1 .. Len(s) : q[i + 1] = s[i]
  OBVIOUS
<1> HIDE DEF q
<1>3. q # << >> /\ Head(q) = x
  BY <1>1, <1>2
<1>4. Tail(q) \in Seq(S) /\ Len(Tail(q)) = Len(s) /\ \A i \in 1 .. Len(s) : Tail(q)[i] = q[i + 1]
  BY <1>1, <1>3
<1>5. Tail(q) = s
  BY <1>2, <1>4
<1> QED
  BY <1>1, <1>3, <1>5 DEF q

LEMMA Popped ==
    ASSUME LifeType, Calling
    PROVE  Head(lStack) \in Frames /\ Tail(lStack) \in Seq(Frames) /\ ThisCas \in CasObjects
<1>1. Head(lStack) \in Frames /\ Tail(lStack) \in Seq(Frames)
  BY DEF LifeType, Calling
<1> QED
  BY <1>1 DEF Frames, ThisCas

\* A destructor goes on to its next part.
LEMMA GoesOn ==
    ASSUME LifeType, Calling, NEW at \in {"own", "family", "shared", "views", "end"}
    PROVE  /\ Onward(at) \in Seq(Frames) /\ Onward(at) # << >>
           /\ Head(Onward(at)) = [cas |-> ThisCas, at |-> at] /\ Tail(Onward(at)) = Tail(lStack)
<1>1. Head(lStack) \in Frames /\ Tail(lStack) \in Seq(Frames)
  BY Popped
<1>2. [Head(lStack) EXCEPT !.at = at] = [cas |-> ThisCas, at |-> at] /\ [cas |-> ThisCas, at |-> at] \in Frames
  BY <1>1 DEF Frames, ThisCas
<1> QED
  BY <1>1, <1>2, Pushed DEF Onward

\* What was not deleted yet is deleted once.
FreedMore(f, parts) == [p \in DOMAIN f |-> IF p \in parts THEN f[p] + 1 ELSE f[p]]

LEMMA IndexesFreed ==
    ASSUME NEW f, NEW owns \in BOOLEAN, NEW A, NEW B, NEW shared \in BOOLEAN, FreedAs(f, owns, A, B, shared),
           NEW c \in CasObjects, c \notin B
    PROVE  FreedAs(FreedMore(f, {<<"indexes", c>>}), owns, A, B \cup {c}, shared)
<1> DEFINE g == FreedMore(f, {<<"indexes", c>>})
<1>1. DOMAIN f = OwnParts \cup Shared
  BY DEF FreedAs
<1>2. /\ DOMAIN g = OwnParts \cup Shared /\ g = [p \in OwnParts \cup Shared |-> g[p]]
      /\ \A p \in OwnParts \cup Shared : g[p] = IF p = <<"indexes", c>> THEN f[p] + 1 ELSE f[p]
  BY <1>1 DEF FreedMore
<1> HIDE DEF g
<1>3. ASSUME NEW d \in CasObjects
      PROVE  /\ g[<<"cas", d>>] = f[<<"cas", d>>]
             /\ g[<<"indexes", d>>] = IF d \in B \cup {c} THEN 1 ELSE 0
  <2>1. <<"cas", d>> \in OwnParts /\ <<"indexes", d>> \in OwnParts
    BY DEF OwnParts
  <2>2. <<"cas", d>> # <<"indexes", c>> /\ (<<"indexes", d>> = <<"indexes", c>> <=> d = c)
    OBVIOUS
  <2>3. g[<<"cas", d>>] = f[<<"cas", d>>]
    BY <2>1, <2>2, <1>2
  <2>4. f[<<"indexes", d>>] = IF d \in B THEN 1 ELSE 0
    BY DEF FreedAs
  <2>5. g[<<"indexes", d>>] = IF d = c THEN f[<<"indexes", d>>] + 1 ELSE f[<<"indexes", d>>]
    BY <2>1, <2>2, <1>2
  <2> QED
    BY <2>3, <2>4, <2>5
<1>4. /\ g[<<"heap", BaseCas>>] = f[<<"heap", BaseCas>>]
      /\ g[<<"filterBuilder", BaseCas>>] = f[<<"filterBuilder", BaseCas>>]
      /\ g[<<"casDefinition", BaseCas>>] = f[<<"casDefinition", BaseCas>>]
  BY <1>2 DEF Shared
<1> QED
  BY <1>2, <1>3, <1>4 DEF FreedAs, g

LEMMA CasFreed ==
    ASSUME NEW f, NEW owns \in BOOLEAN, NEW A, NEW B, NEW shared \in BOOLEAN, FreedAs(f, owns, A, B, shared),
           NEW c \in CasObjects, c \notin A
    PROVE  FreedAs(FreedMore(f, {<<"cas", c>>}), owns, A \cup {c}, B, shared)
<1> DEFINE g == FreedMore(f, {<<"cas", c>>})
<1>1. DOMAIN f = OwnParts \cup Shared
  BY DEF FreedAs
<1>2. /\ DOMAIN g = OwnParts \cup Shared /\ g = [p \in OwnParts \cup Shared |-> g[p]]
      /\ \A p \in OwnParts \cup Shared : g[p] = IF p = <<"cas", c>> THEN f[p] + 1 ELSE f[p]
  BY <1>1 DEF FreedMore
<1> HIDE DEF g
<1>3. ASSUME NEW d \in CasObjects
      PROVE  /\ g[<<"indexes", d>>] = f[<<"indexes", d>>]
             /\ g[<<"cas", d>>] = IF d \in A \cup {c} THEN 1 ELSE 0
  <2>1. <<"cas", d>> \in OwnParts /\ <<"indexes", d>> \in OwnParts
    BY DEF OwnParts
  <2>2. <<"indexes", d>> # <<"cas", c>> /\ (<<"cas", d>> = <<"cas", c>> <=> d = c)
    OBVIOUS
  <2>3. g[<<"indexes", d>>] = f[<<"indexes", d>>]
    BY <2>1, <2>2, <1>2
  <2>4. f[<<"cas", d>>] = IF d \in A THEN 1 ELSE 0
    BY DEF FreedAs
  <2>5. g[<<"cas", d>>] = IF d = c THEN f[<<"cas", d>>] + 1 ELSE f[<<"cas", d>>]
    BY <2>1, <2>2, <1>2
  <2> QED
    BY <2>3, <2>4, <2>5
<1>4. /\ g[<<"heap", BaseCas>>] = f[<<"heap", BaseCas>>]
      /\ g[<<"filterBuilder", BaseCas>>] = f[<<"filterBuilder", BaseCas>>]
      /\ g[<<"casDefinition", BaseCas>>] = f[<<"casDefinition", BaseCas>>]
  BY <1>2 DEF Shared
<1> QED
  BY <1>2, <1>3, <1>4 DEF FreedAs, g

SharedOf(owns) ==
    {<<"heap", BaseCas>>, <<"filterBuilder", BaseCas>>} \cup (IF owns THEN {<<"casDefinition", BaseCas>>} ELSE {})

LEMMA SharedFreed ==
    ASSUME NEW f, NEW owns \in BOOLEAN, NEW A, NEW B, FreedAs(f, owns, A, B, FALSE)
    PROVE  FreedAs(FreedMore(f, SharedOf(owns)), owns, A, B, TRUE)
<1> DEFINE g == FreedMore(f, SharedOf(owns))
<1>1. DOMAIN f = OwnParts \cup Shared
  BY DEF FreedAs
<1>2. /\ DOMAIN g = OwnParts \cup Shared /\ g = [p \in OwnParts \cup Shared |-> g[p]]
      /\ \A p \in OwnParts \cup Shared : g[p] = IF p \in SharedOf(owns) THEN f[p] + 1 ELSE f[p]
  BY <1>1 DEF FreedMore
<1> HIDE DEF g
<1>3. ASSUME NEW d \in CasObjects
      PROVE  g[<<"indexes", d>>] = f[<<"indexes", d>>] /\ g[<<"cas", d>>] = f[<<"cas", d>>]
  <2>1. <<"cas", d>> \in OwnParts /\ <<"indexes", d>> \in OwnParts
    BY DEF OwnParts
  <2>2. <<"cas", d>> \notin SharedOf(owns) /\ <<"indexes", d>> \notin SharedOf(owns)
    BY DEF SharedOf
  <2> QED
    BY <2>1, <2>2, <1>2
<1>4. <<"heap", BaseCas>> \in SharedOf(owns) /\ <<"filterBuilder", BaseCas>> \in SharedOf(owns)
  BY DEF SharedOf
<1>5. <<"casDefinition", BaseCas>> \in SharedOf(owns) <=> owns
  BY DEF SharedOf
<1>6. <<"heap", BaseCas>> \in Shared /\ <<"filterBuilder", BaseCas>> \in Shared /\ <<"casDefinition", BaseCas>> \in Shared
  BY DEF Shared
<1>7. /\ f[<<"heap", BaseCas>>] = 0 /\ f[<<"filterBuilder", BaseCas>>] = 0 /\ f[<<"casDefinition", BaseCas>>] = 0
  BY DEF FreedAs
<1>8. /\ g[<<"heap", BaseCas>>] = 1 /\ g[<<"filterBuilder", BaseCas>>] = 1
      /\ g[<<"casDefinition", BaseCas>>] = IF owns THEN 1 ELSE 0
  BY <1>2, <1>4, <1>5, <1>6, <1>7
<1> QED
  BY <1>2, <1>3, <1>8 DEF FreedAs, g

LEMMA BaseIsOne == BaseCas \in CasObjects
BY LifetimeAssumption DEF BaseCas, CasObjects

LEMMA UnfreedAre == ASSUME NEW owns \in BOOLEAN PROVE FreedAs(Unfreed, owns, {}, {}, FALSE)
<1>1. \A c \in CasObjects : <<"cas", c>> \in OwnParts /\ <<"indexes", c>> \in OwnParts
  BY DEF OwnParts
<1>2. <<"heap", BaseCas>> \in Shared /\ <<"filterBuilder", BaseCas>> \in Shared /\ <<"casDefinition", BaseCas>> \in Shared
  BY DEF Shared
<1>3. Unfreed = [p \in OwnParts \cup Shared |-> Unfreed[p]] /\ \A p \in OwnParts \cup Shared : Unfreed[p] = 0
  BY DEF Unfreed
<1> QED
  BY <1>1, <1>2, <1>3 DEF FreedAs

LEMMA LifeInvInit == LInit => LifeInv
<1> SUFFICES ASSUME LInit PROVE LifeInv
  OBVIOUS
<1>1. LifeType /\ ~lDangling
  <2>1. lFamily \in Nat /\ lViews \subseteq CasObjects \ {BaseCas} /\ lStack \in Seq(Frames)
    BY DEF LInit
  <2>2. lOwns \in BOOLEAN /\ lDeleting \in BOOLEAN /\ ~lDangling
    BY Zenon DEF LInit
  <2> QED
    BY <2>1, <2>2 DEF LifeType
<1>2. AtRest
  BY UnfreedAre DEF LInit, AtRest, Untouched, FreedAre
<1> QED
  BY <1>1, <1>2 DEF LifeInv

\* A CAS lives until its destructor ends.
LEMMA LivesUntilDeleted ==
    ASSUME LifeInv, ~Calling, NEW c \in CasObjects, Living(c) PROVE Untouched /\ c \in Family
<1>1. AtRest
  BY DEF LifeInv, Calling, ViewDeleted, BaseDeleted, NextDeleted, LastDeleted
<1>2. c \in Family /\ lFreed[<<"cas", c>>] = 0
  BY DEF Living, Family
<1>3. ~AllGone
  <2>1. AllGone => lFreed[<<"cas", c>>] = IF c \in Family THEN 1 ELSE 0
    BY DEF AllGone, FreedAre, FreedAs
  <2> QED
    BY <2>1, <1>2
<1> QED
  BY <1>1, <1>2, <1>3 DEF AtRest

\* Which destructor has come to which part.
LEMMA WhoRuns ==
    ASSUME LifeInv, Calling
    PROVE  /\ Running("family") => ViewDeleted
           /\ Running("shared") \/ Running("views") => BaseDeleted
<1>1. ViewDeleted \/ BaseDeleted \/ NextDeleted \/ LastDeleted
  BY DEF LifeInv, AtRest, Calling
<1>2. ViewDeleted => Head(lStack).at \in {"own", "family"}
  BY DEF ViewDeleted, Running
<1>3. BaseDeleted => Head(lStack).at \in {"own", "shared", "views"}
  BY DEF BaseDeleted, Running
<1>4. NextDeleted => Head(lStack).at \in {"own", "end"}
  BY DEF NextDeleted, Running
<1>5. LastDeleted => Head(lStack).at = "end"
  BY DEF LastDeleted, Running
<1> QED
  BY <1>1, <1>2, <1>3, <1>4, <1>5 DEF Running

LEMMA LifeInvStep == LifeInv /\ [LNext]_lVars => LifeInv'
<1> SUFFICES ASSUME LifeInv, [LNext]_lVars PROVE LifeInv'
  OBVIOUS
<1>0. LifeType /\ ~lDangling
  BY DEF LifeInv
<1>b. BaseCas \in CasObjects /\ BaseCas \notin lViews
  BY <1>0, BaseIsOne DEF LifeType
<1>1. CASE NewCas
  <2>1. LifeType' /\ ~lDangling'
    <3>1. lFamily' \in Nat /\ lViews' \subseteq CasObjects \ {BaseCas} /\ lStack' \in Seq(Frames)
      BY <1>1, <1>0 DEF NewCas, LifeType
    <3>2. lOwns' \in BOOLEAN /\ lDeleting' \in BOOLEAN /\ ~lDangling'
      BY <1>1, <1>0, Zenon DEF NewCas
    <3> QED
      BY <3>1, <3>2 DEF LifeType
  <2>2. AtRest'
    BY <1>1, UnfreedAre DEF NewCas, AtRest, Untouched, FreedAre, Calling
  <2> QED
    BY <2>1, <2>2 DEF LifeInv
<1>2. CASE NewView
  <2>1. Untouched /\ ~Calling
    BY <1>2, <1>b, LivesUntilDeleted DEF NewView
  <2>2. LifeType' /\ ~lDangling'
    BY <1>2, <1>0 DEF NewView, LifeType
  <2>3. AtRest'
    BY <1>2, <2>1 DEF NewView, AtRest, Untouched, FreedAre, Calling
  <2> QED
    BY <2>2, <2>3 DEF LifeInv
<1>3. CASE DeleteCas
  <2>0. ~Calling /\ UNCHANGED <<lFamily, lOwns, lViews, lMap, lDeleting, lTodo, lFreed, lDangling>>
    BY <1>3 DEF DeleteCas
  <2>1. PICK c \in CasObjects : Living(c) /\ lStack' = <<[cas |-> c, at |-> "own"]>>
    BY <1>3 DEF DeleteCas
  <2>2. Untouched /\ c \in Family
    BY <2>0, <2>1, LivesUntilDeleted
  <2>3. /\ lStack' \in Seq(Frames) /\ lStack' # << >> /\ Tail(lStack') = << >>
        /\ Head(lStack') = [cas |-> c, at |-> "own"]
    BY <2>1 DEF Frames
  <2>4. LifeType' /\ ~lDangling'
    BY <2>0, <2>3, <1>0 DEF LifeType
  <2>5. Untouched'
    BY <2>0, <2>2 DEF Untouched, FreedAre
  <2>6. CASE c = BaseCas
    <3>1. Waiting(Tail(lStack))' = {}
      BY <2>3 DEF Waiting
    <3>2. UnderBase(Tail(lStack))'
      BY <2>3, <2>5, <3>1 DEF UnderBase, Untouched
    <3>3. ThisCas' = BaseCas /\ Calling' /\ Running("own")'
      BY <2>3, <2>6 DEF ThisCas, Calling, Running
    <3>4. FreedAre({}, Waiting(Tail(lStack)), FALSE)'
      BY <2>5, <3>1 DEF Untouched, FreedAre
    <3>5. BaseDeleted'
      BY <3>2, <3>3, <3>4 DEF BaseDeleted
    <3> QED
      BY <3>5, <2>4 DEF LifeInv
  <2>7. CASE c # BaseCas
    <3>1. c \in lViews'
      BY <2>7, <2>2, <2>0 DEF Family
    <3>2. ThisCas' = c /\ Calling' /\ Running("own")'
      BY <2>3 DEF ThisCas, Calling, Running
    <3>3. ViewDeleted'
      BY <3>1, <3>2, <2>3, <2>5 DEF ViewDeleted
    <3> QED
      BY <3>3, <2>4 DEF LifeInv
  <2> QED
    BY <2>6, <2>7
<1>4. CASE DestroyOwn
  <2>0. /\ Running("own") /\ Calling /\ lFreed' = FreedMore(lFreed, {<<"indexes", ThisCas>>})
        /\ UNCHANGED <<lFamily, lOwns, lViews, lMap, lDeleting, lTodo>>
        /\ lStack' = Onward(IF ThisCas = BaseCas THEN "shared" ELSE IF lDeleting THEN "end" ELSE "family")
    BY <1>4 DEF DestroyOwn, Running, Free, FreedMore
  <2>d. ~Dangles => ~lDangling'
    BY <1>4, <1>0, Zenon DEF DestroyOwn
  <2>c. ThisCas \in CasObjects /\ lOwns \in BOOLEAN
    BY <2>0, <1>0, Popped DEF LifeType
  <2>n. ~LastDeleted /\ ~AtRest
    BY <2>0 DEF LastDeleted, AtRest, Running, Calling
  <2>1. CASE ViewDeleted
    <3>1. /\ ThisCas \in lViews /\ ThisCas # BaseCas /\ Tail(lStack) = << >> /\ FreedAs(lFreed, lOwns, {}, {}, FALSE)
          /\ ~lDeleting /\ lMap = lViews
      BY <2>1, <2>0, <1>b DEF ViewDeleted, Running, Untouched, FreedAre
    <3>2. /\ lStack' \in Seq(Frames) /\ lStack' # << >> /\ Head(lStack') = [cas |-> ThisCas, at |-> "family"]
          /\ Tail(lStack') = << >>
      BY <2>0, <3>1, <1>0, GoesOn
    <3>3. FreedAs(lFreed', lOwns', {}, {ThisCas}, FALSE)
      <4>1. FreedAs(FreedMore(lFreed, {<<"indexes", ThisCas>>}), lOwns, {}, {} \cup {ThisCas}, FALSE)
        BY <2>c, <3>1, IndexesFreed
      <4>2. {} \cup {ThisCas} = {ThisCas}
        OBVIOUS
      <4> QED
        BY <4>1, <4>2, <2>0
    <3>4. LifeType'
      BY <2>0, <3>2, <1>0 DEF LifeType
    <3>5. ViewDeleted'
      <4>1. ThisCas' = ThisCas /\ Calling' /\ Running("family")'
        BY <3>2 DEF ThisCas, Calling, Running
      <4> QED
        BY <4>1, <3>1, <3>2, <3>3, <2>0 DEF ViewDeleted, FreedAre
    <3>6. ~Dangles
      <4>1. lFreed[<<"cas", BaseCas>>] = 0
        BY <3>1, <1>b DEF FreedAs
      <4> QED
        BY <4>1 DEF Dangles
    <3> QED
      BY <3>4, <3>5, <3>6, <2>d DEF LifeInv
  <2>2. CASE BaseDeleted
    <3> DEFINE t == Tail(lStack)
    <3>1. ThisCas = BaseCas /\ UnderBase(t) /\ FreedAs(lFreed, lOwns, {}, Waiting(t), FALSE)
      BY <2>2, <2>0 DEF BaseDeleted, Running, FreedAre
    <3>2. /\ lStack' \in Seq(Frames) /\ lStack' # << >> /\ Head(lStack') = [cas |-> BaseCas, at |-> "shared"]
          /\ Tail(lStack') = t
      BY <2>0, <3>1, <1>0, GoesOn
    <3>3. BaseCas \notin Waiting(t)
      BY <1>b DEF Waiting
    <3>4. FreedAs(lFreed', lOwns', {}, Waiting(t) \cup {BaseCas}, FALSE)
      BY <2>0, <2>c, <3>1, <3>3, IndexesFreed
    <3>5. LifeType'
      BY <2>0, <3>2, <1>0 DEF LifeType
    <3> HIDE DEF t
    <3>6. BaseDeleted'
      <4>1. ThisCas' = BaseCas /\ Calling' /\ Running("shared")'
        BY <3>2 DEF ThisCas, Calling, Running
      <4>2. UnderBase(Tail(lStack))' /\ Waiting(Tail(lStack))' = Waiting(t)
        BY <3>1, <3>2, <2>0 DEF UnderBase, Waiting
      <4> QED
        BY <4>1, <4>2, <3>4 DEF BaseDeleted, FreedAre
    <3>7. ~Dangles
      BY <3>1 DEF Dangles
    <3> QED
      BY <3>5, <3>6, <3>7, <2>d DEF LifeInv
  <2>3. CASE NextDeleted
    <3> DEFINE t == Tail(lStack)
               w == ThisCas
    <3>1. /\ t # << >> /\ Head(t) = [cas |-> BaseCas, at |-> "views"] /\ UnderBase(Tail(t)) /\ lDeleting
          /\ lTodo \subseteq lMap /\ w \in lMap \ lTodo /\ lMap \subseteq lViews
          /\ FreedAs(lFreed, lOwns, lMap \ (lTodo \cup {w}), Family \ (lTodo \cup {w}), TRUE)
      BY <2>3, <2>0 DEF NextDeleted, Running, FreedAre, UnderBase
    <3>2. w # BaseCas /\ w \in Family /\ BaseCas \notin lMap
      BY <3>1, <1>b DEF Family
    <3>3. /\ lStack' \in Seq(Frames) /\ lStack' # << >> /\ Head(lStack') = [cas |-> w, at |-> "end"]
          /\ Tail(lStack') = t
      BY <2>0, <3>1, <3>2, <1>0, GoesOn
    <3>4. (Family \ (lTodo \cup {w})) \cup {w} = Family \ lTodo
      BY <3>1, <3>2
    <3>5. FreedAs(lFreed', lOwns', lMap \ (lTodo \cup {w}), Family \ lTodo, TRUE)
      <4>1. w \notin Family \ (lTodo \cup {w})
        OBVIOUS
      <4>2. FreedAs(FreedMore(lFreed, {<<"indexes", w>>}), lOwns, lMap \ (lTodo \cup {w}),
                    (Family \ (lTodo \cup {w})) \cup {w}, TRUE)
        BY <3>1, <2>c, <4>1, IndexesFreed
      <4> QED
        BY <4>2, <3>4, <2>0
    <3>6. LifeType'
      BY <2>0, <3>3, <1>0 DEF LifeType
    <3>7. ~Dangles
      <4>1. lFreed[<<"cas", BaseCas>>] = 0
        BY <3>1, <3>2, <1>b DEF FreedAs
      <4> QED
        BY <4>1 DEF Dangles
    <3>8. ThisCas' = w /\ Calling' /\ Running("end")' /\ Family' = Family
      BY <3>3, <2>0 DEF ThisCas, Calling, Running, Family
    <3> HIDE DEF t, w
    <3>9. UnderBase(Tail(Tail(lStack)))'
      BY <3>1, <3>3, <2>0 DEF UnderBase, Waiting
    <3>10. NextDeleted'
      BY <3>1, <3>3, <3>5, <3>8, <3>9, <2>0 DEF NextDeleted, FreedAre
    <3> QED
      BY <3>6, <3>7, <3>10, <2>d DEF LifeInv
  <2> QED
    BY <2>1, <2>2, <2>3, <2>n DEF LifeInv
<1>5. CASE DestroyFamily
  <2>0. /\ Running("family") /\ Calling /\ lMap' = lMap \ {ThisCas} /\ lDeleting' = TRUE
        /\ lStack' = <<[cas |-> BaseCas, at |-> "own"]>> \o Onward("end")
        /\ UNCHANGED <<lFamily, lOwns, lViews, lTodo, lFreed, lDangling>>
    BY <1>5 DEF DestroyFamily, Running, Dropped
  <2>1. /\ Tail(lStack) = << >> /\ ThisCas \in lViews /\ lMap = lViews
        /\ FreedAs(lFreed, lOwns, {}, {ThisCas}, FALSE)
    <3>1. ViewDeleted
      BY <2>0, WhoRuns
    <3> QED
      BY <3>1, <2>0 DEF ViewDeleted, Running, Untouched, FreedAre
  <2> DEFINE t == Onward("end")
             v == ThisCas
  <2>2. t \in Seq(Frames) /\ t # << >> /\ Head(t) = [cas |-> v, at |-> "end"] /\ Tail(t) = << >>
    BY <2>0, <2>1, <1>0, GoesOn
  <2>3. /\ lStack' \in Seq(Frames) /\ lStack' # << >> /\ Head(lStack') = [cas |-> BaseCas, at |-> "own"]
        /\ Tail(lStack') = t
    <3>1. [cas |-> BaseCas, at |-> "own"] \in Frames
      BY <1>b DEF Frames
    <3> QED
      BY <2>0, <2>2, <3>1, Pushed
  <2> HIDE DEF t, v
  <2>4. LifeType' /\ ~lDangling'
    BY <2>0, <2>3, <1>0 DEF LifeType
  <2>5. Waiting(Tail(lStack))' = {v}
    <3>1. v \in lViews' /\ Tail(lStack') = t /\ t # << >> /\ Head(t).cas = v
      BY <2>0, <2>1, <2>2, <2>3 DEF v
    <3>2. Waiting(Tail(lStack))' = {u \in lViews' : u = v}
      BY <3>1 DEF Waiting
    <3> QED
      BY <3>1, <3>2
  <2>6. BaseDeleted'
    <3>1. ThisCas' = BaseCas /\ Calling' /\ Running("own")'
      BY <2>3 DEF ThisCas, Calling, Running
    <3>2. Tail(lStack') = t /\ Tail(t) = << >> /\ Head(t).at = "end" /\ Head(t).cas \in lViews'
      BY <2>0, <2>1, <2>2, <2>3 DEF v
    <3>3. lMap' = lViews' \ Waiting(Tail(lStack))'
      BY <2>0, <2>1, <2>5 DEF v
    <3>4. UnderBase(Tail(lStack))'
      BY <3>2, <3>3 DEF UnderBase
    <3>5. FreedAre({}, Waiting(Tail(lStack)), FALSE)'
      BY <2>0, <2>1, <2>5 DEF FreedAre, v
    <3> QED
      BY <3>1, <3>4, <3>5 DEF BaseDeleted
  <2> QED
    BY <2>4, <2>6 DEF LifeInv
<1>6. CASE DestroyShared
  <2>0. /\ Running("shared") /\ Calling /\ lDeleting' = TRUE /\ lTodo' = lMap
        /\ lFreed' = FreedMore(lFreed, SharedOf(lOwns)) /\ lStack' = Onward("views")
        /\ UNCHANGED <<lFamily, lOwns, lViews, lMap, lDangling>>
    BY <1>6 DEF DestroyShared, Running, Free, FreedMore, SharedOf
  <2> DEFINE t == Tail(lStack)
  <2>1. ThisCas = BaseCas /\ UnderBase(t) /\ FreedAs(lFreed, lOwns, {}, Waiting(t) \cup {BaseCas}, FALSE)
    <3>1. BaseDeleted
      BY <2>0, WhoRuns
    <3> QED
      BY <3>1, <2>0 DEF BaseDeleted, Running, FreedAre
  <2>2. /\ lStack' \in Seq(Frames) /\ lStack' # << >> /\ Head(lStack') = [cas |-> BaseCas, at |-> "views"]
        /\ Tail(lStack') = t
    BY <2>0, <2>1, <1>0, GoesOn
  <2>3. LifeType' /\ ~lDangling'
    BY <2>0, <2>2, <1>0 DEF LifeType
  <2>4. Waiting(t) \cup {BaseCas} = Family \ lMap /\ lMap \ lMap = {}
    BY <2>1, <1>b DEF UnderBase, Family, Waiting
  <2>5. FreedAs(lFreed', lOwns', lMap \ lMap, Family \ lMap, TRUE)
    BY <2>0, <2>1, <2>4, <1>0, SharedFreed DEF LifeType
  <2> HIDE DEF t
  <2>6. UnderBase(Tail(lStack))'
    BY <2>0, <2>1, <2>2 DEF UnderBase, Waiting
  <2>7. BaseDeleted'
    <3>1. ThisCas' = BaseCas /\ Calling' /\ Running("views")' /\ Family' = Family
      BY <2>0, <2>2 DEF ThisCas, Calling, Running, Family
    <3>2. lDeleting' /\ lTodo' \subseteq lMap'
      BY <2>0
    <3>3. FreedAre(lMap \ lTodo, Family \ lTodo, TRUE)'
      BY <2>0, <2>5, <3>1 DEF FreedAre
    <3> QED
      BY <2>6, <3>1, <3>2, <3>3 DEF BaseDeleted
  <2> QED
    BY <2>3, <2>7 DEF LifeInv
<1>7. CASE DestroyNextView
  <2>0. /\ Running("views") /\ Calling /\ UNCHANGED <<lFamily, lOwns, lViews, lMap, lDeleting, lFreed>>
    BY <1>7 DEF DestroyNextView, Running
  <2>1. PICK v \in lTodo : /\ lTodo' = lTodo \ {v}
                           /\ lStack' = <<[cas |-> v, at |-> "own"]>> \o lStack
                           /\ lDangling' = (lDangling \/ lFreed[<<"cas", v>>] > 0)
    BY <1>7 DEF DestroyNextView
  <2>2. /\ ThisCas = BaseCas /\ UnderBase(Tail(lStack)) /\ lDeleting /\ lTodo \subseteq lMap
        /\ FreedAs(lFreed, lOwns, lMap \ lTodo, Family \ lTodo, TRUE)
    <3>1. BaseDeleted
      BY <2>0, WhoRuns
    <3> QED
      BY <3>1, <2>0 DEF BaseDeleted, Running, FreedAre
  <2>3. Head(lStack) = [cas |-> BaseCas, at |-> "views"]
    BY <2>0, <2>2, <1>0, Popped DEF Running, ThisCas, Frames
  <2>4. v \in CasObjects /\ v \in lMap
    BY <2>2, <1>0 DEF UnderBase, LifeType
  <2>5. /\ lStack' \in Seq(Frames) /\ lStack' # << >> /\ Head(lStack') = [cas |-> v, at |-> "own"]
        /\ Tail(lStack') = lStack
    <3>1. [cas |-> v, at |-> "own"] \in Frames
      BY <2>4 DEF Frames
    <3> QED
      BY <2>1, <3>1, <1>0, Pushed DEF LifeType
  <2>6. LifeType'
    BY <2>0, <2>5, <1>0 DEF LifeType
  <2>7. lFreed[<<"cas", v>>] = 0
    BY <2>2, <2>4 DEF FreedAs
  <2>8. ~lDangling'
    <3>1. ~(lFreed[<<"cas", v>>] > 0)
      BY <2>7
    <3> QED
      BY <3>1, <2>1, <1>0, Zenon
  <2>9. lTodo' \cup {v} = lTodo
    BY <2>1
  <2>10. NextDeleted'
    <3>1. ThisCas' = v /\ Calling' /\ Running("own")' /\ Family' = Family
      BY <2>5, <2>0 DEF ThisCas, Calling, Running, Family
    <3>2. UnderBase(Tail(Tail(lStack)))'
      BY <2>0, <2>2, <2>5 DEF UnderBase, Waiting
    <3>3. lTodo' \subseteq lMap /\ v \in lMap \ lTodo'
      BY <2>1, <2>2, <2>4
    <3> QED
      BY <3>1, <3>2, <3>3, <2>0, <2>2, <2>3, <2>5, <2>9 DEF NextDeleted, FreedAre, Calling
  <2> QED
    BY <2>6, <2>8, <2>10 DEF LifeInv
<1>8. CASE DestructorEnds
  <2>0. /\ Running("end") \/ (Running("views") /\ lTodo = {})
        /\ Calling /\ lFreed' = FreedMore(lFreed, {<<"cas", ThisCas>>}) /\ lStack' = Tail(lStack)
        /\ UNCHANGED <<lFamily, lOwns, lViews, lMap, lDeleting, lTodo, lDangling>>
    BY <1>8 DEF DestructorEnds, Running, Free, FreedMore
  <2>1. ThisCas \in CasObjects /\ lOwns \in BOOLEAN /\ lStack' \in Seq(Frames)
    BY <2>0, <1>0, Popped DEF LifeType
  <2>2. LifeType' /\ ~lDangling'
    BY <2>0, <2>1, <1>0 DEF LifeType
  <2>n. ~ViewDeleted /\ ~AtRest
    BY <2>0 DEF ViewDeleted, AtRest, Running, Calling
  <2>3. CASE BaseDeleted
    <3>1. /\ ThisCas = BaseCas /\ UnderBase(lStack') /\ lTodo = {}
          /\ FreedAs(lFreed, lOwns, lMap, Family, TRUE)
      <4>1. Running("views") /\ lTodo = {}
        BY <2>0, <2>3 DEF BaseDeleted, Running
      <4>2. lMap \ lTodo = lMap /\ Family \ lTodo = Family
        BY <4>1
      <4> QED
        BY <4>1, <4>2, <2>0, <2>3 DEF BaseDeleted, Running, FreedAre
    <3>2. BaseCas \notin lMap /\ FreedAs(lFreed', lOwns', lMap \cup {BaseCas}, Family, TRUE)
      <4>1. BaseCas \notin lMap
        BY <3>1, <1>b DEF UnderBase
      <4> QED
        BY <4>1, <3>1, <2>0, <2>1, CasFreed
    <3>3. CASE lStack' = << >>
      <4>1. lMap = lViews
        BY <3>1, <3>3 DEF UnderBase, Waiting
      <4>2. lMap \cup {BaseCas} = Family' /\ Family' = Family
        BY <4>1, <2>0 DEF Family
      <4>3. AtRest'
        BY <3>2, <3>3, <4>2 DEF AtRest, AllGone, FreedAre
      <4> QED
        BY <4>3, <2>2 DEF LifeInv
    <3>4. CASE lStack' # << >>
      <4> DEFINE v == Head(lStack').cas
      <4>1. Tail(lStack') = << >> /\ Head(lStack').at = "end" /\ v \in lViews /\ lMap = lViews \ {v}
        BY <3>1, <3>4 DEF UnderBase, Waiting
      <4>2. lMap \cup {BaseCas} = Family' \ {v} /\ Family' = Family
        BY <4>1, <2>0, <1>b DEF Family
      <4>3. LastDeleted'
        BY <3>2, <3>4, <4>1, <4>2, <2>0 DEF LastDeleted, Calling, Running, ThisCas, FreedAre
      <4> QED
        BY <4>3, <2>2 DEF LifeInv
    <3> QED
      BY <3>3, <3>4
  <2>4. CASE NextDeleted
    <3> DEFINE w == ThisCas
    <3>1. /\ lStack' # << >> /\ Head(lStack') = [cas |-> BaseCas, at |-> "views"] /\ UnderBase(Tail(lStack')) /\ lDeleting
          /\ lTodo \subseteq lMap /\ w \in lMap \ lTodo
      BY <2>4, <2>0 DEF NextDeleted
    <3>2. Head(lStack).at = "end"
      <4>1. w # BaseCas
        BY <3>1, <1>b DEF UnderBase
      <4>2. Head(lStack).at \in {"own", "end"}
        BY <2>4 DEF NextDeleted, Running
      <4> QED
        BY <4>2, <2>0 DEF Running
    <3>3. FreedAs(lFreed, lOwns, lMap \ (lTodo \cup {w}), Family \ lTodo, TRUE)
      BY <2>4, <3>2 DEF NextDeleted, Running, FreedAre
    <3>4. (lMap \ (lTodo \cup {w})) \cup {w} = lMap \ lTodo /\ w \notin lMap \ (lTodo \cup {w})
      BY <3>1
    <3>5. FreedAs(lFreed', lOwns', lMap \ lTodo, Family \ lTodo, TRUE)
      <4>1. FreedAs(FreedMore(lFreed, {<<"cas", w>>}), lOwns, (lMap \ (lTodo \cup {w})) \cup {w}, Family \ lTodo, TRUE)
        BY <3>3, <3>4, <2>1, CasFreed
      <4> QED
        BY <4>1, <3>4, <2>0
    <3>6. UnderBase(Tail(lStack))'
      BY <3>1, <2>0 DEF UnderBase, Waiting
    <3>7. BaseDeleted'
      <4>1. ThisCas' = BaseCas /\ Calling' /\ Running("views")' /\ Family' = Family
        BY <3>1, <2>0 DEF ThisCas, Calling, Running, Family
      <4>2. lDeleting' /\ lTodo' \subseteq lMap'
        BY <2>0, <3>1
      <4>3. FreedAre(lMap \ lTodo, Family \ lTodo, TRUE)'
        BY <2>0, <3>5, <4>1 DEF FreedAre
      <4> QED
        BY <3>6, <4>1, <4>2, <4>3 DEF BaseDeleted
    <3> QED
      BY <3>7, <2>2 DEF LifeInv
  <2>5. CASE LastDeleted
    <3>1. /\ lStack' = << >> /\ ThisCas \in lViews /\ FreedAs(lFreed, lOwns, Family \ {ThisCas}, Family, TRUE)
      BY <2>5, <2>0 DEF LastDeleted, FreedAre
    <3>2. (Family \ {ThisCas}) \cup {ThisCas} = Family /\ ThisCas \notin Family \ {ThisCas}
      BY <3>1 DEF Family
    <3>3. FreedAs(lFreed', lOwns', Family, Family, TRUE)
      <4>1. FreedAs(FreedMore(lFreed, {<<"cas", ThisCas>>}), lOwns, (Family \ {ThisCas}) \cup {ThisCas}, Family, TRUE)
        BY <3>1, <3>2, <2>1, CasFreed
      <4> QED
        BY <4>1, <3>2, <2>0
    <3>4. AtRest'
      BY <3>1, <3>3, <2>0 DEF AtRest, AllGone, FreedAre, Family
    <3> QED
      BY <3>4, <2>2 DEF LifeInv
  <2> QED
    BY <2>3, <2>4, <2>5, <2>n DEF LifeInv
<1>9. CASE UNCHANGED lVars
  <2>1. LifeType' /\ ~lDangling'
    BY <1>9, <1>0 DEF lVars, LifeType
  <2>2. UNCHANGED <<lFamily, lOwns, lViews, lMap, lDeleting, lStack, lTodo, lFreed>>
    BY <1>9 DEF lVars
  <2>3. (AtRest => AtRest') /\ (ViewDeleted => ViewDeleted') /\ (BaseDeleted => BaseDeleted')
        /\ (NextDeleted => NextDeleted') /\ (LastDeleted => LastDeleted')
    BY <2>2 DEF AtRest, ViewDeleted, BaseDeleted, NextDeleted, LastDeleted, Untouched, AllGone, FreedAre, Family,
         UnderBase, Waiting, Calling, Running, ThisCas
  <2> QED
    BY <2>1, <2>3 DEF LifeInv
<1>10. QED
  BY <1>1, <1>2, <1>3, <1>4, <1>5, <1>6, <1>7, <1>8, <1>9 DEF LNext

\* A count that is stated is a count of at most one.
LEMMA FreedOnce ==
    ASSUME NEW A, NEW B, NEW shared \in BOOLEAN, lOwns \in BOOLEAN, FreedAre(A, B, shared)
    PROVE  /\ DOMAIN lFreed = OwnParts \cup Shared
           /\ \A p \in DOMAIN lFreed : lFreed[p] <= 1
           /\ lFreed[<<"casDefinition", BaseCas>>] = 1 => lOwns
<1>1. DOMAIN lFreed = OwnParts \cup Shared
  BY DEF FreedAre, FreedAs
<1>2. \A p \in OwnParts : \E c \in CasObjects : p = <<"cas", c>> \/ p = <<"indexes", c>>
  BY DEF OwnParts
<1>3. \A c \in CasObjects : lFreed[<<"cas", c>>] \in {0, 1} /\ lFreed[<<"indexes", c>>] \in {0, 1}
  BY DEF FreedAre, FreedAs
<1>4. \A p \in OwnParts : lFreed[p] \in {0, 1}
  BY <1>2, <1>3
<1>5. \A p \in Shared : lFreed[p] \in {0, 1}
  BY DEF Shared, FreedAre, FreedAs
<1>6. lFreed[<<"casDefinition", BaseCas>>] = 1 => lOwns
  BY DEF FreedAre, FreedAs
<1> QED
  BY <1>1, <1>4, <1>5, <1>6

\* A dead family is wholly deleted.
LEMMA GoneIsAllGone ==
    ASSUME LifeType, AllGone
    PROVE  \A p \in DOMAIN lFreed :
               lFreed[p] = 1 <=> IF p[1] = "casDefinition" THEN lOwns ELSE p[2] \in lViews \cup {BaseCas}
<1> SUFFICES ASSUME NEW p \in DOMAIN lFreed
             PROVE  lFreed[p] = 1 <=> IF p[1] = "casDefinition" THEN lOwns ELSE p[2] \in lViews \cup {BaseCas}
  OBVIOUS
<1>1. p \in OwnParts \cup Shared
  BY DEF AllGone, FreedAre, FreedAs
<1>2. CASE p \in OwnParts
  <2>1. PICK c \in CasObjects : p = <<"cas", c>> \/ p = <<"indexes", c>>
    BY <1>2 DEF OwnParts
  <2>2. p[1] # "casDefinition" /\ p[2] = c
    BY <2>1
  <2>3. lFreed[p] = 1 <=> c \in Family
    <3>1. /\ lFreed[<<"cas", c>>] = IF c \in Family THEN 1 ELSE 0
          /\ lFreed[<<"indexes", c>>] = IF c \in Family THEN 1 ELSE 0
      BY DEF AllGone, FreedAre, FreedAs
    <3> QED
      BY <2>1, <3>1
  <2> QED
    BY <2>2, <2>3 DEF Family
<1>3. CASE p \in Shared
  <2>1. CASE p = <<"casDefinition", BaseCas>>
    <3>1. lFreed[p] = 1 <=> lOwns
      BY <2>1 DEF AllGone, FreedAre, FreedAs
    <3> QED
      BY <3>1, <2>1
  <2>2. CASE p = <<"heap", BaseCas>> \/ p = <<"filterBuilder", BaseCas>>
    <3>1. lFreed[p] = 1
      BY <2>2 DEF AllGone, FreedAre, FreedAs
    <3> QED
      BY <3>1, <2>2
  <2> QED
    BY <1>3, <2>1, <2>2 DEF Shared
<1> QED
  BY <1>1, <1>2, <1>3

LEMMA LifeInvImplies == LifeInv => DeletedOnce
<1> SUFFICES ASSUME LifeInv PROVE DeletedOnce
  OBVIOUS
<1>1. LifeType /\ ~lDangling /\ lOwns \in BOOLEAN
  BY DEF LifeInv, LifeType
<1>2. \E A, B : \E shared \in BOOLEAN : FreedAre(A, B, shared)
  BY DEF LifeInv, AtRest, Untouched, AllGone, ViewDeleted, BaseDeleted, NextDeleted, LastDeleted
<1>3. /\ DOMAIN lFreed = OwnParts \cup Shared /\ \A p \in DOMAIN lFreed : lFreed[p] <= 1
      /\ lFreed[<<"casDefinition", BaseCas>>] = 1 => lOwns
  BY <1>1, <1>2, FreedOnce
<1>4. ~Calling => Untouched \/ AllGone
  BY DEF LifeInv, AtRest, Calling, ViewDeleted, BaseDeleted, NextDeleted, LastDeleted
<1>5. Untouched => lFreed = Unfreed
  <2> SUFFICES ASSUME Untouched PROVE lFreed = Unfreed
    OBVIOUS
  <2>1. lFreed = [p \in OwnParts \cup Shared |-> lFreed[p]]
    BY DEF Untouched, FreedAre, FreedAs
  <2>2. \A p \in OwnParts : lFreed[p] = 0
    <3>1. \A p \in OwnParts : \E c \in CasObjects : p = <<"cas", c>> \/ p = <<"indexes", c>>
      BY DEF OwnParts
    <3>2. \A c \in CasObjects : lFreed[<<"cas", c>>] = 0 /\ lFreed[<<"indexes", c>>] = 0
      BY DEF Untouched, FreedAre, FreedAs
    <3> QED
      BY <3>1, <3>2
  <2>3. \A p \in Shared : lFreed[p] = 0
    BY DEF Untouched, FreedAre, FreedAs, Shared
  <2> QED
    BY <2>1, <2>2, <2>3 DEF Unfreed
<1>6. Untouched /\ lFamily > 0 => Living(BaseCas)
  <2>1. Untouched => lFreed[<<"cas", BaseCas>>] = 0
    BY BaseIsOne DEF Untouched, FreedAre, FreedAs
  <2> QED
    BY <2>1 DEF Living
<1>7. AllGone => ~Living(BaseCas)
  <2>1. AllGone => lFreed[<<"cas", BaseCas>>] = 1
    BY BaseIsOne DEF AllGone, FreedAre, FreedAs, Family
  <2> QED
    BY <2>1 DEF Living
<1>8. ~Calling /\ lFamily > 0 /\ ~Living(BaseCas) =>
          \A p \in DOMAIN lFreed :
              lFreed[p] = 1 <=> IF p[1] = "casDefinition" THEN lOwns ELSE p[2] \in lViews \cup {BaseCas}
  BY <1>1, <1>4, <1>6, GoneIsAllGone
<1>9. ~Calling /\ Living(BaseCas) => lFreed = Unfreed
  BY <1>4, <1>5, <1>7
<1> QED
  BY <1>1, <1>3, <1>8, <1>9 DEF DeletedOnce

----------------------------------------------------------------------------
(* The hosts together *)

sceneVars == <<scene, tVars, sVars, bVars, jVars, dVars, rVars, yVars, mVars, kVars, lVars, vars>>

\* A step of a scene is a step of its component and leaves the other components alone.
LEMMA ScenesAreApart ==
    [MCNext]_sceneVars =>
        /\ [TNext]_tVars /\ [SNext]_sVars /\ [BNext]_bVars /\ [JNext]_jVars /\ [DNext]_dVars /\ [RNext]_rVars
        /\ [YNext]_yVars /\ [LNext]_lVars /\ [Next]_vars /\ [MNext]_mVars /\ [KNext]_kVars
<1> SUFFICES ASSUME [MCNext]_sceneVars
             PROVE  /\ [TNext]_tVars /\ [SNext]_sVars /\ [BNext]_bVars /\ [JNext]_jVars /\ [DNext]_dVars /\ [RNext]_rVars
                    /\ [YNext]_yVars /\ [LNext]_lVars /\ [Next]_vars /\ [MNext]_mVars /\ [KNext]_kVars
  OBVIOUS
<1>1. [TNext]_tVars
  BY DEF MCNext, Thread, sceneVars
<1>2. [SNext]_sVars
  BY DEF MCNext, Thread, sceneVars
<1>3. [BNext]_bVars
  BY DEF MCNext, Thread, sceneVars
<1>4. [JNext]_jVars
  BY DEF MCNext, Thread, sceneVars
<1>5. [DNext]_dVars
  BY DEF MCNext, Thread, sceneVars
<1>6. [RNext]_rVars
  BY DEF MCNext, Thread, sceneVars
<1>7. [YNext]_yVars
  BY DEF MCNext, Thread, sceneVars
<1>8. [LNext]_lVars
  BY DEF MCNext, Thread, sceneVars
<1>9. [Next]_vars
  BY DEF MCNext, Thread, sceneVars
<1>10. [MNext]_mVars
  BY DEF MCNext, Thread, sceneVars
<1>11. [KNext]_kVars
  BY DEF MCNext, Thread, sceneVars
<1> QED
  BY <1>1, <1>2, <1>3, <1>4, <1>5, <1>6, <1>7, <1>8, <1>9, <1>10, <1>11

HostsInv ==
    /\ ThreadInv /\ ScriptInv /\ BridgeInv /\ JavaInv /\ DriverInv /\ ResourcesInv /\ StreamInv /\ LifeInv
    /\ RequestInv /\ StatisticsInv /\ ControllerInv

\* Every component keeps its invariant in every scene, for every value of the constants.
THEOREM HostsInvariant ==
    MCSpec => []HostsInv
<1>1. MCInit => HostsInv
  <2> SUFFICES ASSUME MCInit PROVE HostsInv
    OBVIOUS
  <2>1. TInit /\ RInit /\ SInit /\ BInit /\ JInit /\ DInit /\ YInit /\ Init /\ MInit /\ LInit /\ KInit
    BY DEF MCInit
  <2> QED
    BY <2>1, ThreadInvInit, ScriptInvInit, BridgeInvInit, JavaInvInit, DriverInvInit, ResourcesInvInit, StreamInvInit,
       LifeInvInit, RequestInvInit, StatisticsInvInit, ControllerInvInit DEF HostsInv
<1>2. HostsInv /\ [MCNext]_sceneVars => HostsInv'
  <2> SUFFICES ASSUME HostsInv, [MCNext]_sceneVars PROVE HostsInv'
    OBVIOUS
  <2>1. ThreadInv' /\ ScriptInv' /\ BridgeInv' /\ JavaInv'
    BY ScenesAreApart, ThreadInvStep, ScriptInvStep, BridgeInvStep, JavaInvStep DEF HostsInv
  <2>2. DriverInv' /\ ResourcesInv' /\ StreamInv' /\ LifeInv'
    BY ScenesAreApart, DriverInvStep, ResourcesInvStep, StreamInvStep, LifeInvStep DEF HostsInv
  <2>3. RequestInv' /\ StatisticsInv' /\ ControllerInv'
    BY ScenesAreApart, RequestInvStep, NotesFitStep, ControllerInvStep DEF HostsInv
  <2> QED
    BY <2>1, <2>2, <2>3 DEF HostsInv
<1>3. QED
  BY <1>1, <1>2, PTL DEF MCSpec, sceneVars

\* The baton of an annotator thread is passed and the interpreter's lock is left to the next script
\* annotator, for any number of calls and annotators (ThreadAnnotator.h, pythonnator_multi.cpp).
THEOREM OneAtATimeAlways ==
    MCSpec => []OneAtATime
<1>1. HostsInv => OneAtATime
  BY ThreadInvImplies, ScriptInvImplies DEF HostsInv, OneAtATime
<1>2. QED
  BY <1>1, HostsInvariant, PTL

\* No interpreter, Java VM, annotator library or CAS is used after its end, for any scripts, engines,
\* libraries and views (the script annotators, internal_jedii_engine.cpp, resmgr.cpp, cas.cpp).
THEOREM NothingIsUsedAfterItsEnd ==
    MCSpec => []UsedWhileItLives
<1>1. HostsInv => UsedWhileItLives
  BY ScriptInvImplies, JavaInvImplies, ResourcesInvImplies, LifeInvImplies DEF HostsInv, UsedWhileItLives
<1>2. QED
  BY <1>1, HostsInvariant, PTL

\* A document of Java is processed with the types that came last, and every segment returns to its
\* pool, for any pool and any number of type systems (jni.cpp).
THEOREM JavaAlwaysGetsItsDocument ==
    MCSpec => []JavaGetsItsDocument
<1>1. HostsInv => JavaGetsItsDocument
  BY BridgeInvImplies DEF HostsInv, JavaGetsItsDocument
<1>2. QED
  BY <1>1, HostsInvariant, PTL

\* The engine of runAECpp sees one whole file of a directory at a time and a single file as often as
\* it was read, and a stream reads its sofa to the end and nothing behind it, for any files, runs and
\* sizes (runAECpp.cpp, sofastream.cpp).
THEOREM InputIsAlwaysReadWhole ==
    MCSpec => []InputIsReadWhole
<1>1. HostsInv => InputIsReadWhole
  BY DriverInvImplies, StreamInvImplies DEF HostsInv, InputIsReadWhole
<1>2. QED
  BY <1>1, HostsInvariant, PTL

\* No request is answered twice, one that came over the service's own broker is answered there, and
\* each reply is of its request only, for any requests, listeners and brokers
\* (ActiveMQAnalysisEngineService.cpp).
THEOREM RequestsAreAlwaysAnswered ==
    MCSpec => []RequestsAreAnswered
<1>1. HostsInv => RequestsAreAnswered
  BY RequestInvImplies DEF HostsInv, RequestsAreAnswered
<1>2. QED
  BY <1>1, HostsInvariant, PTL

\* The controller gets true counts, times and connection states, and its whole commands are carried
\* out, for any clock, command line and cut of the stream (deployCppService.hpp).
THEOREM ControllerIsAlwaysServed ==
    MCSpec => []ControllerIsServed
<1>1. HostsInv => ControllerIsServed
  BY RequestInvImplies, NotesAreRead, ControllerInvImplies DEF HostsInv, ControllerIsServed
<1>2. QED
  BY <1>1, HostsInvariant, PTL
=============================================================================
