-------------------------- MODULE ServiceLifecycle --------------------------
(***************************************************************************)
(* The threads of the C++ analysis engine service (deployCppService) from  *)
(* the moment AMQAnalysisEngineService is constructed until the process    *)
(* ends:                                                                   *)
(*                                                                         *)
(*  - main, which starts one thread per listener, starts the connections,  *)
(*    waits for a reason to stop and then stops, joins and cleans up;      *)
(*  - the listener threads 0 .. NumInstances - 1 (annotator instances) and *)
(*    NumInstances (the getMeta instance), which receive, handle requests, *)
(*    reconnect, and tell the Monitor when they give up;                   *)
(*  - the controller thread (handleCommands) when the service was started  *)
(*    by the Java controller, the stdin thread (readstdin) otherwise;      *)
(*  - signal handlers and the broker, which act at any time.               *)
(*                                                                         *)
(* Monitor::shutdown() is a bare apr_thread_cond_signal: it wakes main     *)
(* only if main is already waiting.  Main waits without a predicate.       *)
(*                                                                         *)
(* Covered: the order of every step above, the flags read without a lock,  *)
(* the exceptions that leave start, stop and receive, the objects deleted  *)
(* under a running thread.  Not covered: what a request contains and how   *)
(* it is answered, timing statistics, logging, how long a sleep lasts, and *)
(* word tearing: a read or write of one flag or handle is one step.        *)
(***************************************************************************)
EXTENDS Integers, FiniteSets

CONSTANTS
    NumInstances,     \* -n: annotator instances, each with a thread of its own
    FromJava,         \* a Java controller port was given: cs is connected
    ErrorThreshold,   \* PROCESSCAS errors that end the service; 0: never
    TerminateOnCPC,   \* a failing CPC request ends the service
    SpuriousWakeups,  \* apr_thread_cond_wait may return without a signal
    MaxRequests,      \* bound: requests delivered to the listeners
    MaxBreaks,        \* bound: connections the broker breaks
    MaxSignals        \* bound: SIGINT / SIGTERM deliveries

ASSUME ParametersAssumption ==
    /\ NumInstances \in Nat \ {0}
    /\ ErrorThreshold \in Nat
    /\ MaxRequests \in Nat
    /\ MaxBreaks \in Nat
    /\ MaxSignals \in Nat
    /\ FromJava \in BOOLEAN
    /\ TerminateOnCPC \in BOOLEAN
    /\ SpuriousWakeups \in BOOLEAN

Annotators == 0 .. NumInstances - 1
GetMetaId  == NumInstances
Listeners  == 0 .. NumInstances

\* start(), stop() visit the getMeta connection first, then 0, 1, ...
ConnectionAt(i) == IF i = 0 THEN GetMetaId ELSE i - 1

VARIABLES
    \* main
    mainPc,          \* where main is
    mainIdx,         \* index of the loop main is in
    quiescing,       \* main took the quiesceAndStop() branch
    skipped,         \* listeners shutdown() did not join: they were reconnecting
    \* Monitor
    quiesceFlag,     \* iv_quiesceandstop
    numRunning,      \* iv_numRunning
    decremented,     \* history: listeners that have decremented iv_numRunning
    processcasErrors,\* iv_processcasErrors
    stopCauses,      \* history: why Monitor::shutdown() has been called
    monitorAlive,    \* singleton_pMonitor # 0
    \* listeners
    lpc,             \* where each listener thread is
    stopFlag,        \* iv_stopProcessing
    busy,            \* iv_busy
    stopLost,        \* history: listeners that overwrote a stop request of main
    \* their connections
    handles,         \* which handles the AMQConnection holds
    broken,          \* the library considers the connection failed
    valid,           \* iv_valid
    reconnecting,    \* iv_reconnecting
    \* controller or stdin thread
    cpc,
    \* the process
    proc,            \* up, exited or aborted
    abortCause,      \* history: what aborted it
    closed,          \* iv_closed: cleanup() ran to its end
    cleanedUp,       \* history: cleanup() has begun to delete objects
    doneSent,        \* DONE was sent to the controller
    \* the environment
    requests, breaks, signals

mainVars    == <<mainIdx, quiescing, skipped>>
monitorVars == <<quiesceFlag, numRunning, decremented, processcasErrors, monitorAlive>>
wakeVars    == <<mainPc, stopCauses>>
flagVars    == <<stopFlag, busy, stopLost>>
threadVars  == <<lpc, flagVars>>
connVars    == <<handles, broken, valid, reconnecting>>
procVars    == <<proc, abortCause, closed, cleanedUp, doneSent>>
envVars     == <<requests, breaks, signals>>
vars == <<mainVars, monitorVars, wakeVars, threadVars, connVars, cpc, procVars, envVars>>

MainPcs == {"startThreads", "startConns", "createWaker", "waitEnter", "waiting", "woken",
            "joinStdin", "stopConns", "scanBusy", "setStop", "joinOrSkip", "joining",
            "cleanup", "notify", "terminate", "destroy", "unwind", "exit"}
ListenerPcs == {"created", "entering", "loop", "receive", "received", "handle", "finish",
                "reconnect", "resume", "failed", "decrement", "exited"}
Causes == {"operator", "controllerLost", "errors", "getMetaStopped", "lastStopped"}
AbortCauses == {"none", "nullConnection", "nullConsumer", "freedListener", "deletedMonitor",
                "doubleCleanup"}

-----------------------------------------------------------------------------
\* The constructor has created the connections with their consumers and the
\* listeners; no thread but main runs yet.
Init ==
    /\ mainPc = "startThreads" /\ mainIdx = 0 /\ quiescing = FALSE /\ skipped = {}
    /\ quiesceFlag = FALSE /\ numRunning = NumInstances /\ decremented = {}
    /\ processcasErrors = 0 /\ stopCauses = {} /\ monitorAlive = TRUE
    /\ lpc = [l \in Listeners |-> "created"]
    /\ stopFlag = [l \in Listeners |-> FALSE]
    /\ busy = [l \in Listeners |-> FALSE]
    /\ stopLost = {}
    /\ handles = [l \in Listeners |-> "consuming"]
    /\ broken = [l \in Listeners |-> FALSE]
    /\ valid = [l \in Listeners |-> TRUE]
    /\ reconnecting = [l \in Listeners |-> FALSE]
    /\ cpc = "none"
    /\ proc = "up" /\ abortCause = "none" /\ closed = FALSE /\ cleanedUp = FALSE
    /\ doneSent = FALSE
    /\ requests = 0 /\ breaks = 0 /\ signals = 0

\* Monitor::shutdown(): signals the condition, remembered by nobody.
Signal(cause) ==
    /\ stopCauses' = stopCauses \cup {cause}
    /\ mainPc' = IF mainPc = "waiting" THEN "woken" ELSE mainPc

\* The process is gone: std::terminate or a memory fault.
Abort(cause) ==
    /\ proc' = "aborted"
    /\ abortCause' = cause
    /\ UNCHANGED <<closed, cleanedUp, doneSent>>

MainAt(pc) == proc = "up" /\ mainPc = pc
ListenerAt(l, pc) == proc = "up" /\ ~cleanedUp /\ lpc[l] = pc
ListenerTo(l, pc) == lpc' = [lpc EXCEPT ![l] = pc]

-----------------------------------------------------------------------------
(* Main: starting.                                                         *)

\* startProcessingThreads(): one thread per listener, in the order of the ids.
StartThread ==
    /\ MainAt("startThreads")
    /\ ListenerTo(mainIdx, "entering")
    /\ IF mainIdx = NumInstances
         THEN mainIdx' = 0 /\ mainPc' = "startConns"
         ELSE mainIdx' = mainIdx + 1 /\ UNCHANGED mainPc
    /\ UNCHANGED <<quiescing, skipped, stopCauses, flagVars, monitorVars, connVars, cpc,
                   procVars, envVars>>

\* A call of AMQConnection::start() or stop() throws when the handle is NULL
\* (uima::Exception) or the library knows the connection has failed (CMSException).
CallThrows(l) == handles[l] = "none" \/ broken[l]

\* start(): the connections one by one; an exception leaves main's try block.
StartConnection ==
    /\ MainAt("startConns")
    /\ \/ /\ CallThrows(ConnectionAt(mainIdx))
          /\ mainPc' = "unwind" /\ UNCHANGED mainIdx
       \/ /\ ~CallThrows(ConnectionAt(mainIdx))
          /\ IF mainIdx = NumInstances
               THEN mainIdx' = 0 /\ mainPc' = "createWaker"
               ELSE mainIdx' = mainIdx + 1 /\ UNCHANGED mainPc
    /\ UNCHANGED <<quiescing, skipped, stopCauses, threadVars, monitorVars, connVars, cpc,
                   procVars, envVars>>

\* main creates the controller thread or the stdin thread.
CreateWaker ==
    /\ MainAt("createWaker")
    /\ IF FromJava THEN mainPc' = "waitEnter" /\ cpc' = "sendReady"
                   ELSE mainPc' = "joinStdin" /\ cpc' = "reading"
    /\ UNCHANGED <<mainVars, stopCauses, threadVars, monitorVars, connVars, procVars,
                   envVars>>

\* apr_thread_cond_wait: from here on a signal is noticed.
EnterWait ==
    /\ MainAt("waitEnter")
    /\ mainPc' = "waiting"
    /\ UNCHANGED <<mainVars, stopCauses, threadVars, monitorVars, connVars, cpc, procVars,
                   envVars>>

SpuriousWakeup ==
    /\ SpuriousWakeups
    /\ MainAt("waiting")
    /\ mainPc' = "woken"
    /\ UNCHANGED <<mainVars, stopCauses, threadVars, monitorVars, connVars, cpc, procVars,
                   envVars>>

\* apr_thread_join of the stdin thread.
StdinJoined ==
    /\ MainAt("joinStdin")
    /\ cpc = "exited"
    /\ mainPc' = "woken"
    /\ UNCHANGED <<mainVars, stopCauses, threadVars, monitorVars, connVars, cpc, procVars,
                   envVars>>

-----------------------------------------------------------------------------
(* Main: stopping.                                                         *)

\* getQuiesceAndStop() selects quiesceAndStop() or shutdown(); both call stop().
ChooseStop ==
    /\ MainAt("woken")
    /\ quiescing' = quiesceFlag
    /\ mainPc' = "stopConns" /\ mainIdx' = 0
    /\ UNCHANGED <<skipped, stopCauses, threadVars, monitorVars, connVars, cpc, procVars,
                   envVars>>

StopConnection ==
    /\ MainAt("stopConns")
    /\ \/ /\ CallThrows(ConnectionAt(mainIdx))
          /\ mainPc' = "unwind" /\ UNCHANGED mainIdx
       \/ /\ ~CallThrows(ConnectionAt(mainIdx))
          /\ IF mainIdx = NumInstances
               THEN /\ mainIdx' = 0
                    /\ mainPc' = IF quiescing THEN "scanBusy" ELSE "setStop"
               ELSE mainIdx' = mainIdx + 1 /\ UNCHANGED mainPc
    /\ UNCHANGED <<quiescing, skipped, stopCauses, threadVars, monitorVars, connVars, cpc,
                   procVars, envVars>>

\* quiesce(): one isBusy() per step; a busy listener restarts the scan.
ScanBusy ==
    /\ MainAt("scanBusy")
    /\ IF busy[mainIdx] THEN mainIdx' = 0 /\ UNCHANGED mainPc
       ELSE IF mainIdx = NumInstances
         THEN mainIdx' = 0 /\ mainPc' = "setStop"
         ELSE mainIdx' = mainIdx + 1 /\ UNCHANGED mainPc
    /\ UNCHANGED <<quiescing, skipped, stopCauses, threadVars, monitorVars, connVars, cpc,
                   procVars, envVars>>

\* Seeded fault: a reconnecting listener is not told to stop.
SetStopFlagUnlessReconnecting ==
    /\ MainAt("setStop")
    /\ stopFlag' = [stopFlag EXCEPT ![mainIdx] = ~reconnecting[mainIdx]]
    /\ mainPc' = IF quiescing THEN "joining" ELSE "joinOrSkip"
    /\ UNCHANGED <<mainVars, stopCauses, lpc, busy, stopLost, monitorVars, connVars, cpc,
                   procVars, envVars>>

\* Seeded fault: the getMeta listener is not told to stop.
SetStopFlagOfAnnotators ==
    /\ MainAt("setStop")
    /\ stopFlag' = [stopFlag EXCEPT ![mainIdx] = mainIdx \in Annotators]
    /\ mainPc' = IF quiescing THEN "joining" ELSE "joinOrSkip"
    /\ UNCHANGED <<mainVars, stopCauses, lpc, busy, stopLost, monitorVars, connVars, cpc,
                   procVars, envVars>>

\* stopProcessing() of the listener main is about to join.
SetStopFlag ==
    /\ MainAt("setStop")
    /\ stopFlag' = [stopFlag EXCEPT ![mainIdx] = TRUE]
    /\ mainPc' = IF quiescing THEN "joining" ELSE "joinOrSkip"
    /\ UNCHANGED <<stopLost, mainVars, stopCauses, lpc, busy, monitorVars, connVars, cpc,
                   procVars, envVars>>

NextListener ==
    IF mainIdx = NumInstances
      THEN mainIdx' = 0 /\ mainPc' = "cleanup"
      ELSE mainIdx' = mainIdx + 1 /\ mainPc' = "setStop"

\* Seeded fault: a busy listener is not waited for either.
JoinOrSkipBusy ==
    /\ MainAt("joinOrSkip")
    /\ IF reconnecting[mainIdx] \/ busy[mainIdx]
         THEN skipped' = skipped \cup {mainIdx} /\ NextListener
         ELSE mainPc' = "joining" /\ UNCHANGED <<mainIdx, skipped>>
    /\ UNCHANGED <<quiescing, stopCauses, threadVars, monitorVars, connVars, cpc, procVars,
                   envVars>>

\* shutdown() joins only a listener that is not reconnecting.
JoinOrSkip ==
    /\ MainAt("joinOrSkip")
    /\ IF reconnecting[mainIdx]
         THEN skipped' = skipped \cup {mainIdx} /\ NextListener
         ELSE mainPc' = "joining" /\ UNCHANGED <<mainIdx, skipped>>
    /\ UNCHANGED <<quiescing, stopCauses, threadVars, monitorVars, connVars, cpc, procVars,
                   envVars>>

\* Seeded fault: the thread is not waited for.
JoinAtOnce ==
    /\ MainAt("joining")
    /\ NextListener
    /\ UNCHANGED <<quiescing, skipped, stopCauses, threadVars, monitorVars, connVars, cpc,
                   procVars, envVars>>

\* apr_thread_join returns once the thread has ended.
Join ==
    /\ MainAt("joining")
    /\ lpc[mainIdx] = "exited"
    /\ NextListener
    /\ UNCHANGED <<quiescing, skipped, stopCauses, threadVars, monitorVars, connVars, cpc,
                   procVars, envVars>>

\* cleanup(): deletes the getMeta connection, then stops and deletes each annotator
\* connection.  A NULL handle throws a uima::Exception that cleanup() does not catch
\* and the destructor throws again; a failed connection throws a CMSException that
\* cleanup() swallows, which leaves iv_closed FALSE.
FirstThrowing == {l \in Annotators : CallThrows(l) /\ \A k \in 0 .. l - 1 : ~CallThrows(k)}

Cleanup(next) ==
    \/ /\ \E l \in FirstThrowing : handles[l] = "none"
       /\ Abort("nullConnection")
       /\ UNCHANGED mainPc
    \/ /\ \A l \in FirstThrowing : handles[l] # "none"
       /\ closed' = (FirstThrowing = {})
       /\ cleanedUp' = TRUE
       /\ mainPc' = next
       /\ UNCHANGED <<proc, abortCause, doneSent>>

CleanupAfterStop ==
    /\ MainAt("cleanup")
    /\ Cleanup("notify")
    /\ UNCHANGED <<mainVars, stopCauses, threadVars, monitorVars, connVars, cpc, envVars>>

\* An exception left start(), stop() or shutdown(): the service object of the try
\* block is destroyed while its threads run, and main goes on to exit.
Unwind ==
    /\ MainAt("unwind")
    /\ Cleanup("exit")
    /\ UNCHANGED <<mainVars, stopCauses, threadVars, monitorVars, connVars, cpc, envVars>>

\* DONE to the Java controller; the send may fail.
NotifyController ==
    /\ MainAt("notify")
    /\ mainPc' = "terminate"
    /\ doneSent' \in IF FromJava THEN BOOLEAN ELSE {FALSE}
    /\ UNCHANGED <<mainVars, stopCauses, threadVars, monitorVars, connVars, cpc, proc,
                   abortCause, closed, cleanedUp, envVars>>

\* terminateService(): closes cs, deletes the Monitor.
TerminateService ==
    /\ MainAt("terminate")
    /\ monitorAlive' = FALSE
    /\ mainPc' = "destroy"
    /\ UNCHANGED <<mainVars, stopCauses, quiesceFlag, numRunning, decremented,
                   processcasErrors, threadVars, connVars, cpc, procVars, envVars>>

\* The end of the try block destroys the service.  With iv_closed FALSE cleanup()
\* runs again, over the connections before the failed one it has deleted already.
DestroyService ==
    /\ MainAt("destroy")
    /\ \/ mainPc' = "exit" /\ UNCHANGED procVars
       \/ /\ ~closed /\ 0 \notin FirstThrowing
          /\ Abort("doubleCleanup") /\ UNCHANGED mainPc
    /\ UNCHANGED <<mainVars, stopCauses, threadVars, monitorVars, connVars, cpc, envVars>>

\* exit(0)
Exit ==
    /\ MainAt("exit")
    /\ proc' = "exited"
    /\ UNCHANGED <<mainVars, wakeVars, threadVars, monitorVars, connVars, cpc, abortCause,
                   closed, cleanedUp, doneSent, envVars>>

-----------------------------------------------------------------------------
(* Listener threads: AMQListener::receiveAndProcessMessages.               *)

\* The thread clears the stop flag itself, whenever it gets to run.
EnterReceive(l) ==
    /\ ListenerAt(l, "entering")
    /\ ListenerTo(l, "loop")
    /\ stopFlag' = [stopFlag EXCEPT ![l] = FALSE]
    /\ stopLost' = IF stopFlag[l] THEN stopLost \cup {l} ELSE stopLost
    /\ UNCHANGED <<busy, wakeVars, mainVars, monitorVars, connVars, cpc, procVars,
                   envVars>>

\* while (!iv_stopProcessing)
TestStopFlag(l) ==
    /\ ListenerAt(l, "loop")
    /\ ListenerTo(l, IF stopFlag[l] THEN "exited" ELSE "receive")
    /\ UNCHANGED <<flagVars, wakeVars, mainVars, monitorVars, connVars, cpc, procVars,
                   envVars>>

\* receive(2000) on a connection believed valid: a message, nothing, or an exception
\* when the library knows that the connection has failed.
ReceiveMessage(l) ==
    /\ ListenerAt(l, "receive") /\ valid[l] /\ handles[l] = "consuming" /\ ~broken[l]
    /\ requests < MaxRequests
    /\ requests' = requests + 1
    /\ ListenerTo(l, "received")
    /\ UNCHANGED <<flagVars, wakeVars, mainVars, monitorVars, connVars, cpc, procVars,
                   breaks, signals>>

ReceiveNothing(l) ==
    /\ ListenerAt(l, "receive") /\ valid[l] /\ handles[l] = "consuming"
    /\ ListenerTo(l, "loop")
    /\ UNCHANGED <<flagVars, wakeVars, mainVars, monitorVars, connVars, cpc, procVars,
                   envVars>>

ReceiveThrows(l) ==
    /\ ListenerAt(l, "receive") /\ valid[l] /\ handles[l] = "consuming" /\ broken[l]
    /\ ListenerTo(l, "failed")
    /\ UNCHANGED <<flagVars, wakeVars, mainVars, monitorVars, connVars, cpc, procVars,
                   envVars>>

\* iv_valid is TRUE but a failed reconnect() left iv_pConsumer NULL.
ReceiveOnNull(l) ==
    /\ ListenerAt(l, "receive") /\ valid[l] /\ handles[l] # "consuming"
    /\ Abort("nullConsumer")
    /\ UNCHANGED <<threadVars, wakeVars, mainVars, monitorVars, connVars, cpc, envVars>>

\* receive() on an invalid connection: resetBeforeReconnect() drops every handle, then
\* reconnect() sleeps and initialize() repeats createConnection() until it succeeds.
BeginReconnect(l) ==
    /\ ListenerAt(l, "receive") /\ ~valid[l]
    /\ ListenerTo(l, "reconnect")
    /\ handles' = [handles EXCEPT ![l] = "none"]
    /\ broken' = [broken EXCEPT ![l] = FALSE]
    /\ reconnecting' = [reconnecting EXCEPT ![l] = TRUE]
    /\ UNCHANGED <<valid, flagVars, wakeVars, mainVars, monitorVars, cpc, procVars,
                   envVars>>

\* initialize() has a new connection.
Reconnected(l) ==
    /\ ListenerAt(l, "reconnect")
    /\ ListenerTo(l, "resume")
    /\ handles' = [handles EXCEPT ![l] = "connected"]
    /\ valid' = [valid EXCEPT ![l] = TRUE]
    /\ UNCHANGED <<broken, reconnecting, flagVars, wakeVars, mainVars, monitorVars, cpc,
                   procVars, envVars>>

\* createMessageConsumer(), start(); receive() sets iv_valid and returns NULL.  An
\* onException() it overwrites is one that OnException below never delivers.
ReconnectDone(l) ==
    /\ ListenerAt(l, "resume") /\ ~broken[l]
    /\ ListenerTo(l, "loop")
    /\ handles' = [handles EXCEPT ![l] = "consuming"]
    /\ reconnecting' = [reconnecting EXCEPT ![l] = FALSE]
    /\ valid' = [valid EXCEPT ![l] = TRUE]
    /\ UNCHANGED <<broken, flagVars, wakeVars, mainVars, monitorVars, cpc, procVars,
                   envVars>>

\* An exception in initialize(), createMessageConsumer() or start(): reconnect() drops
\* the handles and returns, iv_reconnecting stays TRUE, receive() sets iv_valid.
ReconnectFails(l) ==
    /\ \/ ListenerAt(l, "reconnect")
       \/ ListenerAt(l, "resume")
    /\ ListenerTo(l, "loop")
    /\ handles' = [handles EXCEPT ![l] = "none"]
    /\ broken' = [broken EXCEPT ![l] = FALSE]
    /\ valid' = [valid EXCEPT ![l] = TRUE]
    /\ UNCHANGED <<reconnecting, flagVars, wakeVars, mainVars, monitorVars, cpc, procVars,
                   envVars>>

\* iv_busy is set after receive() has returned, not with it.
BecomeBusy(l) ==
    /\ ListenerAt(l, "received")
    /\ ListenerTo(l, "handle")
    /\ busy' = [busy EXCEPT ![l] = TRUE]
    /\ UNCHANGED <<stopLost, stopFlag, wakeVars, mainVars, monitorVars, connVars, cpc,
                   procVars, envVars>>

\* handleRequest() ends with processingComplete(): a success, or an invalid request,
\* which is reported with command 0, leaves the error counts alone.
HandleSucceeds(l) ==
    /\ ListenerAt(l, "handle")
    /\ ListenerTo(l, "finish")
    /\ UNCHANGED <<flagVars, wakeVars, mainVars, monitorVars, connVars, cpc, procVars,
                   envVars>>

\* incrementErrorCount(PROCESS_CAS_COMMAND), with iv_errorWindow = 0
ProcessCasFails(l) ==
    /\ l \in Annotators
    /\ ListenerAt(l, "handle")
    /\ ListenerTo(l, "finish")
    /\ processcasErrors' = processcasErrors + 1
    /\ IF ErrorThreshold > 0 /\ processcasErrors' >= ErrorThreshold
         THEN Signal("errors") ELSE UNCHANGED wakeVars
    /\ UNCHANGED <<flagVars, mainVars, quiesceFlag, numRunning, decremented, monitorAlive,
                   connVars, cpc, procVars, envVars>>

\* incrementErrorCount(CPC_COMMAND)
CpcFails(l) ==
    /\ l \in Annotators
    /\ ListenerAt(l, "handle")
    /\ ListenerTo(l, "finish")
    /\ IF TerminateOnCPC THEN Signal("errors") ELSE UNCHANGED wakeVars
    /\ UNCHANGED <<flagVars, mainVars, monitorVars, connVars, cpc, procVars, envVars>>

\* incrementErrorCount(GET_META_COMMAND)
GetMetaFails(l) ==
    /\ l = GetMetaId
    /\ ListenerAt(l, "handle")
    /\ ListenerTo(l, "finish")
    /\ Signal("errors")
    /\ UNCHANGED <<flagVars, mainVars, monitorVars, connVars, cpc, procVars, envVars>>

FinishRequest(l) ==
    /\ ListenerAt(l, "finish")
    /\ ListenerTo(l, "loop")
    /\ busy' = [busy EXCEPT ![l] = FALSE]
    /\ UNCHANGED <<stopLost, stopFlag, wakeVars, mainVars, monitorVars, connVars, cpc,
                   procVars, envVars>>

\* Seeded fault: the last but one listener passes for the last.
LastListenerOffByOne(l) == l = GetMetaId \/ numRunning <= 2

\* The catch blocks: stop flag, then Monitor::listenerStopped(), whose test of
\* iv_numRunning is made without the mutex that protects the decrement.
LastListener(l) == l = GetMetaId \/ numRunning = 1

ListenerFails(l) ==
    /\ ListenerAt(l, "failed")
    /\ stopFlag' = [stopFlag EXCEPT ![l] = TRUE]
    /\ IF LastListener(l)
         THEN /\ Signal(IF l = GetMetaId THEN "getMetaStopped" ELSE "lastStopped")
              /\ ListenerTo(l, "exited")
         ELSE ListenerTo(l, "decrement") /\ UNCHANGED wakeVars
    /\ UNCHANGED <<stopLost, busy, mainVars, monitorVars, connVars, cpc, procVars,
                   envVars>>

DecrementRunning(l) ==
    /\ ListenerAt(l, "decrement")
    /\ ListenerTo(l, "exited")
    /\ numRunning' = numRunning - 1
    /\ decremented' = decremented \cup {l}
    /\ UNCHANGED <<flagVars, wakeVars, mainVars, quiesceFlag, processcasErrors,
                   monitorAlive, connVars, cpc, procVars, envVars>>

\* A thread main did not wait for goes on after cleanup() has begun to delete the
\* connections and listeners.  What it does in that last moment is not followed: its
\* other actions stop at cleanup(), and this one is the fault it may run into.
TouchFreedListener(l) ==
    /\ proc = "up" /\ cleanedUp
    /\ lpc[l] \notin {"created", "exited"}
    /\ Abort("freedListener")
    /\ UNCHANGED <<threadVars, wakeVars, mainVars, monitorVars, connVars, cpc, envVars>>

-----------------------------------------------------------------------------
(* The controller thread (handleCommands), the stdin thread (readstdin),   *)
(* signals and the broker.                                                 *)

\* Every call goes through singleton_pMonitor, which terminateService() clears.
ControllerAt(pc) == proc = "up" /\ cpc = pc /\ monitorAlive

\* "0\n" tells the controller that the service is ready.
SendReady ==
    /\ proc = "up" /\ cpc = "sendReady"
    /\ cpc' = "recv"
    /\ UNCHANGED <<wakeVars, mainVars, monitorVars, threadVars, connVars, procVars,
                   envVars>>

SendReadyFails ==
    /\ ControllerAt("sendReady")
    /\ Signal("controllerLost")
    /\ cpc' = "exited"
    /\ UNCHANGED <<mainVars, monitorVars, threadVars, connVars, procVars, envVars>>

\* RESET clears the error counts; GETSTATS and unknown commands change nothing.
CommandReset ==
    /\ ControllerAt("recv")
    /\ processcasErrors' = 0
    /\ UNCHANGED <<wakeVars, mainVars, quiesceFlag, numRunning, decremented, monitorAlive,
                   cpc, threadVars, connVars, procVars, envVars>>

CommandQuiesceAndStop ==
    /\ ControllerAt("recv")
    /\ quiesceFlag' = TRUE
    /\ Signal("operator")
    /\ cpc' = "final"
    /\ UNCHANGED <<mainVars, numRunning, decremented, processcasErrors, monitorAlive,
                   threadVars, connVars, procVars, envVars>>

CommandShutdown ==
    /\ ControllerAt("recv")
    /\ Signal("operator")
    /\ cpc' = "final"
    /\ UNCHANGED <<mainVars, monitorVars, threadVars, connVars, procVars, envVars>>

\* End of file or a reset connection: leaves the loop; the signal follows it.
ControllerLost ==
    /\ proc = "up" /\ cpc = "recv"
    /\ cpc' = "final"
    /\ UNCHANGED <<wakeVars, mainVars, monitorVars, threadVars, connVars, procVars,
                   envVars>>

\* After the loop: shutdown() once more.
ControllerFinal ==
    /\ ControllerAt("final")
    /\ Signal("controllerLost")
    /\ cpc' = "exited"
    /\ UNCHANGED <<mainVars, monitorVars, threadVars, connVars, procVars, envVars>>

\* main never joins the controller thread: its next call finds no Monitor.
ControllerUsesDeletedMonitor ==
    /\ proc = "up" /\ cpc \in {"sendReady", "recv", "final"} /\ ~monitorAlive
    /\ Abort("deletedMonitor")
    /\ UNCHANGED <<wakeVars, mainVars, monitorVars, cpc, threadVars, connVars, envVars>>

\* 's' or 'q' on stdin ends the stdin thread; anything else is asked again.
StdinStop ==
    /\ proc = "up" /\ cpc = "reading"
    /\ quiesceFlag' \in BOOLEAN
    /\ Signal("operator")
    /\ cpc' = "exited"
    /\ UNCHANGED <<mainVars, numRunning, decremented, processcasErrors, monitorAlive,
                   threadVars, connVars, procVars, envVars>>

\* SIGINT, SIGTERM: signal_handler calls shutdown() through the same pointer.
SignalDelivered ==
    /\ proc = "up" /\ monitorAlive
    /\ signals < MaxSignals
    /\ signals' = signals + 1
    /\ Signal("operator")
    /\ UNCHANGED <<mainVars, monitorVars, cpc, threadVars, connVars, procVars, requests,
                   breaks>>

SignalFindsNoMonitor ==
    /\ proc = "up" /\ ~monitorAlive
    /\ signals < MaxSignals
    /\ Abort("deletedMonitor")
    /\ UNCHANGED <<wakeVars, mainVars, monitorVars, cpc, threadVars, connVars, envVars>>

\* The connection fails; the library reports it by onException() some time later.
ConnectionBreaks(l) ==
    /\ proc = "up" /\ ~cleanedUp
    /\ breaks < MaxBreaks
    /\ handles[l] # "none" /\ ~broken[l]
    /\ broken' = [broken EXCEPT ![l] = TRUE]
    /\ breaks' = breaks + 1
    /\ UNCHANGED <<wakeVars, mainVars, monitorVars, cpc, threadVars, handles, valid,
                   reconnecting, procVars, requests, signals>>

OnException(l) ==
    /\ proc = "up" /\ ~cleanedUp
    /\ broken[l] /\ valid[l]
    /\ valid' = [valid EXCEPT ![l] = FALSE]
    /\ UNCHANGED <<wakeVars, mainVars, monitorVars, cpc, threadVars, handles, broken,
                   reconnecting, procVars, envVars>>

-----------------------------------------------------------------------------
MainStep ==
    \/ StartThread \/ StartConnection \/ CreateWaker \/ EnterWait \/ StdinJoined
    \/ ChooseStop \/ StopConnection \/ ScanBusy \/ SetStopFlag \/ JoinOrSkip \/ Join
    \/ CleanupAfterStop \/ Unwind \/ NotifyController \/ TerminateService
    \/ DestroyService \/ Exit

ListenerStep(l) ==
    \/ EnterReceive(l) \/ TestStopFlag(l)
    \/ ReceiveMessage(l) \/ ReceiveNothing(l) \/ ReceiveThrows(l) \/ ReceiveOnNull(l)
    \/ BeginReconnect(l)
    \/ BecomeBusy(l) \/ HandleSucceeds(l) \/ ProcessCasFails(l) \/ CpcFails(l)
    \/ GetMetaFails(l) \/ FinishRequest(l)
    \/ ListenerFails(l) \/ DecrementRunning(l)

ReconnectStep(l) == Reconnected(l) \/ ReconnectDone(l) \/ ReconnectFails(l)

ControllerStep ==
    \/ SendReady \/ SendReadyFails \/ CommandReset \/ CommandQuiesceAndStop
    \/ CommandShutdown \/ ControllerLost \/ ControllerFinal
    \/ ControllerUsesDeletedMonitor \/ StdinStop

EnvironmentStep ==
    \/ SpuriousWakeup \/ SignalDelivered \/ SignalFindsNoMonitor
    \/ \E l \in Listeners : ConnectionBreaks(l) \/ OnException(l)

Next ==
    \/ MainStep \/ ControllerStep \/ EnvironmentStep
    \/ \E l \in Listeners : ListenerStep(l) \/ ReconnectStep(l) \/ TouchFreedListener(l)

Spec == Init /\ [][Next]_vars

\* The scheduler runs main and every listener thread; process() and the broker client
\* return from a call.  Nothing makes the broker come back, a peer send a command, or
\* a callback arrive: reconnection, the controller and the environment are not fair.
Fairness ==
    /\ WF_vars(MainStep)
    /\ \A l \in Listeners : WF_vars(ListenerStep(l))
    /\ WF_vars(ControllerFinal)

FairSpec == Spec /\ Fairness

-----------------------------------------------------------------------------
(* Properties.                                                             *)

TypeOK ==
    /\ mainPc \in MainPcs
    /\ mainIdx \in 0 .. NumInstances
    /\ quiescing \in BOOLEAN
    /\ skipped \subseteq Listeners
    /\ quiesceFlag \in BOOLEAN
    /\ numRunning \in Int
    /\ decremented \subseteq Listeners
    /\ processcasErrors \in Nat
    /\ stopCauses \subseteq Causes
    /\ monitorAlive \in BOOLEAN
    /\ lpc \in [Listeners -> ListenerPcs]
    /\ stopFlag \in [Listeners -> BOOLEAN]
    /\ busy \in [Listeners -> BOOLEAN]
    /\ stopLost \subseteq Listeners
    /\ handles \in [Listeners -> {"none", "connected", "consuming"}]
    /\ broken \in [Listeners -> BOOLEAN]
    /\ valid \in [Listeners -> BOOLEAN]
    /\ reconnecting \in [Listeners -> BOOLEAN]
    /\ cpc \in {"none", "sendReady", "recv", "final", "reading", "exited"}
    /\ proc \in {"up", "exited", "aborted"}
    /\ abortCause \in AbortCauses
    /\ closed \in BOOLEAN /\ cleanedUp \in BOOLEAN /\ doneSent \in BOOLEAN
    /\ requests \in Nat /\ breaks \in Nat /\ signals \in Nat

\* Main is past the joins of shutdown() or quiesceAndStop().
StopDone == mainPc \in {"cleanup", "notify", "terminate", "destroy"}

\* When main is past the joins, every listener thread has ended, except those that
\* shutdown() found reconnecting; quiesceAndStop() leaves none running.
OrderlyStop ==
    StopDone => /\ \A l \in Listeners : lpc[l] = "exited" \/ l \in skipped
                /\ quiescing => skipped = {}

\* No request is in the hands of a listener when cleanup() deletes the engines, the
\* CASes and the listeners and DONE is sent: not even of one that was not joined,
\* unless its thread, late to enter the loop, overwrote the stop request.
NoRequestAbandoned ==
    StopDone => \A l \in Listeners \ stopLost : lpc[l] \notin {"received", "handle", "finish"}

\* Monitor::listenerStopped() asks for a shutdown on behalf of the last annotator
\* thread only if all the others have given up, for all that it reads iv_numRunning
\* without the lock.
NoPrematureShutdown ==
    "lastStopped" \in stopCauses =>
        \A l \in Annotators : lpc[l] \in {"decrement", "exited"}

\* As long as no connection breaks, the only object used after its deletion is the
\* Monitor: no NULL handle is used, no listener outlives the service.
NoCrashWithoutBreak ==
    breaks = 0 => abortCause \in {"none", "deletedMonitor"}

\* What incrementErrorCount() prints before it calls shutdown(): "Terminating the
\* service."
TerminationHeeded == "errors" \in stopCauses ~> proc # "up"

\* The stop flag is a "flag to break out of receive loop": the listener whose flag main
\* has set leaves the loop, unless it is waiting for the broker.
StopRequestObeyed ==
    \A l \in Listeners :
        (mainPc = "joining" /\ mainIdx = l)
            ~> (lpc[l] \in {"exited", "reconnect", "resume"} \/ proc # "up")

\* A failed attempt to reconnect is followed by another one: no listener reads from a
\* connection without handles as if it were valid.
FailedReconnectRetried ==
    \A l \in Listeners : lpc[l] = "receive" /\ handles[l] = "none" => ~valid[l]

\* Once main sets stop flags the process ends, unless a listener is left waiting for the
\* broker in reconnect() or a thread overwrote the stop request when it entered its loop.
StopCompletes ==
    mainPc = "setStop"
        ~> \/ proc # "up"
           \/ stopLost # {}
           \/ \E l \in Listeners : lpc[l] \in {"reconnect", "resume"}

-----------------------------------------------------------------------------
(* The inductive invariants behind the safety properties, proved in        *)
(* ServiceLifecycle_proofs.                                                *)

InJoins == mainPc \in {"setStop", "joinOrSkip", "joining"}

\* main has joined, or skipped, the listeners below the index of its loop; it skips
\* only in shutdown().
JoinInv ==
    /\ InJoins =>
         \A l \in Listeners : l < mainIdx => lpc[l] = "exited" \/ l \in skipped
    /\ mainPc = "joinOrSkip" => ~quiescing
    /\ quiescing => skipped = {}
    /\ skipped # {} => InJoins \/ StopDone \/ mainPc = "exit"
    /\ OrderlyStop

\* A listener marked as reconnecting is inside receive(), or holds no handle at all.
ReconnectInv ==
    \A l \in Listeners : reconnecting[l] =>
        /\ lpc[l] \in {"reconnect", "resume", "loop", "receive", "exited"}
        /\ lpc[l] \in {"loop", "receive", "exited"} => handles[l] = "none"

\* A skipped listener cannot get at another request: it has no consumer, and when it
\* has one again it finds its stop flag set.
SkipInv ==
    /\ mainPc \in {"joinOrSkip", "joining"} => stopFlag[mainIdx] \/ mainIdx \in stopLost
    /\ \A l \in skipped \ stopLost :
         /\ stopFlag[l]
         /\ lpc[l] \in {"loop", "receive", "reconnect", "resume", "exited"}
         /\ lpc[l] = "receive" => handles[l] = "none"

\* Threads are started in the order of the ids, each once.
StartInv ==
    mainPc = "startThreads" => \A l \in Listeners : l >= mainIdx => lpc[l] = "created"

\* iv_numRunning counts the annotators that have not decremented it; those have exited.
CountInv ==
    /\ decremented \subseteq Annotators
    /\ numRunning = NumInstances - Cardinality(decremented)
    /\ \A l \in decremented : lpc[l] = "exited"
    /\ \A l \in Listeners : lpc[l] = "decrement" => l \in Annotators
    /\ NoPrematureShutdown

\* Without a broken connection every call on one succeeds and cleanup() runs only when
\* every thread has ended.
BreakInv ==
    breaks = 0 =>
        /\ \A l \in Listeners :
              /\ handles[l] = "consuming" /\ valid[l] /\ ~broken[l] /\ ~reconnecting[l]
              /\ lpc[l] \notin {"reconnect", "resume", "failed", "decrement"}
        /\ skipped = {}
        /\ mainPc # "unwind"
        /\ StopDone \/ mainPc = "exit" => \A l \in Listeners : lpc[l] = "exited"
        /\ cleanedUp => mainPc \in {"notify", "terminate", "destroy", "exit"}
        /\ mainPc \in {"notify", "terminate", "destroy"} => closed
        /\ abortCause \in {"none", "deletedMonitor"}
=============================================================================
