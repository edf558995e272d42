----------------------- MODULE ServiceLifecycle_proofs -----------------------
(***************************************************************************)
(* Proofs of the safety properties of ServiceLifecycle, for every number   *)
(* of instances and every bound on the environment.                        *)
(*                                                                         *)
(* Each named part of the inductive invariant has a lemma saying that a    *)
(* step keeps it, given the parts it rests on; the theorems at the end put *)
(* the parts together.  Liveness is left to TLC.                           *)
(***************************************************************************)
EXTENDS ServiceLifecycle, FiniteSetTheorems, TLAPS

\* Every step of main, of a listener, of the controller and of the environment keeps
\* the variables in their types.
LEMMA TypeStep ==
    TypeOK /\ [Next]_vars => TypeOK'
<1> SUFFICES ASSUME TypeOK, [Next]_vars
             PROVE  TypeOK'
  OBVIOUS
<1> USE ParametersAssumption DEF TypeOK, Listeners, vars, mainVars, monitorVars, wakeVars,
    threadVars, flagVars, connVars, procVars, envVars
<1>1. CASE UNCHANGED vars
  BY <1>1
<1>2. CASE StartThread
  BY <1>2 DEF StartThread, MainAt, ListenerTo, MainPcs, ListenerPcs
<1>3. CASE StartConnection
  BY <1>3 DEF StartConnection, MainAt, MainPcs
<1>4. CASE CreateWaker
  BY <1>4 DEF CreateWaker, MainAt, MainPcs
<1>5. CASE EnterWait
  BY <1>5 DEF EnterWait, MainAt, MainPcs
<1>6. CASE StdinJoined
  BY <1>6 DEF StdinJoined, MainAt, MainPcs
<1>7. CASE ChooseStop
  BY <1>7 DEF ChooseStop, MainAt, MainPcs
<1>8. CASE StopConnection
  BY <1>8 DEF StopConnection, MainAt, MainPcs
<1>9. CASE ScanBusy
  BY <1>9 DEF ScanBusy, MainAt, MainPcs
<1>10. CASE SetStopFlag
  BY <1>10 DEF SetStopFlag, MainAt, MainPcs
<1>11. CASE JoinOrSkip
  <2>1. skipped' \subseteq Listeners
    BY <1>11 DEF JoinOrSkip
  <2>2. mainIdx' \in 0 .. NumInstances /\ mainPc' \in MainPcs
    BY <1>11 DEF JoinOrSkip, MainAt, NextListener, MainPcs
  <2>3. QED
    BY <1>11, <2>1, <2>2 DEF JoinOrSkip
<1>12. CASE Join
  BY <1>12 DEF Join, MainAt, NextListener, MainPcs
<1>13. CASE CleanupAfterStop
  <2>1. mainPc' \in MainPcs /\ abortCause' \in AbortCauses
    BY <1>13 DEF CleanupAfterStop, Cleanup, Abort, MainPcs, AbortCauses
  <2>2. closed' \in BOOLEAN /\ cleanedUp' \in BOOLEAN
    BY <1>13 DEF CleanupAfterStop, Cleanup, Abort
  <2>3. proc' \in {"up", "exited", "aborted"} /\ doneSent' \in BOOLEAN
    BY <1>13 DEF CleanupAfterStop, Cleanup, Abort
  <2>4. QED
    BY <1>13, <2>1, <2>2, <2>3 DEF CleanupAfterStop
<1>14. CASE Unwind
  <2>1. mainPc' \in MainPcs /\ abortCause' \in AbortCauses
    BY <1>14 DEF Unwind, Cleanup, Abort, MainPcs, AbortCauses
  <2>2. closed' \in BOOLEAN /\ cleanedUp' \in BOOLEAN
    BY <1>14 DEF Unwind, Cleanup, Abort
  <2>3. proc' \in {"up", "exited", "aborted"} /\ doneSent' \in BOOLEAN
    BY <1>14 DEF Unwind, Cleanup, Abort
  <2>4. QED
    BY <1>14, <2>1, <2>2, <2>3 DEF Unwind
<1>15. CASE NotifyController
  BY <1>15 DEF NotifyController, MainAt, MainPcs
<1>16. CASE TerminateService
  BY <1>16 DEF TerminateService, MainAt, MainPcs
<1>17. CASE DestroyService
  BY <1>17 DEF DestroyService, MainAt, Abort, MainPcs, AbortCauses
<1>18. CASE Exit
  BY <1>18 DEF Exit, MainAt, MainPcs
<1>19. CASE SendReady
  BY <1>19 DEF SendReady
<1>20. CASE SendReadyFails
  <2>1. mainPc' \in MainPcs /\ stopCauses' \subseteq Causes
    BY <1>20 DEF SendReadyFails, Signal, MainPcs, Causes
  <2>2. QED
    BY <1>20, <2>1 DEF SendReadyFails
<1>21. CASE CommandReset
  BY <1>21 DEF CommandReset, ControllerAt
<1>22. CASE CommandQuiesceAndStop
  <2>1. mainPc' \in MainPcs /\ stopCauses' \subseteq Causes
    BY <1>22 DEF CommandQuiesceAndStop, Signal, MainPcs, Causes
  <2>2. QED
    BY <1>22, <2>1 DEF CommandQuiesceAndStop
<1>23. CASE CommandShutdown
  <2>1. mainPc' \in MainPcs /\ stopCauses' \subseteq Causes
    BY <1>23 DEF CommandShutdown, Signal, MainPcs, Causes
  <2>2. QED
    BY <1>23, <2>1 DEF CommandShutdown
<1>24. CASE ControllerLost
  BY <1>24 DEF ControllerLost
<1>25. CASE ControllerFinal
  <2>1. mainPc' \in MainPcs /\ stopCauses' \subseteq Causes
    BY <1>25 DEF ControllerFinal, Signal, MainPcs, Causes
  <2>2. QED
    BY <1>25, <2>1 DEF ControllerFinal
<1>26. CASE ControllerUsesDeletedMonitor
  BY <1>26 DEF ControllerUsesDeletedMonitor, Abort, AbortCauses
<1>27. CASE StdinStop
  <2>1. mainPc' \in MainPcs /\ stopCauses' \subseteq Causes
    BY <1>27 DEF StdinStop, Signal, MainPcs, Causes
  <2>2. QED
    BY <1>27, <2>1 DEF StdinStop
<1>28. CASE SpuriousWakeup
  BY <1>28 DEF SpuriousWakeup, MainAt, MainPcs
<1>29. CASE SignalDelivered
  <2>1. mainPc' \in MainPcs /\ stopCauses' \subseteq Causes
    BY <1>29 DEF SignalDelivered, Signal, MainPcs, Causes
  <2>2. QED
    BY <1>29, <2>1 DEF SignalDelivered
<1>30. CASE SignalFindsNoMonitor
  BY <1>30 DEF SignalFindsNoMonitor, Abort, AbortCauses
<1>31. ASSUME NEW l \in Listeners, ConnectionBreaks(l) PROVE TypeOK'
  BY <1>31 DEF ConnectionBreaks
<1>32. ASSUME NEW l \in Listeners, OnException(l) PROVE TypeOK'
  BY <1>32 DEF OnException
<1>33. ASSUME NEW l \in Listeners,
              ListenerStep(l) \/ ReconnectStep(l) \/ TouchFreedListener(l)
       PROVE  TypeOK'
  <2>1. CASE EnterReceive(l)
    BY <2>1 DEF EnterReceive, ListenerAt, ListenerTo, ListenerPcs
  <2>2. CASE TestStopFlag(l)
    BY <2>2 DEF TestStopFlag, ListenerAt, ListenerTo, ListenerPcs
  <2>3. CASE ReceiveMessage(l)
    BY <2>3 DEF ReceiveMessage, ListenerAt, ListenerTo, ListenerPcs
  <2>4. CASE ReceiveNothing(l)
    BY <2>4 DEF ReceiveNothing, ListenerAt, ListenerTo, ListenerPcs
  <2>5. CASE ReceiveThrows(l)
    BY <2>5 DEF ReceiveThrows, ListenerAt, ListenerTo, ListenerPcs
  <2>6. CASE ReceiveOnNull(l)
    BY <2>6 DEF ReceiveOnNull, ListenerAt, Abort, AbortCauses
  <2>7. CASE BeginReconnect(l)
    BY <2>7 DEF BeginReconnect, ListenerAt, ListenerTo, ListenerPcs
  <2>8. CASE BecomeBusy(l)
    BY <2>8 DEF BecomeBusy, ListenerAt, ListenerTo, ListenerPcs
  <2>9. CASE HandleSucceeds(l)
    BY <2>9 DEF HandleSucceeds, ListenerAt, ListenerTo, ListenerPcs
  <2>10. CASE ProcessCasFails(l)
    <3>1. mainPc' \in MainPcs /\ stopCauses' \subseteq Causes
      BY <2>10 DEF ProcessCasFails, Signal, MainPcs, Causes
    <3>2. QED
      BY <2>10, <3>1 DEF ProcessCasFails, ListenerTo, ListenerPcs
  <2>11. CASE CpcFails(l)
    <3>1. mainPc' \in MainPcs /\ stopCauses' \subseteq Causes
      BY <2>11 DEF CpcFails, Signal, MainPcs, Causes
    <3>2. QED
      BY <2>11, <3>1 DEF CpcFails, ListenerTo, ListenerPcs
  <2>12. CASE GetMetaFails(l)
    <3>1. mainPc' \in MainPcs /\ stopCauses' \subseteq Causes
      BY <2>12 DEF GetMetaFails, Signal, MainPcs, Causes
    <3>2. QED
      BY <2>12, <3>1 DEF GetMetaFails, ListenerTo, ListenerPcs
  <2>13. CASE FinishRequest(l)
    BY <2>13 DEF FinishRequest, ListenerAt, ListenerTo, ListenerPcs
  <2>14. CASE ListenerFails(l)
    <3>1. mainPc' \in MainPcs /\ stopCauses' \subseteq Causes
      BY <2>14 DEF ListenerFails, Signal, MainPcs, Causes
    <3>2. lpc' \in [Listeners -> ListenerPcs]
      BY <2>14 DEF ListenerFails, ListenerTo, ListenerPcs
    <3>3. QED
      BY <2>14, <3>1, <3>2 DEF ListenerFails
  <2>15. CASE DecrementRunning(l)
    BY <2>15 DEF DecrementRunning, ListenerAt, ListenerTo, ListenerPcs
  <2>16. CASE Reconnected(l)
    BY <2>16 DEF Reconnected, ListenerAt, ListenerTo, ListenerPcs
  <2>17. CASE ReconnectDone(l)
    BY <2>17 DEF ReconnectDone, ListenerAt, ListenerTo, ListenerPcs
  <2>18. CASE ReconnectFails(l)
    BY <2>18 DEF ReconnectFails, ListenerAt, ListenerTo, ListenerPcs
  <2>19. CASE TouchFreedListener(l)
    BY <2>19 DEF TouchFreedListener, Abort, AbortCauses
  <2>20. QED
    BY <1>33, <2>1, <2>2, <2>3, <2>4, <2>5, <2>6, <2>7, <2>8, <2>9, <2>10, <2>11, <2>12,
        <2>13, <2>14, <2>15, <2>16, <2>17, <2>18, <2>19
       DEF ListenerStep, ReconnectStep
<1>34. QED
  BY <1>1, <1>2, <1>3, <1>4, <1>5, <1>6, <1>7, <1>8, <1>9, <1>10, <1>11, <1>12, <1>13,
      <1>14, <1>15, <1>16, <1>17, <1>18, <1>19, <1>20, <1>21, <1>22, <1>23, <1>24, <1>25,
      <1>26, <1>27, <1>28, <1>29, <1>30, <1>31, <1>32, <1>33
     DEF Next, MainStep, ControllerStep, EnvironmentStep

\* Every step keeps the progress of the joins of shutdown() and quiesceAndStop().
LEMMA JoinStep ==
    TypeOK /\ JoinInv /\ [Next]_vars => JoinInv'
<1> SUFFICES ASSUME TypeOK, JoinInv, [Next]_vars
             PROVE  JoinInv'
  OBVIOUS
<1> USE ParametersAssumption DEF TypeOK, JoinInv, InJoins, StopDone, OrderlyStop, Listeners,
    vars, mainVars, monitorVars, wakeVars, threadVars, flagVars, connVars, procVars, envVars
<1>1. CASE UNCHANGED vars
  BY <1>1
<1>2. CASE StartThread
  BY <1>2 DEF StartThread, MainAt, ListenerTo
<1>3. CASE StartConnection
  BY <1>3 DEF StartConnection, MainAt
<1>4. CASE CreateWaker
  BY <1>4 DEF CreateWaker, MainAt
<1>5. CASE EnterWait
  BY <1>5 DEF EnterWait, MainAt
<1>6. CASE StdinJoined
  BY <1>6 DEF StdinJoined, MainAt
<1>7. CASE ChooseStop
  BY <1>7 DEF ChooseStop, MainAt
<1>8. CASE StopConnection
  BY <1>8 DEF StopConnection, MainAt
<1>9. CASE ScanBusy
  BY <1>9 DEF ScanBusy, MainAt
<1>10. CASE SetStopFlag
  BY <1>10 DEF SetStopFlag, MainAt
<1>11. CASE JoinOrSkip
  BY <1>11 DEF JoinOrSkip, MainAt, NextListener
<1>12. CASE Join
  BY <1>12 DEF Join, MainAt, NextListener
<1>13. CASE CleanupAfterStop
  BY <1>13 DEF CleanupAfterStop, MainAt, Cleanup, Abort
<1>14. CASE Unwind
  BY <1>14 DEF Unwind, MainAt, Cleanup, Abort
<1>15. CASE NotifyController
  BY <1>15 DEF NotifyController, MainAt
<1>16. CASE TerminateService
  BY <1>16 DEF TerminateService, MainAt
<1>17. CASE DestroyService
  BY <1>17 DEF DestroyService, MainAt, Abort
<1>18. CASE Exit
  BY <1>18 DEF Exit, MainAt
<1>19. CASE SendReady
  BY <1>19 DEF SendReady
<1>20. CASE SendReadyFails
  BY <1>20 DEF SendReadyFails, ControllerAt, Signal
<1>21. CASE CommandReset
  BY <1>21 DEF CommandReset, ControllerAt
<1>22. CASE CommandQuiesceAndStop
  BY <1>22 DEF CommandQuiesceAndStop, ControllerAt, Signal
<1>23. CASE CommandShutdown
  BY <1>23 DEF CommandShutdown, ControllerAt, Signal
<1>24. CASE ControllerLost
  BY <1>24 DEF ControllerLost
<1>25. CASE ControllerFinal
  BY <1>25 DEF ControllerFinal, ControllerAt, Signal
<1>26. CASE ControllerUsesDeletedMonitor
  BY <1>26 DEF ControllerUsesDeletedMonitor, Abort
<1>27. CASE StdinStop
  BY <1>27 DEF StdinStop, Signal
<1>28. CASE SpuriousWakeup
  BY <1>28 DEF SpuriousWakeup, MainAt
<1>29. CASE SignalDelivered
  BY <1>29 DEF SignalDelivered, Signal
<1>30. CASE SignalFindsNoMonitor
  BY <1>30 DEF SignalFindsNoMonitor, Abort
<1>31. ASSUME NEW l \in Listeners, ConnectionBreaks(l) PROVE JoinInv'
  BY <1>31 DEF ConnectionBreaks
<1>32. ASSUME NEW l \in Listeners, OnException(l) PROVE JoinInv'
  BY <1>32 DEF OnException
<1>33. ASSUME NEW l \in Listeners,
              ListenerStep(l) \/ ReconnectStep(l) \/ TouchFreedListener(l)
       PROVE  JoinInv'
  <2>1. CASE EnterReceive(l)
    BY <2>1 DEF EnterReceive, ListenerAt, ListenerTo
  <2>2. CASE TestStopFlag(l)
    BY <2>2 DEF TestStopFlag, ListenerAt, ListenerTo
  <2>3. CASE ReceiveMessage(l)
    BY <2>3 DEF ReceiveMessage, ListenerAt, ListenerTo
  <2>4. CASE ReceiveNothing(l)
    BY <2>4 DEF ReceiveNothing, ListenerAt, ListenerTo
  <2>5. CASE ReceiveThrows(l)
    BY <2>5 DEF ReceiveThrows, ListenerAt, ListenerTo
  <2>6. CASE ReceiveOnNull(l)
    BY <2>6 DEF ReceiveOnNull, ListenerAt, Abort
  <2>7. CASE BeginReconnect(l)
    BY <2>7 DEF BeginReconnect, ListenerAt, ListenerTo
  <2>8. CASE BecomeBusy(l)
    BY <2>8 DEF BecomeBusy, ListenerAt, ListenerTo
  <2>9. CASE HandleSucceeds(l)
    BY <2>9 DEF HandleSucceeds, ListenerAt, ListenerTo
  <2>10. CASE ProcessCasFails(l)
    BY <2>10 DEF ProcessCasFails, ListenerAt, ListenerTo, Signal
  <2>11. CASE CpcFails(l)
    BY <2>11 DEF CpcFails, ListenerAt, ListenerTo, Signal
  <2>12. CASE GetMetaFails(l)
    BY <2>12 DEF GetMetaFails, ListenerAt, ListenerTo, Signal
  <2>13. CASE FinishRequest(l)
    BY <2>13 DEF FinishRequest, ListenerAt, ListenerTo
  <2>14. CASE ListenerFails(l)
    BY <2>14 DEF ListenerFails, ListenerAt, ListenerTo, Signal
  <2>15. CASE DecrementRunning(l)
    BY <2>15 DEF DecrementRunning, ListenerAt, ListenerTo
  <2>16. CASE Reconnected(l)
    BY <2>16 DEF Reconnected, ListenerAt, ListenerTo
  <2>17. CASE ReconnectDone(l)
    BY <2>17 DEF ReconnectDone, ListenerAt, ListenerTo
  <2>18. CASE ReconnectFails(l)
    BY <2>18 DEF ReconnectFails, ListenerAt, ListenerTo
  <2>19. CASE TouchFreedListener(l)
    BY <2>19 DEF TouchFreedListener, Abort
  <2>20. QED
    BY <1>33, <2>1, <2>2, <2>3, <2>4, <2>5, <2>6, <2>7, <2>8, <2>9, <2>10, <2>11, <2>12,
        <2>13, <2>14, <2>15, <2>16, <2>17, <2>18, <2>19
       DEF ListenerStep, ReconnectStep
<1>34. QED
  BY <1>1, <1>2, <1>3, <1>4, <1>5, <1>6, <1>7, <1>8, <1>9, <1>10, <1>11, <1>12, <1>13,
      <1>14, <1>15, <1>16, <1>17, <1>18, <1>19, <1>20, <1>21, <1>22, <1>23, <1>24, <1>25,
      <1>26, <1>27, <1>28, <1>29, <1>30, <1>31, <1>32, <1>33
     DEF Next, MainStep, ControllerStep, EnvironmentStep

\* Every step of receive() and reconnect() keeps a listener that is marked as
\* reconnecting inside receive() or without handles.
LEMMA ReconnectingStep ==
    TypeOK /\ StartInv /\ ReconnectInv /\ [Next]_vars => ReconnectInv'
<1> SUFFICES ASSUME TypeOK, StartInv, ReconnectInv, [Next]_vars
             PROVE  ReconnectInv'
  OBVIOUS
<1> USE ParametersAssumption DEF TypeOK, StartInv, ReconnectInv, Listeners, vars, mainVars,
    monitorVars, wakeVars, threadVars, flagVars, connVars, procVars, envVars
<1>1. CASE UNCHANGED vars
  BY <1>1
<1>2. CASE StartThread
  BY <1>2 DEF StartThread, MainAt, ListenerTo
<1>3. CASE StartConnection
  BY <1>3 DEF StartConnection, MainAt
<1>4. CASE CreateWaker
  BY <1>4 DEF CreateWaker, MainAt
<1>5. CASE EnterWait
  BY <1>5 DEF EnterWait, MainAt
<1>6. CASE StdinJoined
  BY <1>6 DEF StdinJoined, MainAt
<1>7. CASE ChooseStop
  BY <1>7 DEF ChooseStop, MainAt
<1>8. CASE StopConnection
  BY <1>8 DEF StopConnection, MainAt
<1>9. CASE ScanBusy
  BY <1>9 DEF ScanBusy, MainAt
<1>10. CASE SetStopFlag
  BY <1>10 DEF SetStopFlag, MainAt
<1>11. CASE JoinOrSkip
  BY <1>11 DEF JoinOrSkip, MainAt, NextListener
<1>12. CASE Join
  BY <1>12 DEF Join, MainAt, NextListener
<1>13. CASE CleanupAfterStop
  BY <1>13 DEF CleanupAfterStop, MainAt, Cleanup, Abort
<1>14. CASE Unwind
  BY <1>14 DEF Unwind, MainAt, Cleanup, Abort
<1>15. CASE NotifyController
  BY <1>15 DEF NotifyController, MainAt
<1>16. CASE TerminateService
  BY <1>16 DEF TerminateService, MainAt
<1>17. CASE DestroyService
  BY <1>17 DEF DestroyService, MainAt, Abort
<1>18. CASE Exit
  BY <1>18 DEF Exit, MainAt
<1>19. CASE SendReady
  BY <1>19 DEF SendReady
<1>20. CASE SendReadyFails
  BY <1>20 DEF SendReadyFails, ControllerAt, Signal
<1>21. CASE CommandReset
  BY <1>21 DEF CommandReset, ControllerAt
<1>22. CASE CommandQuiesceAndStop
  BY <1>22 DEF CommandQuiesceAndStop, ControllerAt, Signal
<1>23. CASE CommandShutdown
  BY <1>23 DEF CommandShutdown, ControllerAt, Signal
<1>24. CASE ControllerLost
  BY <1>24 DEF ControllerLost
<1>25. CASE ControllerFinal
  BY <1>25 DEF ControllerFinal, ControllerAt, Signal
<1>26. CASE ControllerUsesDeletedMonitor
  BY <1>26 DEF ControllerUsesDeletedMonitor, Abort
<1>27. CASE StdinStop
  BY <1>27 DEF StdinStop, Signal
<1>28. CASE SpuriousWakeup
  BY <1>28 DEF SpuriousWakeup, MainAt
<1>29. CASE SignalDelivered
  BY <1>29 DEF SignalDelivered, Signal
<1>30. CASE SignalFindsNoMonitor
  BY <1>30 DEF SignalFindsNoMonitor, Abort
<1>31. ASSUME NEW l \in Listeners, ConnectionBreaks(l) PROVE ReconnectInv'
  BY <1>31 DEF ConnectionBreaks
<1>32. ASSUME NEW l \in Listeners, OnException(l) PROVE ReconnectInv'
  BY <1>32 DEF OnException
<1>33. ASSUME NEW l \in Listeners,
              ListenerStep(l) \/ ReconnectStep(l) \/ TouchFreedListener(l)
       PROVE  ReconnectInv'
  <2>1. CASE EnterReceive(l)
    BY <2>1 DEF EnterReceive, ListenerAt, ListenerTo
  <2>2. CASE TestStopFlag(l)
    BY <2>2 DEF TestStopFlag, ListenerAt, ListenerTo
  <2>3. CASE ReceiveMessage(l)
    BY <2>3 DEF ReceiveMessage, ListenerAt, ListenerTo
  <2>4. CASE ReceiveNothing(l)
    BY <2>4 DEF ReceiveNothing, ListenerAt, ListenerTo
  <2>5. CASE ReceiveThrows(l)
    BY <2>5 DEF ReceiveThrows, ListenerAt, ListenerTo
  <2>6. CASE ReceiveOnNull(l)
    BY <2>6 DEF ReceiveOnNull, ListenerAt, Abort
  <2>7. CASE BeginReconnect(l)
    BY <2>7 DEF BeginReconnect, ListenerAt, ListenerTo
  <2>8. CASE BecomeBusy(l)
    BY <2>8 DEF BecomeBusy, ListenerAt, ListenerTo
  <2>9. CASE HandleSucceeds(l)
    BY <2>9 DEF HandleSucceeds, ListenerAt, ListenerTo
  <2>10. CASE ProcessCasFails(l)
    BY <2>10 DEF ProcessCasFails, ListenerAt, ListenerTo, Signal
  <2>11. CASE CpcFails(l)
    BY <2>11 DEF CpcFails, ListenerAt, ListenerTo, Signal
  <2>12. CASE GetMetaFails(l)
    BY <2>12 DEF GetMetaFails, ListenerAt, ListenerTo, Signal
  <2>13. CASE FinishRequest(l)
    BY <2>13 DEF FinishRequest, ListenerAt, ListenerTo
  <2>14. CASE ListenerFails(l)
    BY <2>14 DEF ListenerFails, ListenerAt, ListenerTo, Signal
  <2>15. CASE DecrementRunning(l)
    BY <2>15 DEF DecrementRunning, ListenerAt, ListenerTo
  <2>16. CASE Reconnected(l)
    BY <2>16 DEF Reconnected, ListenerAt, ListenerTo
  <2>17. CASE ReconnectDone(l)
    BY <2>17 DEF ReconnectDone, ListenerAt, ListenerTo
  <2>18. CASE ReconnectFails(l)
    BY <2>18 DEF ReconnectFails, ListenerAt, ListenerTo
  <2>19. CASE TouchFreedListener(l)
    BY <2>19 DEF TouchFreedListener, Abort
  <2>20. QED
    BY <1>33, <2>1, <2>2, <2>3, <2>4, <2>5, <2>6, <2>7, <2>8, <2>9, <2>10, <2>11, <2>12,
        <2>13, <2>14, <2>15, <2>16, <2>17, <2>18, <2>19
       DEF ListenerStep, ReconnectStep
<1>34. QED
  BY <1>1, <1>2, <1>3, <1>4, <1>5, <1>6, <1>7, <1>8, <1>9, <1>10, <1>11, <1>12, <1>13,
      <1>14, <1>15, <1>16, <1>17, <1>18, <1>19, <1>20, <1>21, <1>22, <1>23, <1>24, <1>25,
      <1>26, <1>27, <1>28, <1>29, <1>30, <1>31, <1>32, <1>33
     DEF Next, MainStep, ControllerStep, EnvironmentStep

\* Every step keeps a listener that shutdown() did not join away from requests.
LEMMA SkipStep ==
    TypeOK /\ JoinInv /\ ReconnectInv /\ SkipInv /\ [Next]_vars => SkipInv'
<1> SUFFICES ASSUME TypeOK, JoinInv, ReconnectInv, SkipInv, [Next]_vars
             PROVE  SkipInv'
  OBVIOUS
<1> USE ParametersAssumption DEF TypeOK, ReconnectInv, SkipInv, Listeners, vars, mainVars,
    monitorVars, wakeVars, threadVars, flagVars, connVars, procVars, envVars
<1>1. CASE UNCHANGED vars
  BY <1>1
<1>2. CASE StartThread
  <2>1. skipped = {}
    BY <1>2 DEF StartThread, MainAt, JoinInv, InJoins, StopDone
  <2>2. QED
    BY <1>2, <2>1 DEF StartThread, MainAt
<1>3. CASE StartConnection
  BY <1>3 DEF StartConnection, MainAt
<1>4. CASE CreateWaker
  BY <1>4 DEF CreateWaker, MainAt
<1>5. CASE EnterWait
  BY <1>5 DEF EnterWait, MainAt
<1>6. CASE StdinJoined
  BY <1>6 DEF StdinJoined, MainAt
<1>7. CASE ChooseStop
  BY <1>7 DEF ChooseStop, MainAt
<1>8. CASE StopConnection
  BY <1>8 DEF StopConnection, MainAt
<1>9. CASE ScanBusy
  BY <1>9 DEF ScanBusy, MainAt
<1>10. CASE SetStopFlag
  BY <1>10 DEF SetStopFlag, MainAt
<1>11. CASE JoinOrSkip
  <2>1. mainPc' \notin {"joinOrSkip", "joining"} \/ (mainIdx' = mainIdx /\ skipped' = skipped)
    BY <1>11 DEF JoinOrSkip, MainAt, NextListener
  <2>2. ASSUME NEW l \in skipped' \ skipped PROVE l = mainIdx /\ reconnecting[l]
    BY <2>2, <1>11 DEF JoinOrSkip
  <2>3. QED
    BY <1>11, <2>1, <2>2 DEF JoinOrSkip, MainAt
<1>12. CASE Join
  BY <1>12 DEF Join, MainAt, NextListener
<1>13. CASE CleanupAfterStop
  BY <1>13 DEF CleanupAfterStop, MainAt, Cleanup, Abort
<1>14. CASE Unwind
  BY <1>14 DEF Unwind, MainAt, Cleanup, Abort
<1>15. CASE NotifyController
  BY <1>15 DEF NotifyController, MainAt
<1>16. CASE TerminateService
  BY <1>16 DEF TerminateService, MainAt
<1>17. CASE DestroyService
  BY <1>17 DEF DestroyService, MainAt, Abort
<1>18. CASE Exit
  BY <1>18 DEF Exit, MainAt
<1>19. CASE SendReady
  BY <1>19 DEF SendReady
<1>20. CASE SendReadyFails
  BY <1>20 DEF SendReadyFails, ControllerAt, Signal
<1>21. CASE CommandReset
  BY <1>21 DEF CommandReset, ControllerAt
<1>22. CASE CommandQuiesceAndStop
  BY <1>22 DEF CommandQuiesceAndStop, ControllerAt, Signal
<1>23. CASE CommandShutdown
  BY <1>23 DEF CommandShutdown, ControllerAt, Signal
<1>24. CASE ControllerLost
  BY <1>24 DEF ControllerLost
<1>25. CASE ControllerFinal
  BY <1>25 DEF ControllerFinal, ControllerAt, Signal
<1>26. CASE ControllerUsesDeletedMonitor
  BY <1>26 DEF ControllerUsesDeletedMonitor, Abort
<1>27. CASE StdinStop
  BY <1>27 DEF StdinStop, Signal
<1>28. CASE SpuriousWakeup
  BY <1>28 DEF SpuriousWakeup, MainAt
<1>29. CASE SignalDelivered
  BY <1>29 DEF SignalDelivered, Signal
<1>30. CASE SignalFindsNoMonitor
  BY <1>30 DEF SignalFindsNoMonitor, Abort
<1>31. ASSUME NEW l \in Listeners, ConnectionBreaks(l) PROVE SkipInv'
  BY <1>31 DEF ConnectionBreaks
<1>32. ASSUME NEW l \in Listeners, OnException(l) PROVE SkipInv'
  BY <1>32 DEF OnException
<1>33. ASSUME NEW l \in Listeners,
              ListenerStep(l) \/ ReconnectStep(l) \/ TouchFreedListener(l)
       PROVE  SkipInv'
  <2>1. CASE EnterReceive(l)
    BY <2>1 DEF EnterReceive, ListenerAt, ListenerTo
  <2>2. CASE TestStopFlag(l)
    BY <2>2 DEF TestStopFlag, ListenerAt, ListenerTo
  <2>3. CASE ReceiveMessage(l)
    BY <2>3 DEF ReceiveMessage, ListenerAt, ListenerTo
  <2>4. CASE ReceiveNothing(l)
    BY <2>4 DEF ReceiveNothing, ListenerAt, ListenerTo
  <2>5. CASE ReceiveThrows(l)
    BY <2>5 DEF ReceiveThrows, ListenerAt, ListenerTo
  <2>6. CASE ReceiveOnNull(l)
    BY <2>6 DEF ReceiveOnNull, ListenerAt, Abort
  <2>7. CASE BeginReconnect(l)
    BY <2>7 DEF BeginReconnect, ListenerAt, ListenerTo
  <2>8. CASE BecomeBusy(l)
    BY <2>8 DEF BecomeBusy, ListenerAt, ListenerTo
  <2>9. CASE HandleSucceeds(l)
    BY <2>9 DEF HandleSucceeds, ListenerAt, ListenerTo
  <2>10. CASE ProcessCasFails(l)
    BY <2>10 DEF ProcessCasFails, ListenerAt, ListenerTo, Signal
  <2>11. CASE CpcFails(l)
    BY <2>11 DEF CpcFails, ListenerAt, ListenerTo, Signal
  <2>12. CASE GetMetaFails(l)
    BY <2>12 DEF GetMetaFails, ListenerAt, ListenerTo, Signal
  <2>13. CASE FinishRequest(l)
    BY <2>13 DEF FinishRequest, ListenerAt, ListenerTo
  <2>14. CASE ListenerFails(l)
    BY <2>14 DEF ListenerFails, ListenerAt, ListenerTo, Signal
  <2>15. CASE DecrementRunning(l)
    BY <2>15 DEF DecrementRunning, ListenerAt, ListenerTo
  <2>16. CASE Reconnected(l)
    BY <2>16 DEF Reconnected, ListenerAt, ListenerTo
  <2>17. CASE ReconnectDone(l)
    BY <2>17 DEF ReconnectDone, ListenerAt, ListenerTo
  <2>18. CASE ReconnectFails(l)
    BY <2>18 DEF ReconnectFails, ListenerAt, ListenerTo
  <2>19. CASE TouchFreedListener(l)
    BY <2>19 DEF TouchFreedListener, Abort
  <2>20. QED
    BY <1>33, <2>1, <2>2, <2>3, <2>4, <2>5, <2>6, <2>7, <2>8, <2>9, <2>10, <2>11, <2>12,
        <2>13, <2>14, <2>15, <2>16, <2>17, <2>18, <2>19
       DEF ListenerStep, ReconnectStep
<1>34. QED
  BY <1>1, <1>2, <1>3, <1>4, <1>5, <1>6, <1>7, <1>8, <1>9, <1>10, <1>11, <1>12, <1>13,
      <1>14, <1>15, <1>16, <1>17, <1>18, <1>19, <1>20, <1>21, <1>22, <1>23, <1>24, <1>25,
      <1>26, <1>27, <1>28, <1>29, <1>30, <1>31, <1>32, <1>33
     DEF Next, MainStep, ControllerStep, EnvironmentStep

\* startProcessingThreads() creates the threads in the order of the ids.
LEMMA StartStep ==
    TypeOK /\ StartInv /\ [Next]_vars => StartInv'
<1> SUFFICES ASSUME TypeOK, StartInv, [Next]_vars
             PROVE  StartInv'
  OBVIOUS
<1> USE ParametersAssumption DEF TypeOK, StartInv, Listeners, vars, mainVars, monitorVars,
    wakeVars, threadVars, flagVars, connVars, procVars, envVars
<1>1. CASE UNCHANGED vars
  BY <1>1
<1>2. CASE StartThread
  BY <1>2 DEF StartThread, MainAt, ListenerTo
<1>3. CASE StartConnection
  BY <1>3 DEF StartConnection, MainAt
<1>4. CASE CreateWaker
  BY <1>4 DEF CreateWaker, MainAt
<1>5. CASE EnterWait
  BY <1>5 DEF EnterWait, MainAt
<1>6. CASE StdinJoined
  BY <1>6 DEF StdinJoined, MainAt
<1>7. CASE ChooseStop
  BY <1>7 DEF ChooseStop, MainAt
<1>8. CASE StopConnection
  BY <1>8 DEF StopConnection, MainAt
<1>9. CASE ScanBusy
  BY <1>9 DEF ScanBusy, MainAt
<1>10. CASE SetStopFlag
  BY <1>10 DEF SetStopFlag, MainAt
<1>11. CASE JoinOrSkip
  BY <1>11 DEF JoinOrSkip, MainAt, NextListener
<1>12. CASE Join
  BY <1>12 DEF Join, MainAt, NextListener
<1>13. CASE CleanupAfterStop
  BY <1>13 DEF CleanupAfterStop, MainAt, Cleanup, Abort
<1>14. CASE Unwind
  BY <1>14 DEF Unwind, MainAt, Cleanup, Abort
<1>15. CASE NotifyController
  BY <1>15 DEF NotifyController, MainAt
<1>16. CASE TerminateService
  BY <1>16 DEF TerminateService, MainAt
<1>17. CASE DestroyService
  BY <1>17 DEF DestroyService, MainAt, Abort
<1>18. CASE Exit
  BY <1>18 DEF Exit, MainAt
<1>19. CASE SendReady
  BY <1>19 DEF SendReady
<1>20. CASE SendReadyFails
  BY <1>20 DEF SendReadyFails, ControllerAt, Signal
<1>21. CASE CommandReset
  BY <1>21 DEF CommandReset, ControllerAt
<1>22. CASE CommandQuiesceAndStop
  BY <1>22 DEF CommandQuiesceAndStop, ControllerAt, Signal
<1>23. CASE CommandShutdown
  BY <1>23 DEF CommandShutdown, ControllerAt, Signal
<1>24. CASE ControllerLost
  BY <1>24 DEF ControllerLost
<1>25. CASE ControllerFinal
  BY <1>25 DEF ControllerFinal, ControllerAt, Signal
<1>26. CASE ControllerUsesDeletedMonitor
  BY <1>26 DEF ControllerUsesDeletedMonitor, Abort
<1>27. CASE StdinStop
  BY <1>27 DEF StdinStop, Signal
<1>28. CASE SpuriousWakeup
  BY <1>28 DEF SpuriousWakeup, MainAt
<1>29. CASE SignalDelivered
  BY <1>29 DEF SignalDelivered, Signal
<1>30. CASE SignalFindsNoMonitor
  BY <1>30 DEF SignalFindsNoMonitor, Abort
<1>31. ASSUME NEW l \in Listeners, ConnectionBreaks(l) PROVE StartInv'
  BY <1>31 DEF ConnectionBreaks
<1>32. ASSUME NEW l \in Listeners, OnException(l) PROVE StartInv'
  BY <1>32 DEF OnException
<1>33. ASSUME NEW l \in Listeners,
              ListenerStep(l) \/ ReconnectStep(l) \/ TouchFreedListener(l)
       PROVE  StartInv'
  <2>1. CASE EnterReceive(l)
    BY <2>1 DEF EnterReceive, ListenerAt, ListenerTo
  <2>2. CASE TestStopFlag(l)
    BY <2>2 DEF TestStopFlag, ListenerAt, ListenerTo
  <2>3. CASE ReceiveMessage(l)
    BY <2>3 DEF ReceiveMessage, ListenerAt, ListenerTo
  <2>4. CASE ReceiveNothing(l)
    BY <2>4 DEF ReceiveNothing, ListenerAt, ListenerTo
  <2>5. CASE ReceiveThrows(l)
    BY <2>5 DEF ReceiveThrows, ListenerAt, ListenerTo
  <2>6. CASE ReceiveOnNull(l)
    BY <2>6 DEF ReceiveOnNull, ListenerAt, Abort
  <2>7. CASE BeginReconnect(l)
    BY <2>7 DEF BeginReconnect, ListenerAt, ListenerTo
  <2>8. CASE BecomeBusy(l)
    BY <2>8 DEF BecomeBusy, ListenerAt, ListenerTo
  <2>9. CASE HandleSucceeds(l)
    BY <2>9 DEF HandleSucceeds, ListenerAt, ListenerTo
  <2>10. CASE ProcessCasFails(l)
    BY <2>10 DEF ProcessCasFails, ListenerAt, ListenerTo, Signal
  <2>11. CASE CpcFails(l)
    BY <2>11 DEF CpcFails, ListenerAt, ListenerTo, Signal
  <2>12. CASE GetMetaFails(l)
    BY <2>12 DEF GetMetaFails, ListenerAt, ListenerTo, Signal
  <2>13. CASE FinishRequest(l)
    BY <2>13 DEF FinishRequest, ListenerAt, ListenerTo
  <2>14. CASE ListenerFails(l)
    BY <2>14 DEF ListenerFails, ListenerAt, ListenerTo, Signal
  <2>15. CASE DecrementRunning(l)
    BY <2>15 DEF DecrementRunning, ListenerAt, ListenerTo
  <2>16. CASE Reconnected(l)
    BY <2>16 DEF Reconnected, ListenerAt, ListenerTo
  <2>17. CASE ReconnectDone(l)
    BY <2>17 DEF ReconnectDone, ListenerAt, ListenerTo
  <2>18. CASE ReconnectFails(l)
    BY <2>18 DEF ReconnectFails, ListenerAt, ListenerTo
  <2>19. CASE TouchFreedListener(l)
    BY <2>19 DEF TouchFreedListener, Abort
  <2>20. QED
    BY <1>33, <2>1, <2>2, <2>3, <2>4, <2>5, <2>6, <2>7, <2>8, <2>9, <2>10, <2>11, <2>12,
        <2>13, <2>14, <2>15, <2>16, <2>17, <2>18, <2>19
       DEF ListenerStep, ReconnectStep
<1>34. QED
  BY <1>1, <1>2, <1>3, <1>4, <1>5, <1>6, <1>7, <1>8, <1>9, <1>10, <1>11, <1>12, <1>13,
      <1>14, <1>15, <1>16, <1>17, <1>18, <1>19, <1>20, <1>21, <1>22, <1>23, <1>24, <1>25,
      <1>26, <1>27, <1>28, <1>29, <1>30, <1>31, <1>32, <1>33
     DEF Next, MainStep, ControllerStep, EnvironmentStep

\* As long as the broker breaks no connection every step leaves all handles in place.
LEMMA BreakStep ==
    TypeOK /\ JoinInv /\ BreakInv /\ [Next]_vars => BreakInv'
<1> SUFFICES ASSUME TypeOK, JoinInv, BreakInv, [Next]_vars
             PROVE  BreakInv'
  OBVIOUS
<1> USE ParametersAssumption DEF TypeOK, JoinInv, BreakInv, GetMetaId, Annotators, InJoins,
    StopDone, OrderlyStop, Listeners, vars, mainVars, monitorVars, wakeVars, threadVars,
    flagVars, connVars, procVars, envVars
<1>1. CASE UNCHANGED vars
  BY <1>1
<1>2. CASE StartThread
  BY <1>2 DEF StartThread, MainAt, ListenerTo
<1>3. CASE StartConnection
  BY <1>3 DEF StartConnection, MainAt, CallThrows, ConnectionAt
<1>4. CASE CreateWaker
  BY <1>4 DEF CreateWaker, MainAt
<1>5. CASE EnterWait
  BY <1>5 DEF EnterWait, MainAt
<1>6. CASE StdinJoined
  BY <1>6 DEF StdinJoined, MainAt
<1>7. CASE ChooseStop
  BY <1>7 DEF ChooseStop, MainAt
<1>8. CASE StopConnection
  BY <1>8 DEF StopConnection, MainAt, CallThrows, ConnectionAt
<1>9. CASE ScanBusy
  BY <1>9 DEF ScanBusy, MainAt
<1>10. CASE SetStopFlag
  BY <1>10 DEF SetStopFlag, MainAt
<1>11. CASE JoinOrSkip
  BY <1>11 DEF JoinOrSkip, MainAt, NextListener
<1>12. CASE Join
  BY <1>12 DEF Join, MainAt, NextListener
<1>13. CASE CleanupAfterStop
  BY <1>13 DEF CleanupAfterStop, MainAt, Cleanup, Abort, FirstThrowing, CallThrows
<1>14. CASE Unwind
  BY <1>14 DEF Unwind, MainAt, Cleanup, Abort, FirstThrowing, CallThrows
<1>15. CASE NotifyController
  BY <1>15 DEF NotifyController, MainAt
<1>16. CASE TerminateService
  BY <1>16 DEF TerminateService, MainAt
<1>17. CASE DestroyService
  BY <1>17 DEF DestroyService, MainAt, Abort
<1>18. CASE Exit
  BY <1>18 DEF Exit, MainAt
<1>19. CASE SendReady
  BY <1>19 DEF SendReady
<1>20. CASE SendReadyFails
  BY <1>20 DEF SendReadyFails, ControllerAt, Signal
<1>21. CASE CommandReset
  BY <1>21 DEF CommandReset, ControllerAt
<1>22. CASE CommandQuiesceAndStop
  BY <1>22 DEF CommandQuiesceAndStop, ControllerAt, Signal
<1>23. CASE CommandShutdown
  BY <1>23 DEF CommandShutdown, ControllerAt, Signal
<1>24. CASE ControllerLost
  BY <1>24 DEF ControllerLost
<1>25. CASE ControllerFinal
  BY <1>25 DEF ControllerFinal, ControllerAt, Signal
<1>26. CASE ControllerUsesDeletedMonitor
  BY <1>26 DEF ControllerUsesDeletedMonitor, Abort
<1>27. CASE StdinStop
  BY <1>27 DEF StdinStop, Signal
<1>28. CASE SpuriousWakeup
  BY <1>28 DEF SpuriousWakeup, MainAt
<1>29. CASE SignalDelivered
  BY <1>29 DEF SignalDelivered, Signal
<1>30. CASE SignalFindsNoMonitor
  BY <1>30 DEF SignalFindsNoMonitor, Abort
<1>31. ASSUME NEW l \in Listeners, ConnectionBreaks(l) PROVE BreakInv'
  BY <1>31 DEF ConnectionBreaks
<1>32. ASSUME NEW l \in Listeners, OnException(l) PROVE BreakInv'
  BY <1>32 DEF OnException
<1>33. ASSUME NEW l \in Listeners,
              ListenerStep(l) \/ ReconnectStep(l) \/ TouchFreedListener(l)
       PROVE  BreakInv'
  <2>1. CASE EnterReceive(l)
    BY <2>1 DEF EnterReceive, ListenerAt, ListenerTo
  <2>2. CASE TestStopFlag(l)
    BY <2>2 DEF TestStopFlag, ListenerAt, ListenerTo
  <2>3. CASE ReceiveMessage(l)
    BY <2>3 DEF ReceiveMessage, ListenerAt, ListenerTo
  <2>4. CASE ReceiveNothing(l)
    BY <2>4 DEF ReceiveNothing, ListenerAt, ListenerTo
  <2>5. CASE ReceiveThrows(l)
    BY <2>5 DEF ReceiveThrows, ListenerAt, ListenerTo
  <2>6. CASE ReceiveOnNull(l)
    BY <2>6 DEF ReceiveOnNull, ListenerAt, Abort
  <2>7. CASE BeginReconnect(l)
    BY <2>7 DEF BeginReconnect, ListenerAt, ListenerTo
  <2>8. CASE BecomeBusy(l)
    BY <2>8 DEF BecomeBusy, ListenerAt, ListenerTo
  <2>9. CASE HandleSucceeds(l)
    BY <2>9 DEF HandleSucceeds, ListenerAt, ListenerTo
  <2>10. CASE ProcessCasFails(l)
    BY <2>10 DEF ProcessCasFails, ListenerAt, ListenerTo, Signal
  <2>11. CASE CpcFails(l)
    BY <2>11 DEF CpcFails, ListenerAt, ListenerTo, Signal
  <2>12. CASE GetMetaFails(l)
    BY <2>12 DEF GetMetaFails, ListenerAt, ListenerTo, Signal
  <2>13. CASE FinishRequest(l)
    BY <2>13 DEF FinishRequest, ListenerAt, ListenerTo
  <2>14. CASE ListenerFails(l)
    BY <2>14 DEF ListenerFails, ListenerAt, ListenerTo, Signal
  <2>15. CASE DecrementRunning(l)
    BY <2>15 DEF DecrementRunning, ListenerAt, ListenerTo
  <2>16. CASE Reconnected(l)
    BY <2>16 DEF Reconnected, ListenerAt, ListenerTo
  <2>17. CASE ReconnectDone(l)
    BY <2>17 DEF ReconnectDone, ListenerAt, ListenerTo
  <2>18. CASE ReconnectFails(l)
    BY <2>18 DEF ReconnectFails, ListenerAt, ListenerTo
  <2>19. CASE TouchFreedListener(l)
    BY <2>19 DEF TouchFreedListener, Abort
  <2>20. QED
    BY <1>33, <2>1, <2>2, <2>3, <2>4, <2>5, <2>6, <2>7, <2>8, <2>9, <2>10, <2>11, <2>12,
        <2>13, <2>14, <2>15, <2>16, <2>17, <2>18, <2>19
       DEF ListenerStep, ReconnectStep
<1>34. QED
  BY <1>1, <1>2, <1>3, <1>4, <1>5, <1>6, <1>7, <1>8, <1>9, <1>10, <1>11, <1>12, <1>13,
      <1>14, <1>15, <1>16, <1>17, <1>18, <1>19, <1>20, <1>21, <1>22, <1>23, <1>24, <1>25,
      <1>26, <1>27, <1>28, <1>29, <1>30, <1>31, <1>32, <1>33
     DEF Next, MainStep, ControllerStep, EnvironmentStep

\* The annotator ids of iv_listeners are finite, and NumInstances many.
LEMMA AnnotatorsFinite == IsFiniteSet(Annotators) /\ Cardinality(Annotators) = NumInstances
  BY FS_Interval, ParametersAssumption DEF Annotators

\* When iv_numRunning is down to 1, every annotator but the one that reads it has
\* decremented it.
LEMMA OthersDecremented ==
    ASSUME NEW D \in SUBSET Annotators, NEW l \in Annotators \ D,
           1 = NumInstances - Cardinality(D)
    PROVE  Annotators = D \cup {l}
<1>1. IsFiniteSet(D) /\ Cardinality(D) \in Nat
  BY AnnotatorsFinite, FS_Subset, FS_CardinalityType
<1>2. Cardinality(D \cup {l}) = NumInstances
  BY <1>1, FS_AddElement, ParametersAssumption
<1>3. D \cup {l} \subseteq Annotators
  OBVIOUS
<1>4. QED
  BY <1>2, <1>3, FS_Subset, AnnotatorsFinite

\* Every step keeps iv_numRunning the count of the annotators that have not decremented
\* it, and "last listener" the truth.
LEMMA CountStep ==
    TypeOK /\ StartInv /\ CountInv /\ [Next]_vars => CountInv'
<1> SUFFICES ASSUME TypeOK, StartInv, CountInv, [Next]_vars
             PROVE  CountInv'
  OBVIOUS
<1> USE ParametersAssumption DEF TypeOK, CountInv, Listeners, vars, mainVars, monitorVars,
    wakeVars, threadVars, flagVars, connVars, procVars, envVars
<1>1. CASE UNCHANGED vars
  BY <1>1 DEF NoPrematureShutdown
<1>2. CASE StartThread
  <2>1. decremented' = decremented /\ numRunning' = numRunning
    BY <1>2 DEF StartThread
  <2>2. lpc[mainIdx] = "created" /\ lpc' = [lpc EXCEPT ![mainIdx] = "entering"]
    BY <1>2 DEF StartThread, MainAt, ListenerTo, StartInv
  <2>3. NoPrematureShutdown'
    BY <1>2, <2>2 DEF StartThread, NoPrematureShutdown
  <2>4. QED
    BY <2>1, <2>2, <2>3
<1>3. CASE StartConnection
  BY <1>3 DEF StartConnection, MainAt, NoPrematureShutdown
<1>4. CASE CreateWaker
  BY <1>4 DEF CreateWaker, MainAt, NoPrematureShutdown
<1>5. CASE EnterWait
  BY <1>5 DEF EnterWait, MainAt, NoPrematureShutdown
<1>6. CASE StdinJoined
  BY <1>6 DEF StdinJoined, MainAt, NoPrematureShutdown
<1>7. CASE ChooseStop
  BY <1>7 DEF ChooseStop, MainAt, NoPrematureShutdown
<1>8. CASE StopConnection
  BY <1>8 DEF StopConnection, MainAt, NoPrematureShutdown
<1>9. CASE ScanBusy
  BY <1>9 DEF ScanBusy, MainAt, NoPrematureShutdown
<1>10. CASE SetStopFlag
  BY <1>10 DEF SetStopFlag, MainAt, NoPrematureShutdown
<1>11. CASE JoinOrSkip
  BY <1>11 DEF JoinOrSkip, MainAt, NextListener, NoPrematureShutdown
<1>12. CASE Join
  BY <1>12 DEF Join, MainAt, NextListener, NoPrematureShutdown
<1>13. CASE CleanupAfterStop
  BY <1>13 DEF CleanupAfterStop, MainAt, Cleanup, Abort, NoPrematureShutdown
<1>14. CASE Unwind
  BY <1>14 DEF Unwind, MainAt, Cleanup, Abort, NoPrematureShutdown
<1>15. CASE NotifyController
  BY <1>15 DEF NotifyController, MainAt, NoPrematureShutdown
<1>16. CASE TerminateService
  BY <1>16 DEF TerminateService, MainAt, NoPrematureShutdown
<1>17. CASE DestroyService
  BY <1>17 DEF DestroyService, MainAt, Abort, NoPrematureShutdown
<1>18. CASE Exit
  BY <1>18 DEF Exit, MainAt, NoPrematureShutdown
<1>19. CASE SendReady
  BY <1>19 DEF SendReady, NoPrematureShutdown
<1>20. CASE SendReadyFails
  BY <1>20 DEF SendReadyFails, ControllerAt, Signal, NoPrematureShutdown
<1>21. CASE CommandReset
  BY <1>21 DEF CommandReset, ControllerAt, NoPrematureShutdown
<1>22. CASE CommandQuiesceAndStop
  BY <1>22 DEF CommandQuiesceAndStop, ControllerAt, Signal, NoPrematureShutdown
<1>23. CASE CommandShutdown
  BY <1>23 DEF CommandShutdown, ControllerAt, Signal, NoPrematureShutdown
<1>24. CASE ControllerLost
  BY <1>24 DEF ControllerLost, NoPrematureShutdown
<1>25. CASE ControllerFinal
  BY <1>25 DEF ControllerFinal, ControllerAt, Signal, NoPrematureShutdown
<1>26. CASE ControllerUsesDeletedMonitor
  BY <1>26 DEF ControllerUsesDeletedMonitor, Abort, NoPrematureShutdown
<1>27. CASE StdinStop
  BY <1>27 DEF StdinStop, Signal, NoPrematureShutdown
<1>28. CASE SpuriousWakeup
  BY <1>28 DEF SpuriousWakeup, MainAt, NoPrematureShutdown
<1>29. CASE SignalDelivered
  BY <1>29 DEF SignalDelivered, Signal, NoPrematureShutdown
<1>30. CASE SignalFindsNoMonitor
  BY <1>30 DEF SignalFindsNoMonitor, Abort, NoPrematureShutdown
<1>31. ASSUME NEW l \in Listeners, ConnectionBreaks(l) PROVE CountInv'
  BY <1>31 DEF NoPrematureShutdown, ConnectionBreaks
<1>32. ASSUME NEW l \in Listeners, OnException(l) PROVE CountInv'
  BY <1>32 DEF NoPrematureShutdown, OnException
<1>33. ASSUME NEW l \in Listeners,
              ListenerStep(l) \/ ReconnectStep(l) \/ TouchFreedListener(l)
       PROVE  CountInv'
  <2>1. CASE EnterReceive(l)
    BY <2>1 DEF EnterReceive, ListenerAt, ListenerTo, NoPrematureShutdown
  <2>2. CASE TestStopFlag(l)
    BY <2>2 DEF TestStopFlag, ListenerAt, ListenerTo, NoPrematureShutdown
  <2>3. CASE ReceiveMessage(l)
    BY <2>3 DEF ReceiveMessage, ListenerAt, ListenerTo, NoPrematureShutdown
  <2>4. CASE ReceiveNothing(l)
    BY <2>4 DEF ReceiveNothing, ListenerAt, ListenerTo, NoPrematureShutdown
  <2>5. CASE ReceiveThrows(l)
    BY <2>5 DEF ReceiveThrows, ListenerAt, ListenerTo, NoPrematureShutdown
  <2>6. CASE ReceiveOnNull(l)
    BY <2>6 DEF ReceiveOnNull, ListenerAt, Abort, NoPrematureShutdown
  <2>7. CASE BeginReconnect(l)
    BY <2>7 DEF BeginReconnect, ListenerAt, ListenerTo, NoPrematureShutdown
  <2>8. CASE BecomeBusy(l)
    BY <2>8 DEF BecomeBusy, ListenerAt, ListenerTo, NoPrematureShutdown
  <2>9. CASE HandleSucceeds(l)
    BY <2>9 DEF HandleSucceeds, ListenerAt, ListenerTo, NoPrematureShutdown
  <2>10. CASE ProcessCasFails(l)
    BY <2>10 DEF ProcessCasFails, ListenerAt, ListenerTo, Signal, NoPrematureShutdown
  <2>11. CASE CpcFails(l)
    BY <2>11 DEF CpcFails, ListenerAt, ListenerTo, Signal, NoPrematureShutdown
  <2>12. CASE GetMetaFails(l)
    BY <2>12 DEF GetMetaFails, ListenerAt, ListenerTo, Signal, NoPrematureShutdown
  <2>13. CASE FinishRequest(l)
    BY <2>13 DEF FinishRequest, ListenerAt, ListenerTo, NoPrematureShutdown
  <2>14. CASE ListenerFails(l)
    <3>1. decremented' = decremented /\ numRunning' = numRunning
      BY <2>14 DEF ListenerFails
    <3>2. lpc[l] = "failed" /\ l \notin decremented
      BY <2>14 DEF ListenerFails, ListenerAt
    <3>3. lpc'[l] \in {"decrement", "exited"} /\ \A k \in Listeners \ {l} : lpc'[k] = lpc[k]
      BY <2>14 DEF ListenerFails, ListenerTo
    <3>4. lpc'[l] = "decrement" => l \in Annotators
      BY <2>14 DEF ListenerFails, ListenerTo, LastListener, GetMetaId, Annotators
    <3>5. CASE "lastStopped" \in stopCauses' \ stopCauses
      <4>1. l \in Annotators /\ numRunning = 1 /\ lpc'[l] = "exited"
        BY <2>14, <3>5 DEF ListenerFails, LastListener, Signal, GetMetaId, ListenerTo, Annotators
      <4>2. /\ decremented \in SUBSET Annotators /\ l \in Annotators \ decremented
            /\ 1 = NumInstances - Cardinality(decremented)
        BY <4>1, <3>2
      <4>3. Annotators = decremented \cup {l}
        BY <4>2, OthersDecremented
      <4>4. QED
        BY <4>1, <4>3, <3>1, <3>2, <3>3, <3>4 DEF NoPrematureShutdown
    <3>6. CASE "lastStopped" \notin stopCauses' \ stopCauses
      BY <3>1, <3>2, <3>3, <3>4, <3>6 DEF NoPrematureShutdown, Annotators
    <3>7. QED
      BY <3>5, <3>6
  <2>15. CASE DecrementRunning(l)
    <3>1. l \in Annotators /\ l \notin decremented
      BY <2>15 DEF DecrementRunning, ListenerAt
    <3>2. Cardinality(decremented \cup {l}) = Cardinality(decremented) + 1
      BY <3>1, FS_AddElement, FS_Subset, AnnotatorsFinite
    <3>3. Cardinality(decremented) \in Nat
      BY FS_CardinalityType, FS_Subset, AnnotatorsFinite
    <3>4. decremented' = decremented \cup {l} /\ numRunning' = numRunning - 1
      BY <2>15 DEF DecrementRunning
    <3>5. lpc' = [lpc EXCEPT ![l] = "exited"] /\ stopCauses' = stopCauses
      BY <2>15 DEF DecrementRunning, ListenerTo
    <3>6. numRunning' = NumInstances - Cardinality(decremented')
      BY <3>2, <3>3, <3>4
    <3>7. NoPrematureShutdown'
      BY <3>5 DEF NoPrematureShutdown
    <3>8. QED
      BY <3>1, <3>4, <3>5, <3>6, <3>7
  <2>16. CASE Reconnected(l)
    BY <2>16 DEF Reconnected, ListenerAt, ListenerTo, NoPrematureShutdown
  <2>17. CASE ReconnectDone(l)
    BY <2>17 DEF ReconnectDone, ListenerAt, ListenerTo, NoPrematureShutdown
  <2>18. CASE ReconnectFails(l)
    BY <2>18 DEF ReconnectFails, ListenerAt, ListenerTo, NoPrematureShutdown
  <2>19. CASE TouchFreedListener(l)
    BY <2>19 DEF TouchFreedListener, Abort, NoPrematureShutdown
  <2>20. QED
    BY <1>33, <2>1, <2>2, <2>3, <2>4, <2>5, <2>6, <2>7, <2>8, <2>9, <2>10, <2>11, <2>12,
        <2>13, <2>14, <2>15, <2>16, <2>17, <2>18, <2>19
       DEF ListenerStep, ReconnectStep
<1>34. QED
  BY <1>1, <1>2, <1>3, <1>4, <1>5, <1>6, <1>7, <1>8, <1>9, <1>10, <1>11, <1>12, <1>13,
      <1>14, <1>15, <1>16, <1>17, <1>18, <1>19, <1>20, <1>21, <1>22, <1>23, <1>24, <1>25,
      <1>26, <1>27, <1>28, <1>29, <1>30, <1>31, <1>32, <1>33
     DEF Next, MainStep, ControllerStep, EnvironmentStep

-----------------------------------------------------------------------------
IInv == TypeOK /\ StartInv /\ JoinInv /\ ReconnectInv /\ SkipInv /\ CountInv /\ BreakInv

\* The constructed service, before any thread runs, satisfies the invariant.
LEMMA InitInv == Init => IInv
<1> SUFFICES ASSUME Init PROVE IInv
  OBVIOUS
<1> USE ParametersAssumption DEF Init, Listeners
<1>1. TypeOK
  <2>1. mainPc \in MainPcs /\ abortCause \in AbortCauses
    BY DEF MainPcs, AbortCauses
  <2>2. lpc \in [Listeners -> ListenerPcs]
    BY DEF ListenerPcs
  <2>3. /\ stopFlag \in [Listeners -> BOOLEAN] /\ busy \in [Listeners -> BOOLEAN]
        /\ broken \in [Listeners -> BOOLEAN] /\ valid \in [Listeners -> BOOLEAN]
        /\ reconnecting \in [Listeners -> BOOLEAN]
        /\ handles \in [Listeners -> {"none", "connected", "consuming"}]
    OBVIOUS
  <2>4. /\ skipped = {} /\ decremented = {} /\ stopCauses = {} /\ stopLost = {}
        /\ mainIdx \in 0 .. NumInstances /\ numRunning \in Int
    OBVIOUS
  <2>5. /\ processcasErrors \in Nat /\ requests \in Nat
        /\ breaks \in Nat /\ signals \in Nat
    OBVIOUS
  <2>6. /\ quiescing \in BOOLEAN /\ quiesceFlag \in BOOLEAN /\ monitorAlive \in BOOLEAN
        /\ closed \in BOOLEAN /\ cleanedUp \in BOOLEAN /\ doneSent \in BOOLEAN
        /\ cpc = "none" /\ proc = "up"
    OBVIOUS
  <2>7. QED
    BY Zenon, <2>1, <2>2, <2>3, <2>4, <2>5, <2>6 DEF TypeOK
<1>2. StartInv /\ JoinInv /\ ReconnectInv /\ SkipInv
  BY DEF StartInv, JoinInv, ReconnectInv, SkipInv, InJoins, StopDone, OrderlyStop
<1>3. CountInv
  BY FS_EmptySet DEF CountInv, NoPrematureShutdown, Annotators
<1>4. BreakInv
  BY DEF BreakInv, StopDone
<1>5. QED
  BY <1>1, <1>2, <1>3, <1>4 DEF IInv

\* The strengthened invariant of the service holds in every state it reaches.
THEOREM Invariance == Spec => []IInv
<1>1. Init => IInv
  BY InitInv
<1>2. IInv /\ [Next]_vars => IInv'
  BY TypeStep, StartStep, JoinStep, ReconnectingStep, SkipStep, CountStep, BreakStep DEF IInv
<1>3. QED
  BY <1>1, <1>2, PTL DEF Spec

\* The flags, counters and program counters of the service keep their types.
THEOREM TypeCorrect == Spec => []TypeOK
<1>1. IInv => TypeOK
  BY DEF IInv
<1>2. QED
  BY <1>1, Invariance, PTL

\* shutdown() and quiesceAndStop() get to cleanup() only when every listener thread has
\* ended, but for those that shutdown() found reconnecting.
THEOREM StopIsOrderly == Spec => []OrderlyStop
<1>1. IInv => OrderlyStop
  BY DEF IInv, JoinInv
<1>2. QED
  BY <1>1, Invariance, PTL

\* cleanup() never deletes the engine and CAS of a listener that is handling a request,
\* unless that listener overwrote the stop request when it entered its loop.
THEOREM RequestsAreFinished == Spec => []NoRequestAbandoned
<1>1. IInv => NoRequestAbandoned
  BY DEF IInv, JoinInv, SkipInv, OrderlyStop, NoRequestAbandoned
<1>2. QED
  BY <1>1, Invariance, PTL

\* listenerStopped() takes no annotator for the last one while another still runs.
THEOREM ShutdownIsNotPremature == Spec => []NoPrematureShutdown
<1>1. IInv => NoPrematureShutdown
  BY DEF IInv, CountInv
<1>2. QED
  BY <1>1, Invariance, PTL

\* As long as the broker breaks no connection, the service does not use a NULL handle, a
\* deleted connection or a deleted listener.
THEOREM CrashNeedsBreak == Spec => []NoCrashWithoutBreak
<1>1. IInv => NoCrashWithoutBreak
  BY DEF IInv, BreakInv, NoCrashWithoutBreak
<1>2. QED
  BY <1>1, Invariance, PTL
=============================================================================
