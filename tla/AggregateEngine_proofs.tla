------------------------ MODULE AggregateEngine_proofs ------------------------
(***************************************************************************)
(* Proofs about AggregateEngine, for every number and kind of delegates.   *)
(*                                                                         *)
(* The properties follow from an invariant in four parts: where a call is  *)
(* and what the aggregate is then like (ControlInv), what the owner of a   *)
(* delegate has done with it (SlotInv), which delegates are destroyed      *)
(* while no capability container has been refused (RefusalInv) and what a  *)
(* running process() has achieved (ProcessInv).                            *)
(***************************************************************************)
EXTENDS AggregateEngine, TLAPS

ControlInv ==
    /\ (pc = "idle" /\ rootState = "readyForInit") <=> op = "none"
    /\ rootState \in {"readyForInit", "deleted"} => pc = "idle"
    /\ pc = "init" => op = "create" /\ rootState = "readyForProcess" /\ idx = entries + 1
    /\ pc = "enter" => op \in Broadcasts \cup {"process", "destroy"} /\ idx = 1
    /\ pc = "process" => op = "process" /\ rootState = "readyForProcess"
    /\ pc = "broadcast" => op \in Broadcasts /\ rootState = "readyForProcess"
    /\ pc = "reinit" => op = "reinitTypeSystem"
    /\ pc \in {"process", "broadcast", "reinit"} => idx >= 1 /\ idx <= entries + 1
    /\ pc = "deinit" => /\ op \in {"create", "destroy", "reinitTypeSystem", "delete"}
                        /\ idx <= entries
                        /\ op # "create" => rootState = "readyForDeletion"
    /\ (rootState # "readyForProcess" /\ pc # "deinit") => entries = 0

SlotInv ==
    \A d \in Delegates :
        /\ (d > entries /\ annotators[d] = "live") => d \in refused /\ d \notin Primitive
        /\ (d <= entries /\ annotators[d] = "live") => engine[d] = "readyForProcess"
        /\ (d <= entries /\ container[d] = "freed") => refused # {}
        /\ (pc = "deinit" /\ idx < d /\ d <= entries) => engine[d] # "readyForProcess"

RefusalInv ==
    refused = {} =>
        /\ ~undefined
        /\ \A d \in Delegates :
              (d <= entries /\ engine[d] # "readyForProcess") =>
                  pc = "deinit" \/ (pc = "reinit" /\ d < idx /\ rc = "err")

ProcessInv ==
    /\ op = "process" => request \in Requests
    /\ (op = "process" /\ pc \in {"enter", "process"}) =>
          /\ \A d \in Delegates : (pc = "enter" \/ d >= idx) => asked[d] = {} /\ answer[d] = "none"
          /\ resSpec = {t \in request.tofs : ~Delivered(t, idx)}
    /\ (op = "process" /\ pc = "enter") => rc = "ok"
    /\ pc = "process" =>
          /\ rc = "ok" => \A d \in Delegates : answer[d] \in {"none", "ok"}
          /\ rc = "err" => \E d \in Delegates : answer[d] = "err"

-----------------------------------------------------------------------------
(* Type correctness *)

THEOREM TypeCorrect == Spec => [](TypeOK /\ ControlInv)
<1> USE AggregateAssumption
<1>1. Init => TypeOK /\ ControlInv
  <2> SUFFICES ASSUME Init PROVE TypeOK /\ ControlInv
    OBVIOUS
  <2>1. ControlInv
    BY DEF Init, ControlInv
  <2>2. /\ engine \in [Delegates -> {"absent", "readyForProcess", "readyForDeletion"}]
        /\ annotators \in [Delegates -> {"none", "live", "destroyed"}]
        /\ container \in [Delegates -> {"none", "live", "freed"}]
        /\ answer \in [Delegates -> {"none", "ok", "err", "exc"}]
        /\ asked \in [Delegates -> SUBSET Tofs]
    BY DEF Init
  <2>3. idx \in 0 .. NumDelegates + 1 /\ entries \in 0 .. NumDelegates /\ calls \in 0 .. MaxCalls
    BY DEF Init
  <2>4. /\ resSpec \subseteq Tofs /\ unreported \subseteq Delegates /\ refused \subseteq Delegates
        /\ undefined \in BOOLEAN /\ request \in Requests \cup {NoRequest}
    BY DEF Init
  <2>5. QED
    BY <2>1, <2>2, <2>3, <2>4 DEF Init, TypeOK
<1>2. TypeOK /\ ControlInv /\ [Next]_vars => TypeOK' /\ ControlInv'
  <2> SUFFICES ASSUME TypeOK, ControlInv, [Next]_vars
               PROVE  TypeOK' /\ ControlInv'
    OBVIOUS
  <2> USE DEF TypeOK, ControlInv, Delegates, Broadcasts, controlVars, delegateVars, processVars,
              Loop, Return, Advance, Keep, LaunchDeInit, Begin, BeginCall, AtDelegate
  <2>1. CASE CreateAnalysisEngine
    BY <2>1 DEF CreateAnalysisEngine
  <2>2. CASE ReinitTypeSystem
    BY <2>2 DEF ReinitTypeSystem
  <2>3. CASE Destroy
    BY <2>3 DEF Destroy
  <2>4. CASE Delete
    BY <2>4 DEF Delete
  <2>5. CASE \E req \in Requests : Process(req)
    BY <2>5 DEF Process, Requests
  <2>6. CASE \E c \in Broadcasts : Broadcast(c)
    BY <2>6 DEF Broadcast
  <2>7. CASE LaunchInit
    BY <2>7 DEF LaunchInit
  <2>8. CASE LaunchInitFails
    BY <2>8 DEF LaunchInitFails
  <2>9. CASE LaunchInitThrows
    BY <2>9 DEF LaunchInitThrows
  <2>10. CASE InitializeCompleteResultSpec
    BY <2>10 DEF InitializeCompleteResultSpec
  <2>11. CASE CheckCallingSequence
    BY <2>11 DEF CheckCallingSequence
  <2>12. CASE \E d \in Delegates : ProcessSkips(d)
    BY <2>12 DEF ProcessSkips
  <2>13. CASE \E d \in Delegates : ProcessHasNoText(d)
    BY <2>13 DEF ProcessHasNoText, Callable
  <2>14. CASE \E d \in Delegates : ProcessCalls(d)
    <3>1. PICK d \in Delegates : ProcessCalls(d)
      BY <2>14
    <3>2. PICK out \in DelegateOutcomes(d) :
            /\ answer' = [answer EXCEPT ![d] = out]
            /\ resSpec' = Remaining(d, out)
            /\ IF out = "exc" THEN Return("exc") /\ UNCHANGED rc ELSE Advance /\ Keep(out)
            /\ \/ UNCHANGED unreported
               \/ out = "ok" /\ d \in Primitive /\ unreported' = unreported \cup {d}
      BY <3>1 DEF ProcessCalls
    <3>3. /\ pc = "process" /\ idx = d /\ idx <= entries
          /\ asked' = [asked EXCEPT ![d] = TofsToBeRemoved(d)]
          /\ UNCHANGED <<op, calls, rootState, delegateVars, request>>
      BY <3>1 DEF ProcessCalls, Callable
    <3>4. out \in {"ok", "err", "exc"}
      BY DEF DelegateOutcomes
    <3>5. answer' \in [Delegates -> {"none", "ok", "err", "exc"}] /\ asked' \in [Delegates -> SUBSET Tofs]
      BY <3>2, <3>3, <3>4 DEF TofsToBeRemoved
    <3>6. resSpec' \subseteq Tofs /\ unreported' \subseteq Delegates
      BY <3>2 DEF Remaining
    <3>7. ControlInv'
      BY <3>2, <3>3
    <3>8. QED
      BY <3>2, <3>3, <3>5, <3>6, <3>7
  <2>15. CASE LoopEnds
    BY <2>15 DEF LoopEnds
  <2>16. CASE \E d \in Delegates : LaunchBroadcast(d)
    BY <2>16 DEF LaunchBroadcast
  <2>17. CASE \E d \in Delegates : LaunchReinitTypeSystem(d)
    <3>1. PICK d \in Delegates, out \in {"ok", "err"} :
            /\ AtDelegate("reinit", d) /\ ReinitDelegate(d, out) /\ Keep(out) /\ Advance
            /\ UNCHANGED <<op, calls, rootState, entries, container, refused, undefined, processVars>>
      BY <2>17 DEF LaunchReinitTypeSystem
    <3>2. /\ engine' \in [Delegates -> {"absent", "readyForProcess", "readyForDeletion"}]
          /\ annotators' \in [Delegates -> {"none", "live", "destroyed"}]
      BY <3>1 DEF ReinitDelegate
    <3>3. ControlInv'
      BY <3>1
    <3>4. QED
      BY <3>1, <3>2, <3>3
  <2>18. CASE \E d \in Delegates : LaunchReinitThrows(d)
    BY <2>18 DEF LaunchReinitThrows, ReinitDelegate
  <2>19. CASE ReinitEnds
    BY <2>19 DEF ReinitEnds
  <2>20. CASE CheckCallingSequenceDestroy
    BY <2>20 DEF CheckCallingSequenceDestroy
  <2>21. CASE LaunchDeInitStep
    <3>1. /\ engine' \in [Delegates -> {"absent", "readyForProcess", "readyForDeletion"}]
          /\ annotators' \in [Delegates -> {"none", "live", "destroyed"}]
          /\ rc' \in {"ok", "err"}
      BY <2>21 DEF LaunchDeInitStep, DeInitPosition
    <3>2. ControlInv'
      BY <2>21 DEF LaunchDeInitStep
    <3>3. QED
      BY <2>21, <3>1, <3>2 DEF LaunchDeInitStep
  <2>22. CASE FreeEntries
    BY <2>22 DEF FreeEntries
  <2>23. CASE UseUndefined
    BY <2>23 DEF UseUndefined
  <2>24. CASE UNCHANGED vars
    BY <2>24 DEF vars
  <2>25. QED
    BY <2>1, <2>2, <2>3, <2>4, <2>5, <2>6, <2>7, <2>8, <2>9, <2>10, <2>11, <2>12, <2>13, <2>14, <2>15,
       <2>16, <2>17, <2>18, <2>19, <2>20, <2>21, <2>22, <2>23, <2>24
    DEF Next, Call, Step, LaunchProcessDocument, ProcessUsesFreed, LaunchReinitUsesFreed, FreesTwice
<1>3. QED
  BY <1>1, <1>2, PTL DEF Spec

-----------------------------------------------------------------------------

(* What is done with the delegates *)

LEMMA SlotStep ==
    ASSUME TypeOK, ControlInv, SlotInv, [Next]_vars
    PROVE  SlotInv'
<1> USE AggregateAssumption DEF TypeOK, ControlInv, SlotInv, Delegates, Broadcasts, controlVars, delegateVars, processVars, Loop, Return, Advance, Keep,
           LaunchDeInit, Begin, BeginCall, AtDelegate
<1>1. CASE CreateAnalysisEngine
  BY <1>1 DEF CreateAnalysisEngine
<1>2. CASE ReinitTypeSystem
  BY <1>2 DEF ReinitTypeSystem
<1>3. CASE Destroy
  BY <1>3 DEF Destroy
<1>4. CASE Delete
  BY <1>4 DEF Delete
<1>5. CASE \E req \in Requests : Process(req)
  BY <1>5 DEF Process
<1>6. CASE \E c \in Broadcasts : Broadcast(c)
  BY <1>6 DEF Broadcast
<1>7. CASE LaunchInit
  BY <1>7 DEF LaunchInit
<1>8. CASE LaunchInitFails
  BY <1>8 DEF LaunchInitFails
<1>9. CASE LaunchInitThrows
  BY <1>9 DEF LaunchInitThrows
<1>10. CASE InitializeCompleteResultSpec
  BY <1>10 DEF InitializeCompleteResultSpec
<1>11. CASE CheckCallingSequence
  BY <1>11 DEF CheckCallingSequence
<1>12. CASE \E d \in Delegates : ProcessSkips(d)
  BY <1>12 DEF ProcessSkips
<1>13. CASE \E d \in Delegates : ProcessHasNoText(d)
  BY <1>13 DEF ProcessHasNoText, Callable
<1>14. CASE \E d \in Delegates : ProcessCalls(d)
  BY <1>14 DEF ProcessCalls, Callable
<1>15. CASE LoopEnds
  BY <1>15 DEF LoopEnds
<1>16. CASE \E d \in Delegates : LaunchBroadcast(d)
  BY <1>16 DEF LaunchBroadcast
<1>17. CASE \E d \in Delegates : LaunchReinitTypeSystem(d)
  BY <1>17 DEF LaunchReinitTypeSystem, ReinitDelegate
<1>18. CASE \E d \in Delegates : LaunchReinitThrows(d)
  BY <1>18 DEF LaunchReinitThrows, ReinitDelegate
<1>19. CASE ReinitEnds
  BY <1>19 DEF ReinitEnds
<1>20. CASE CheckCallingSequenceDestroy
  BY <1>20 DEF CheckCallingSequenceDestroy
<1>21. CASE LaunchDeInitStep
  BY <1>21 DEF LaunchDeInitStep, DeInitPosition
<1>22. CASE FreeEntries
  BY <1>22 DEF FreeEntries
<1>23. CASE UseUndefined
  BY <1>23 DEF UseUndefined
<1>24. CASE UNCHANGED vars
  BY <1>24 DEF vars
<1>25. QED
  BY <1>1, <1>2, <1>3, <1>4, <1>5, <1>6, <1>7, <1>8, <1>9, <1>10, <1>11, <1>12,
     <1>13, <1>14, <1>15, <1>16, <1>17, <1>18, <1>19, <1>20, <1>21, <1>22, <1>23, <1>24
  DEF Next, Call, Step, LaunchProcessDocument, ProcessUsesFreed, LaunchReinitUsesFreed, FreesTwice

LEMMA RefusalStep ==
    ASSUME TypeOK, ControlInv, SlotInv, RefusalInv, [Next]_vars
    PROVE  RefusalInv'
<1> USE AggregateAssumption DEF TypeOK, ControlInv, SlotInv, RefusalInv, Delegates, Broadcasts, controlVars, delegateVars, processVars, Loop, Return, Advance, Keep,
           LaunchDeInit, Begin, BeginCall, AtDelegate
<1>1. CASE CreateAnalysisEngine
  BY <1>1 DEF CreateAnalysisEngine
<1>2. CASE ReinitTypeSystem
  BY <1>2 DEF ReinitTypeSystem
<1>3. CASE Destroy
  BY <1>3 DEF Destroy
<1>4. CASE Delete
  BY <1>4 DEF Delete
<1>5. CASE \E req \in Requests : Process(req)
  BY <1>5 DEF Process
<1>6. CASE \E c \in Broadcasts : Broadcast(c)
  BY <1>6 DEF Broadcast
<1>7. CASE LaunchInit
  BY <1>7 DEF LaunchInit
<1>8. CASE LaunchInitFails
  BY <1>8 DEF LaunchInitFails
<1>9. CASE LaunchInitThrows
  BY <1>9 DEF LaunchInitThrows
<1>10. CASE InitializeCompleteResultSpec
  BY <1>10 DEF InitializeCompleteResultSpec
<1>11. CASE CheckCallingSequence
  BY <1>11 DEF CheckCallingSequence
<1>12. CASE \E d \in Delegates : ProcessSkips(d)
  BY <1>12 DEF ProcessSkips
<1>13. CASE \E d \in Delegates : ProcessHasNoText(d)
  BY <1>13 DEF ProcessHasNoText, Callable
<1>14. CASE \E d \in Delegates : ProcessCalls(d)
  BY <1>14 DEF ProcessCalls, Callable
<1>15. CASE LoopEnds
  BY <1>15 DEF LoopEnds
<1>16. CASE \E d \in Delegates : LaunchBroadcast(d)
  BY <1>16 DEF LaunchBroadcast
<1>17. CASE \E d \in Delegates : LaunchReinitTypeSystem(d)
  BY <1>17 DEF LaunchReinitTypeSystem, ReinitDelegate
<1>18. CASE \E d \in Delegates : LaunchReinitThrows(d)
  BY <1>18 DEF LaunchReinitThrows, ReinitDelegate
<1>19. CASE ReinitEnds
  BY <1>19 DEF ReinitEnds
<1>20. CASE CheckCallingSequenceDestroy
  BY <1>20 DEF CheckCallingSequenceDestroy
<1>21. CASE LaunchDeInitStep
  BY <1>21 DEF LaunchDeInitStep, DeInitPosition
<1>22. CASE FreeEntries
  BY <1>22 DEF FreeEntries
<1>23. CASE \E d \in Delegates : ProcessUsesFreed(d) \/ LaunchReinitUsesFreed(d)
  <2>1. PICK d \in Delegates : ProcessUsesFreed(d) \/ LaunchReinitUsesFreed(d)
    BY <1>23
  <2>2. d <= entries /\ d = idx /\ pc \in {"process", "reinit"}
    BY <2>1 DEF ProcessUsesFreed, LaunchReinitUsesFreed
  <2>3. container[d] = "freed" \/ engine[d] # "readyForProcess"
    BY <2>1 DEF ProcessUsesFreed, LaunchReinitUsesFreed, CannotReinit
  <2>4. refused # {}
    BY <2>2, <2>3
  <2>5. refused' = refused
    BY <2>1 DEF ProcessUsesFreed, LaunchReinitUsesFreed, UseUndefined
  <2>6. QED
    BY <2>4, <2>5
<1>24a. CASE FreesTwice
  BY <1>24a DEF FreesTwice, UseUndefined
<1>24. CASE UNCHANGED vars
  BY <1>24 DEF vars
<1>25. QED
  BY <1>1, <1>2, <1>3, <1>4, <1>5, <1>6, <1>7, <1>8, <1>9, <1>10, <1>11, <1>12,
     <1>13, <1>14, <1>15, <1>16, <1>17, <1>18, <1>19, <1>20, <1>21, <1>22, <1>23, <1>24a, <1>24
  DEF Next, Call, Step, LaunchProcessDocument


LEMMA ProcessStep ==
    ASSUME TypeOK, ControlInv, ProcessInv, [Next]_vars
    PROVE  ProcessInv'
<1> USE AggregateAssumption DEF TypeOK, ControlInv, ProcessInv, Delivered, Delegates, Broadcasts, controlVars, delegateVars, processVars, Loop, Return, Advance, Keep,
           LaunchDeInit, Begin, BeginCall, AtDelegate
<1>1. CASE CreateAnalysisEngine
  BY <1>1 DEF CreateAnalysisEngine
<1>2. CASE ReinitTypeSystem
  BY <1>2 DEF ReinitTypeSystem
<1>3. CASE Destroy
  BY <1>3 DEF Destroy
<1>4. CASE Delete
  BY <1>4 DEF Delete
<1>5. CASE \E req \in Requests : Process(req)
  BY <1>5 DEF Process
<1>6. CASE \E c \in Broadcasts : Broadcast(c)
  BY <1>6 DEF Broadcast
<1>7. CASE LaunchInit
  BY <1>7 DEF LaunchInit
<1>8. CASE LaunchInitFails
  BY <1>8 DEF LaunchInitFails
<1>9. CASE LaunchInitThrows
  BY <1>9 DEF LaunchInitThrows
<1>10. CASE InitializeCompleteResultSpec
  BY <1>10 DEF InitializeCompleteResultSpec
<1>11. CASE CheckCallingSequence
  BY <1>11 DEF CheckCallingSequence
<1>12. CASE \E d \in Delegates : ProcessSkips(d)
  <2>1. /\ pc = "process" /\ pc' = "process" /\ idx' = idx + 1 /\ idx \in Delegates
        /\ UNCHANGED <<op, rc, request, resSpec, asked, answer>>
    BY <1>12 DEF ProcessSkips
  <2>2. answer[idx] = "none"
    BY <2>1
  <2>3. ASSUME NEW t \in request.tofs
        PROVE  Delivered(t, idx)' <=> Delivered(t, idx)
    <3>1. Delivered(t, idx)' <=> \E e \in 1 .. idx' - 1 : t \in asked'[e] /\ answer'[e] = "ok"
      BY ZenonT(20) DEF Delivered
    <3>2. \A e \in Int : e \in 1 .. idx' - 1 <=> e \in 1 .. idx - 1 \/ e = idx
      BY <2>1
    <3>3. QED
      BY <2>1, <2>2, <3>1, <3>2
  <2>4. resSpec' = {t \in request'.tofs : ~Delivered(t, idx)'}
    BY <2>1, <2>3
  <2>5. \A d \in Delegates : d >= idx' => asked'[d] = {} /\ answer'[d] = "none"
    BY <2>1
  <2>6. QED
    BY <2>1, <2>4, <2>5
<1>13. CASE \E d \in Delegates : ProcessHasNoText(d)
  BY <1>13 DEF ProcessHasNoText, Callable
<1>14. CASE \E d \in Delegates : ProcessCalls(d)
  <2>1. PICK d \in Delegates : ProcessCalls(d)
    BY <1>14
  <2>2. PICK out \in DelegateOutcomes(d) :
          /\ answer' = [answer EXCEPT ![d] = out]
          /\ resSpec' = Remaining(d, out)
          /\ IF out = "exc" THEN Return("exc") /\ UNCHANGED rc ELSE Advance /\ Keep(out)
    BY <2>1 DEF ProcessCalls
  <2>3. /\ pc = "process" /\ idx = d /\ idx <= entries
        /\ asked' = [asked EXCEPT ![d] = TofsToBeRemoved(d)]
        /\ UNCHANGED <<op, request>>
    BY <2>1 DEF ProcessCalls, Callable
  <2>4. out \in {"ok", "err", "exc"}
    BY DEF DelegateOutcomes
  <2>5. CASE out = "exc"
    BY <2>2, <2>3, <2>5
  <2>6. CASE out # "exc"
    <3>1. pc' = "process" /\ idx' = d + 1 /\ rc' = IF out = "ok" THEN rc ELSE "err"
      BY <2>2, <2>3, <2>6
    <3>2. \A e \in Delegates : e >= idx' => asked'[e] = {} /\ answer'[e] = "none"
      BY <2>2, <2>3, <3>1
    <3>3. \A e \in Delegates : e # d => asked'[e] = asked[e] /\ answer'[e] = answer[e]
      BY <2>2, <2>3
    <3>4. asked'[d] = TofsToBeRemoved(d) /\ answer'[d] = out
      BY <2>2, <2>3
    <3>5. ASSUME NEW t \in request.tofs
          PROVE  Delivered(t, idx)' <=> Delivered(t, idx) \/ (out = "ok" /\ t \in TofsToBeRemoved(d))
      <4>1. Delivered(t, idx)' <=> \E e \in 1 .. d : t \in asked'[e] /\ answer'[e] = "ok"
        <5>1. idx' - 1 = d
          BY <3>1
        <5>2. Delivered(t, idx)' <=> \E e \in 1 .. idx' - 1 : t \in asked'[e] /\ answer'[e] = "ok"
          BY ZenonT(20) DEF Delivered
        <5>3. QED
          BY <5>1, <5>2
      <4>2. Delivered(t, idx) <=> \E e \in 1 .. d - 1 : t \in asked[e] /\ answer[e] = "ok"
        BY <2>3
      <4>3. \A e \in Int : e \in 1 .. d <=> e \in 1 .. d - 1 \/ e = d
        OBVIOUS
      <4>4. \A e \in 1 .. d - 1 : e \in Delegates /\ e # d
        OBVIOUS
      <4>5. \A e \in 1 .. d - 1 : t \in asked'[e] /\ answer'[e] = "ok" <=> t \in asked[e] /\ answer[e] = "ok"
        BY <3>3, <4>4
      <4>6. t \in asked'[d] /\ answer'[d] = "ok" <=> out = "ok" /\ t \in TofsToBeRemoved(d)
        BY <3>4
      <4>7. d \in 1 .. d
        OBVIOUS
      <4> HIDE DEF Delivered, TypeOK, ControlInv, ProcessInv, TofsToBeRemoved
      <4>8. QED
        BY <4>1, <4>2, <4>3, <4>5, <4>6, <4>7
    <3>6. resSpec' = {t \in request.tofs : ~Delivered(t, idx)'}
      BY <2>2, <2>3, <3>5 DEF Remaining
    <3>7. /\ rc' = "ok" => \A e \in Delegates : answer'[e] \in {"none", "ok"}
          /\ rc' = "err" => \E e \in Delegates : answer'[e] = "err"
      <4>1. CASE out = "ok"
        <5>1. rc' = rc /\ answer'[d] = "ok"
          BY <3>1, <3>4, <4>1
        <5>2. CASE rc = "ok"
          BY <2>3, <3>3, <5>1, <5>2
        <5>3. CASE rc = "err"
          <6>1. PICK e \in Delegates : answer[e] = "err"
            BY <2>3, <5>3
          <6>2. e # d
            BY <2>3, <6>1
          <6>3. answer'[e] = "err"
            BY <3>3, <6>1, <6>2
          <6>4. rc' # "ok"
            BY <5>1, <5>3
          <6>5. QED
            BY <6>3, <6>4
        <5>4. QED
          BY <5>2, <5>3
      <4>2. CASE out = "err"
        BY <3>1, <3>4, <4>2
      <4>3. QED
        BY <2>4, <2>6, <4>1, <4>2
    <3>8. QED
      BY <2>3, <3>1, <3>2, <3>6, <3>7
  <2>7. QED
    BY <2>5, <2>6
<1>15. CASE LoopEnds
  BY <1>15 DEF LoopEnds
<1>16. CASE \E d \in Delegates : LaunchBroadcast(d)
  BY <1>16 DEF LaunchBroadcast
<1>17. CASE \E d \in Delegates : LaunchReinitTypeSystem(d)
  BY <1>17 DEF LaunchReinitTypeSystem, ReinitDelegate
<1>18. CASE \E d \in Delegates : LaunchReinitThrows(d)
  BY <1>18 DEF LaunchReinitThrows, ReinitDelegate
<1>19. CASE ReinitEnds
  BY <1>19 DEF ReinitEnds
<1>20. CASE CheckCallingSequenceDestroy
  BY <1>20 DEF CheckCallingSequenceDestroy
<1>21. CASE LaunchDeInitStep
  BY <1>21 DEF LaunchDeInitStep, DeInitPosition
<1>22. CASE FreeEntries
  BY <1>22 DEF FreeEntries
<1>23. CASE UseUndefined
  BY <1>23 DEF UseUndefined
<1>24. CASE UNCHANGED vars
  BY <1>24 DEF vars
<1>25. QED
  BY <1>1, <1>2, <1>3, <1>4, <1>5, <1>6, <1>7, <1>8, <1>9, <1>10, <1>11, <1>12,
     <1>13, <1>14, <1>15, <1>16, <1>17, <1>18, <1>19, <1>20, <1>21, <1>22, <1>23, <1>24
  DEF Next, Call, Step, LaunchProcessDocument, ProcessUsesFreed, LaunchReinitUsesFreed, FreesTwice

LEMMA AskedFrame ==
    ASSUME AskedUntilDelivered, UNCHANGED <<asked, answer, request>>, pc' # "process"
    PROVE  AskedUntilDelivered'
<1>1. \A d \in Delegates, t \in Tofs : Delivered(t, d)' <=> Delivered(t, d)
  BY DEF Delivered
<1>2. \A d \in Delegates : Passed(d)' => Passed(d)
  BY DEF Passed
<1>3. QED
  BY <1>1, <1>2 DEF AskedUntilDelivered

(* Passing on to the next delegate, whichever way, keeps what earlier delegates were asked. *)
LEMMA AskedAdvance ==
    ASSUME TypeOK, ControlInv, ProcessInv, AskedUntilDelivered,
           NEW d \in Delegates, AtDelegate("process", d),
           UNCHANGED request,
           asked' \in [Delegates -> SUBSET Tofs],
           \A e \in Delegates : e # d => asked'[e] = asked[e] /\ answer'[e] = answer[e],
           asked'[d] = TofsToBeRemoved(d),
           pc' = "process" => idx' = d + 1
    PROVE  AskedUntilDelivered'
<1> USE AggregateAssumption DEF Delegates, AtDelegate
<1>1. op = "process" /\ pc = "process" /\ idx = d /\ request \in Requests
  BY DEF ControlInv, ProcessInv
<1> SUFFICES ASSUME NEW e \in Delegates, NEW t \in Tofs, Passed(e)'
             PROVE  t \in asked'[e] <=>
                        (t \in request.tofs /\ t \in Output[e][request.lang] /\ ~Delivered(t, e)')
  BY DEF AskedUntilDelivered
<1>2. ASSUME NEW f \in Delegates, f <= d
      PROVE  Delivered(t, f)' <=> Delivered(t, f)
  <2>1. \A g \in 1 .. f - 1 : asked'[g] = asked[g] /\ answer'[g] = answer[g]
    BY <1>2
  <2>2. QED
    BY <2>1 DEF Delivered
<1>3. CASE e = d
  <2>1. t \in asked'[d] <=> t \in resSpec /\ t \in Output[d][request.lang]
    BY DEF TofsToBeRemoved
  <2>2. t \in resSpec <=> t \in request.tofs /\ ~Delivered(t, d)
    BY <1>1 DEF ProcessInv
  <2>3. QED
    BY <1>2, <1>3, <2>1, <2>2
<1>4. CASE e < d
  <2>1. Passed(e)
    BY <1>1, <1>4 DEF Passed
  <2>2. asked'[e] = asked[e]
    BY <1>4
  <2>3. QED
    BY <1>2, <1>4, <2>1, <2>2 DEF AskedUntilDelivered
<1>5. CASE e > d
  <2>1. answer'[e] = "none"
    BY <1>1, <1>5 DEF ProcessInv
  <2>2. QED
    BY <1>5, <2>1 DEF Passed
<1>6. QED
  BY <1>3, <1>4, <1>5

LEMMA AskedStep ==
    ASSUME TypeOK, ControlInv, ProcessInv, AskedUntilDelivered, [Next]_vars
    PROVE  AskedUntilDelivered'
<1> USE AggregateAssumption DEF TypeOK, ControlInv, ProcessInv, AskedUntilDelivered, Passed, Delivered, Delegates, Broadcasts, controlVars, delegateVars, processVars, Loop, Return, Advance, Keep,
           LaunchDeInit, Begin, BeginCall, AtDelegate
<1>1. CASE CreateAnalysisEngine
  BY <1>1 DEF CreateAnalysisEngine
<1>2. CASE ReinitTypeSystem
  BY <1>2 DEF ReinitTypeSystem
<1>3. CASE Destroy
  BY <1>3 DEF Destroy
<1>4. CASE Delete
  BY <1>4 DEF Delete
<1>5. CASE \E req \in Requests : Process(req)
  BY <1>5 DEF Process
<1>6. CASE \E c \in Broadcasts : Broadcast(c)
  BY <1>6 DEF Broadcast
<1>7. CASE LaunchInit
  BY <1>7 DEF LaunchInit
<1>8. CASE LaunchInitFails
  BY <1>8 DEF LaunchInitFails
<1>9. CASE LaunchInitThrows
  BY <1>9, AskedFrame DEF LaunchInitThrows
<1>10. CASE InitializeCompleteResultSpec
  BY <1>10 DEF InitializeCompleteResultSpec
<1>11. CASE CheckCallingSequence
  BY <1>11 DEF CheckCallingSequence
<1>12. CASE \E d \in Delegates : ProcessSkips(d)
  <2>1. PICK d \in Delegates : ProcessSkips(d)
    BY <1>12
  <2>2. TofsToBeRemoved(d) = {} /\ UNCHANGED <<asked, answer, request>> /\ idx' = d + 1
    BY <2>1 DEF ProcessSkips, ShouldEngineBeCalled
  <2>3. asked[d] = {}
    BY <2>1 DEF ProcessSkips
  <2> HIDE DEF AskedUntilDelivered, ProcessInv, TypeOK, ControlInv, Delivered, Passed
  <2>4. AtDelegate("process", d) /\ asked \in [Delegates -> SUBSET Tofs]
    BY <2>1 DEF ProcessSkips, TypeOK
  <2>5. QED
    BY <2>2, <2>3, <2>4, AskedAdvance
<1>13. CASE \E d \in Delegates : ProcessHasNoText(d)
  BY <1>13, AskedFrame DEF ProcessHasNoText, Callable
<1>14. CASE \E d \in Delegates : ProcessCalls(d)
  <2>1. PICK d \in Delegates : ProcessCalls(d)
    BY <1>14
  <2>2. PICK out \in DelegateOutcomes(d) :
          /\ answer' = [answer EXCEPT ![d] = out]
          /\ IF out = "exc" THEN Return("exc") ELSE Advance
    BY <2>1 DEF ProcessCalls
  <2>3. /\ AtDelegate("process", d)
        /\ asked' = [asked EXCEPT ![d] = TofsToBeRemoved(d)]
        /\ UNCHANGED request
    BY <2>1 DEF ProcessCalls, Callable
  <2>4. pc' = "process" => idx' = d + 1
    BY <2>2, <2>3
  <2>5. \A e \in Delegates : e # d => asked'[e] = asked[e] /\ answer'[e] = answer[e]
    BY <2>2, <2>3
  <2>6. asked'[d] = TofsToBeRemoved(d) /\ asked' \in [Delegates -> SUBSET Tofs]
    BY <2>3 DEF TofsToBeRemoved
  <2> HIDE DEF AskedUntilDelivered, ProcessInv, TypeOK, ControlInv, Delivered, Passed, AtDelegate
  <2>7. QED
    BY <2>3, <2>4, <2>5, <2>6, AskedAdvance
<1>15. CASE LoopEnds
  BY <1>15 DEF LoopEnds
<1>16. CASE \E d \in Delegates : LaunchBroadcast(d)
  BY <1>16 DEF LaunchBroadcast
<1>17. CASE \E d \in Delegates : LaunchReinitTypeSystem(d)
  BY <1>17 DEF LaunchReinitTypeSystem, ReinitDelegate
<1>18. CASE \E d \in Delegates : LaunchReinitThrows(d)
  BY <1>18 DEF LaunchReinitThrows, ReinitDelegate
<1>19. CASE ReinitEnds
  BY <1>19 DEF ReinitEnds
<1>20. CASE CheckCallingSequenceDestroy
  BY <1>20 DEF CheckCallingSequenceDestroy
<1>21. CASE LaunchDeInitStep
  BY <1>21 DEF LaunchDeInitStep, DeInitPosition
<1>22. CASE FreeEntries
  BY <1>22 DEF FreeEntries
<1>23. CASE UseUndefined
  BY <1>23 DEF UseUndefined
<1>24. CASE UNCHANGED vars
  BY <1>24 DEF vars
<1>25. QED
  BY <1>1, <1>2, <1>3, <1>4, <1>5, <1>6, <1>7, <1>8, <1>9, <1>10, <1>11, <1>12,
     <1>13, <1>14, <1>15, <1>16, <1>17, <1>18, <1>19, <1>20, <1>21, <1>22, <1>23, <1>24
  DEF Next, Call, Step, LaunchProcessDocument, ProcessUsesFreed, LaunchReinitUsesFreed, FreesTwice


LEMMA ResultStep ==
    ASSUME TypeOK, ControlInv, ProcessInv, ResultIsOfTheDelegates, [Next]_vars
    PROVE  ResultIsOfTheDelegates'
<1> USE AggregateAssumption DEF TypeOK, ControlInv, ProcessInv, ResultIsOfTheDelegates, Delegates, Broadcasts, controlVars, delegateVars, processVars, Loop, Return, Advance, Keep,
           LaunchDeInit, Begin, BeginCall, AtDelegate
<1>1. CASE CreateAnalysisEngine
  BY <1>1 DEF CreateAnalysisEngine
<1>2. CASE ReinitTypeSystem
  BY <1>2 DEF ReinitTypeSystem
<1>3. CASE Destroy
  BY <1>3 DEF Destroy
<1>4. CASE Delete
  BY <1>4 DEF Delete
<1>5. CASE \E req \in Requests : Process(req)
  BY <1>5 DEF Process
<1>6. CASE \E c \in Broadcasts : Broadcast(c)
  BY <1>6 DEF Broadcast
<1>7. CASE LaunchInit
  BY <1>7 DEF LaunchInit
<1>8. CASE LaunchInitFails
  BY <1>8 DEF LaunchInitFails
<1>9. CASE LaunchInitThrows
  BY <1>9 DEF LaunchInitThrows
<1>10. CASE InitializeCompleteResultSpec
  BY <1>10 DEF InitializeCompleteResultSpec
<1>11. CASE CheckCallingSequence
  BY <1>11 DEF CheckCallingSequence
<1>12. CASE \E d \in Delegates : ProcessSkips(d)
  BY <1>12 DEF ProcessSkips
<1>13. CASE \E d \in Delegates : ProcessHasNoText(d)
  BY <1>13 DEF ProcessHasNoText, Callable
<1>14. CASE \E d \in Delegates : ProcessCalls(d)
  BY <1>14 DEF ProcessCalls, Callable
<1>15. CASE LoopEnds
  BY <1>15 DEF LoopEnds
<1>16. CASE \E d \in Delegates : LaunchBroadcast(d)
  BY <1>16 DEF LaunchBroadcast
<1>17. CASE \E d \in Delegates : LaunchReinitTypeSystem(d)
  BY <1>17 DEF LaunchReinitTypeSystem, ReinitDelegate
<1>18. CASE \E d \in Delegates : LaunchReinitThrows(d)
  BY <1>18 DEF LaunchReinitThrows, ReinitDelegate
<1>19. CASE ReinitEnds
  BY <1>19 DEF ReinitEnds
<1>20. CASE CheckCallingSequenceDestroy
  BY <1>20 DEF CheckCallingSequenceDestroy
<1>21. CASE LaunchDeInitStep
  BY <1>21 DEF LaunchDeInitStep, DeInitPosition
<1>22. CASE FreeEntries
  BY <1>22 DEF FreeEntries
<1>23. CASE UseUndefined
  BY <1>23 DEF UseUndefined
<1>24. CASE UNCHANGED vars
  BY <1>24 DEF vars
<1>25. QED
  BY <1>1, <1>2, <1>3, <1>4, <1>5, <1>6, <1>7, <1>8, <1>9, <1>10, <1>11, <1>12,
     <1>13, <1>14, <1>15, <1>16, <1>17, <1>18, <1>19, <1>20, <1>21, <1>22, <1>23, <1>24
  DEF Next, Call, Step, LaunchProcessDocument, ProcessUsesFreed, LaunchReinitUsesFreed, FreesTwice

-----------------------------------------------------------------------------
(* The properties *)

LEMMA InitialState ==
    ASSUME Init
    PROVE  SlotInv /\ RefusalInv /\ ProcessInv /\ AskedUntilDelivered /\ ResultIsOfTheDelegates
<1> USE AggregateAssumption DEF Init, Delegates
<1>1. SlotInv /\ RefusalInv
  BY DEF SlotInv, RefusalInv
<1>2. ProcessInv /\ ResultIsOfTheDelegates
  BY DEF ProcessInv, ResultIsOfTheDelegates
<1>3. AskedUntilDelivered
  BY DEF AskedUntilDelivered, Passed
<1>4. QED
  BY <1>1, <1>2, <1>3

(* What holds of the delegates between and during calls. *)
THEOREM DelegatesAreKept == Spec => [](SlotInv /\ RefusalInv)
<1>1. QED
  BY InitialState, SlotStep, RefusalStep, TypeCorrect, PTL DEF Spec

(* Whatever fails on the way, deleting the aggregate has destroyed every annotator except *)
(* those of a delegate that launchInit() created and lost to an exception.                *)
THEOREM EverythingIsReleased == Spec => []ReleasedWithTheEngine
<1>1. TypeOK /\ ControlInv /\ SlotInv => ReleasedWithTheEngine
  BY AggregateAssumption DEF TypeOK, ControlInv, SlotInv, ReleasedWithTheEngine, Delegates
<1>2. QED
  BY <1>1, TypeCorrect, DelegatesAreKept, PTL

(* No freed or missing object is used unless a capability container was refused before. *)
THEOREM OnlyRefusalIsUndefined == Spec => []UndefinedAfterRefusalOnly
<1>1. RefusalInv => UndefinedAfterRefusalOnly
  BY DEF RefusalInv, UndefinedAfterRefusalOnly
<1>2. QED
  BY <1>1, DelegatesAreKept, PTL

(* Whatever fails, and whenever, the other delegates are destroyed and nothing freed is used, *)
(* but for the refusal of a capability container.                                             *)
THEOREM FailuresAreContained == Spec => []FailureIsContained
<1>1. ReleasedWithTheEngine /\ UndefinedAfterRefusalOnly => FailureIsContained
  BY DEF FailureIsContained
<1>2. QED
  BY <1>1, EverythingIsReleased, OnlyRefusalIsUndefined, PTL

LEMMA ProcessInvariant == Spec => []ProcessInv
<1>1. QED
  BY InitialState, ProcessStep, TypeCorrect, PTL DEF Spec

(* For every flow, capability table and result specification, a delegate is asked for *)
(* exactly what is wanted of it and nobody before it has delivered.                   *)
THEOREM AskedExactly == Spec => []AskedUntilDelivered
<1>1. QED
  BY InitialState, AskedStep, ProcessInvariant, TypeCorrect, PTL DEF Spec

(* The result of process() agrees with what the delegates returned. *)
THEOREM ResultIsTrue == Spec => []ResultIsOfTheDelegates
<1>1. QED
  BY InitialState, ResultStep, ProcessInvariant, TypeCorrect, PTL DEF Spec

LEMMA TeardownStep ==
    ASSUME TypeOK, ControlInv, SlotInv, [Next]_vars,
           NEW d \in Delegates, pc = "deinit", annotators[d] = "live", annotators'[d] = "destroyed"
    PROVE  \A e \in d + 1 .. entries : annotators[e] # "live"
<1> USE AggregateAssumption DEF TypeOK, Delegates
<1>1. annotators' # annotators
  OBVIOUS
<1>2. LaunchDeInitStep
  BY <1>1 DEF Next, Call, Step, LaunchProcessDocument, ProcessUsesFreed, LaunchReinitUsesFreed, FreesTwice,
     CreateAnalysisEngine, ReinitTypeSystem, Destroy, Delete, Process, Broadcast, Begin, BeginCall,
     LaunchInit, LaunchInitFails, LaunchInitThrows, InitializeCompleteResultSpec, CheckCallingSequence,
     ProcessSkips, ProcessHasNoText, ProcessCalls, Callable, LoopEnds, LaunchBroadcast, AtDelegate,
     LaunchReinitTypeSystem, LaunchReinitThrows, ReinitEnds, CheckCallingSequenceDestroy, FreeEntries,
     UseUndefined, vars, delegateVars
<1>3. d = idx
  BY <1>2 DEF LaunchDeInitStep, DeInitPosition
<1>4. QED
  BY <1>3 DEF SlotInv

(* launchDeInit() destroys the delegates in the reverse order of their creation. *)
THEOREM TeardownIsInReverse == Spec => TornDownInReverse
<1>1. TypeOK /\ ControlInv /\ SlotInv /\ [Next]_vars =>
        [\A d \in Delegates :
          (pc = "deinit" /\ annotators[d] = "live" /\ annotators'[d] = "destroyed")
              => \A e \in d + 1 .. entries : annotators[e] # "live"]_vars
  BY TeardownStep
<1>2. QED
  BY <1>1, TypeCorrect, DelegatesAreKept, PTL DEF Spec, TornDownInReverse

-----------------------------------------------------------------------------
(* Refinement *)


LEMMA ContractStep ==
    ASSUME TypeOK, ControlInv, [Next]_vars
    PROVE  [Contract!Next]_(Contract!contractVars)
<1> USE AggregateAssumption DEF TypeOK, ControlInv, ContractState, Contract!Next, Contract!contractVars, Contract!Calls, Contract!UseCalls,
           Contract!Begin, Contract!Return, Contract!EndCreate, Contract!EndUse, Contract!Outcomes,
           Contract!EndReinitTypeSystem, Contract!EndDestroy, Contract!EndDelete, Delegates, Broadcasts, controlVars, delegateVars, processVars, Loop, Return, Advance, Keep,
           LaunchDeInit, Begin, BeginCall, AtDelegate
<1>1. CASE CreateAnalysisEngine
  BY <1>1 DEF CreateAnalysisEngine
<1>2. CASE ReinitTypeSystem
  BY <1>2 DEF ReinitTypeSystem
<1>3. CASE Destroy
  BY <1>3 DEF Destroy
<1>4. CASE Delete
  BY <1>4 DEF Delete
<1>5. CASE \E req \in Requests : Process(req)
  BY <1>5 DEF Process
<1>6. CASE \E c \in Broadcasts : Broadcast(c)
  BY <1>6 DEF Broadcast
<1>7. CASE LaunchInit
  BY <1>7 DEF LaunchInit
<1>8. CASE LaunchInitFails
  BY <1>8 DEF LaunchInitFails
<1>9. CASE LaunchInitThrows
  BY <1>9 DEF LaunchInitThrows
<1>10. CASE InitializeCompleteResultSpec
  BY <1>10 DEF InitializeCompleteResultSpec
<1>11. CASE CheckCallingSequence
  BY <1>11 DEF CheckCallingSequence
<1>12. CASE \E d \in Delegates : ProcessSkips(d)
  BY <1>12 DEF ProcessSkips
<1>13. CASE \E d \in Delegates : ProcessHasNoText(d)
  BY <1>13 DEF ProcessHasNoText, Callable
<1>14. CASE \E d \in Delegates : ProcessCalls(d)
  BY <1>14 DEF ProcessCalls, Callable
<1>15. CASE LoopEnds
  BY <1>15 DEF LoopEnds
<1>16. CASE \E d \in Delegates : LaunchBroadcast(d)
  BY <1>16 DEF LaunchBroadcast
<1>17. CASE \E d \in Delegates : LaunchReinitTypeSystem(d)
  BY <1>17 DEF LaunchReinitTypeSystem, ReinitDelegate
<1>18. CASE \E d \in Delegates : LaunchReinitThrows(d)
  BY <1>18 DEF LaunchReinitThrows, ReinitDelegate
<1>19. CASE ReinitEnds
  BY <1>19 DEF ReinitEnds
<1>20. CASE CheckCallingSequenceDestroy
  BY <1>20 DEF CheckCallingSequenceDestroy
<1>21. CASE LaunchDeInitStep
  BY <1>21 DEF LaunchDeInitStep, DeInitPosition
<1>22. CASE FreeEntries
  BY <1>22 DEF FreeEntries
<1>23. CASE UseUndefined
  BY <1>23 DEF UseUndefined
<1>24. CASE UNCHANGED vars
  BY <1>24 DEF vars
<1>25. QED
  BY <1>1, <1>2, <1>3, <1>4, <1>5, <1>6, <1>7, <1>8, <1>9, <1>10, <1>11, <1>12,
     <1>13, <1>14, <1>15, <1>16, <1>17, <1>18, <1>19, <1>20, <1>21, <1>22, <1>23, <1>24
  DEF Next, Call, Step, LaunchProcessDocument, ProcessUsesFreed, LaunchReinitUsesFreed, FreesTwice

(* The aggregate implements the contract of an engine, given that its delegates do. *)
THEOREM ContractIsKept == Spec => KeepsContract
<1>1. Init => Contract!Init
  BY DEF Init, Contract!Init, ContractState
<1>2. QED
  BY <1>1, ContractStep, TypeCorrect, PTL DEF Spec, KeepsContract, Contract!Spec

=============================================================================
