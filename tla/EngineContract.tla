---------------------------- MODULE EngineContract ----------------------------
(***************************************************************************)
(* What the owner of an uima::AnalysisEngine may rely on, whichever engine *)
(* it is: the calling sequence that EngineState records, which calls are   *)
(* refused in which state, and what a call may return.  An aggregate both  *)
(* offers this contract and relies on it for its delegates.                *)
(*                                                                         *)
(* Calls are synchronous: an engine serves one call at a time.             *)
(***************************************************************************)

VARIABLES
    state,      \* iv_state, "deleted" once the object is gone
    call,       \* the call in progress, or "none"
    result      \* what the last call returned: an error id or an exception

contractVars == <<state, call, result>>

\* Calls that check the calling sequence and leave the state alone.
UseCalls == {"process", "reconfigure", "batchProcessComplete", "collectionProcessComplete"}
Calls == UseCalls \cup {"create", "reinitTypeSystem", "destroy", "delete"}

\* process() lets an exception of an annotator through, the others turn it into an error id.
Outcomes(c) == IF c = "process" THEN {"ok", "err", "exc"} ELSE {"ok", "err"}

Init ==
    /\ state = "readyForInit"
    /\ call = "none"
    /\ result = "none"

Begin(c) ==
    /\ call = "none"
    /\ IF c = "create" THEN state = "readyForInit" ELSE state \in {"readyForProcess", "readyForDeletion"}
    /\ call' = c
    /\ state' = IF c = "delete" THEN "readyForDeletion" ELSE state   \* destroyIfNeeded()
    /\ UNCHANGED result

Return(s, r) ==
    /\ call' = "none"
    /\ state' = s
    /\ result' = r

\* The owner gets an initialized engine or none at all.
EndCreate ==
    /\ call = "create"
    /\ \/ Return("readyForProcess", "ok")
       \/ Return("deleted", "null")

EndUse ==
    /\ call \in UseCalls
    /\ \E r \in (IF state = "readyForProcess" THEN Outcomes(call) ELSE {"invalid"}) : Return(state, r)

EndReinitTypeSystem ==
    /\ call = "reinitTypeSystem"
    /\ \/ \E r \in {"ok", "err"} : Return(state, r)
       \/ state = "readyForProcess" /\ Return("readyForDeletion", "err")

EndDestroy ==
    /\ call = "destroy"
    /\ IF state = "readyForProcess"
       THEN \E r \in {"ok", "err"} : Return("readyForDeletion", r)
       ELSE Return(state, "invalid")

EndDelete ==
    /\ call = "delete"
    /\ Return("deleted", "none")

Next ==
    \/ \E c \in Calls : Begin(c)
    \/ EndCreate \/ EndUse \/ EndReinitTypeSystem \/ EndDestroy \/ EndDelete

Spec == Init /\ [][Next]_contractVars
=============================================================================
