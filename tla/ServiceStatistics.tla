------------------------- MODULE ServiceStatistics -------------------------
(***************************************************************************)
(* The times the Monitor of the service keeps for the controller that asks *)
(* for them: deployCppService.hpp, class Monitor, and what a listener      *)
(* measures for it in ActiveMQAnalysisEngineService.cpp.  The listener that *)
(* answers getMeta is left out, as the code does.  RequestHandling is about *)
(* what is counted; here the clock runs.                                   *)
(***************************************************************************)
EXTENDS Integers

CONSTANTS
    Instances,        \* the listeners that work on CASes
    Milli,            \* ticks of the clock in a millisecond
    MaxTime,          \* bound: when the clock stops
    MaxServed         \* bound: the requests of a listener between two calls of reset()

ASSUME StatisticsAssumption == Milli \in Nat \ {0} /\ MaxTime \in Nat /\ MaxServed \in Nat

VARIABLES
    mNow,         \* the clock
    mStartTime,   \* iv_startTime
    mBusy,        \* the listeners with a request
    mLast,        \* iv_timeLastRequestCompleted of a listener, 0 before
    mIdleTimes,   \* iv_idleTimes, in milliseconds
    mStarted,     \* iv_processingStarted: 0 when done, Never when it has no entry
    mCompleted,   \* iv_processingComplete, 0 when it has no entry
    mIdled,       \* history: the ticks a listener was without a request
    mRequests,    \* history: the requests of a listener
    mBlurred      \* history: reset() was called, or a request came at once

mVars == <<mNow, mStartTime, mBusy, mLast, mIdleTimes, mStarted, mCompleted, mIdled, mRequests, mBlurred>>

Never == -1
Everyone(v) == [l \in Instances |-> v]

MInit ==
    /\ mNow = 1 /\ mStartTime = 1 /\ mBusy = {} /\ mBlurred = FALSE
    /\ mLast = Everyone(0) /\ mIdleTimes = Everyone(0)
    /\ mStarted = Everyone(Never) /\ mCompleted = Everyone(0)
    /\ mIdled = Everyone(0) /\ mRequests = Everyone(0)

Tick ==
    /\ mNow < MaxTime
    /\ mNow' = mNow + 1
    /\ mIdled' = [l \in Instances |-> IF l \in mBusy THEN mIdled[l] ELSE mIdled[l] + 1]
    /\ UNCHANGED <<mStartTime, mBusy, mLast, mIdleTimes, mStarted, mCompleted, mRequests, mBlurred>>

\* handleRequest(): since the last request, or since the service was started.
TimeIdle(l) == mNow - IF mLast[l] # 0 THEN mLast[l] ELSE mStartTime

ProcessingStarted(l) ==
    /\ l \notin mBusy /\ mRequests[l] < MaxServed
    /\ mBusy' = mBusy \cup {l}
    /\ mStarted' = [mStarted EXCEPT ![l] = mNow]
    /\ mIdleTimes' = [mIdleTimes EXCEPT ![l] = IF TimeIdle(l) > 0 THEN @ + TimeIdle(l) \div Milli ELSE 0]
    /\ mRequests' = [mRequests EXCEPT ![l] = @ + 1]
    /\ mBlurred' = (mBlurred \/ TimeIdle(l) < Milli)
    /\ UNCHANGED <<mNow, mStartTime, mLast, mCompleted, mIdled>>

\* processingComplete(), and the listener's own note of the time after it.
ProcessingComplete(l) ==
    /\ l \in mBusy
    /\ mBusy' = mBusy \ {l}
    /\ mStarted' = [mStarted EXCEPT ![l] = 0]
    /\ mCompleted' = [mCompleted EXCEPT ![l] = mNow]
    /\ mLast' = [mLast EXCEPT ![l] = mNow]
    /\ UNCHANGED <<mNow, mStartTime, mIdleTimes, mIdled, mRequests, mBlurred>>

\* reset(): the listeners keep their notes and their requests.
ResetStatistics ==
    /\ mStartTime' = mNow
    /\ mStarted' = Everyone(Never) /\ mCompleted' = Everyone(0) /\ mIdleTimes' = Everyone(0)
    /\ mIdled' = Everyone(0) /\ mRequests' = Everyone(0)
    /\ mBlurred' = TRUE
    /\ UNCHANGED <<mNow, mBusy, mLast>>

MNext ==
    \/ Tick \/ ResetStatistics
    \/ \E l \in Instances : ProcessingStarted(l) \/ ProcessingComplete(l)

\* getStatistics(): what an instance adds to IDLETIME.  One that has none so far was idle since
\* the service was started; one without a request is idle since its last.
Recorded(l) == IF mIdleTimes[l] = 0 THEN (mNow - mStartTime) \div Milli ELSE mIdleTimes[l]
Current(l) ==
    IF mStarted[l] = 0 /\ mCompleted[l] > 0 THEN (mNow - mCompleted[l]) \div Milli ELSE 0
IdleTime(l) == Recorded(l) + Current(l)

-----------------------------------------------------------------------------
(* Properties *)

\* Whenever the controller asks, the idle time it is told of a listener is the time that one was
\* without a request, but for less than a millisecond each time, as long as nothing was reset and
\* no request came within a millisecond of the one before (Monitor::getStatistics()).
IdleIsMeasured ==
    ~mBlurred => \A l \in Instances :
        mIdled[l] - IdleTime(l) * Milli \in 0 .. (Milli - 1) * (mRequests[l] + 1)

\* What SERVICEUPTIME beside it suggests and does not hold after a reset() or a prompt request.
IdleWithinUptime == \A l \in Instances : IdleTime(l) * Milli <= mNow - mStartTime
=============================================================================
