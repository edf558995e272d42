SPECIFICATION Spec
CONSTANTS
    NumInstances = 2
    FromJava = TRUE
    ErrorThreshold = 1
    TerminateOnCPC = TRUE
    SpuriousWakeups = TRUE
    MaxRequests = 1
    MaxBreaks = 1
    MaxSignals = 0
INVARIANTS OrderlyStop NoRequestAbandoned NoPrematureShutdown NoCrashWithoutBreak
CHECK_DEADLOCK FALSE
