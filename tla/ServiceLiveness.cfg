SPECIFICATION FairSpec
CONSTANTS
    NumInstances = 1
    FromJava = FALSE
    ErrorThreshold = 2
    TerminateOnCPC = TRUE
    SpuriousWakeups = FALSE
    MaxRequests = 2
    MaxBreaks = 1
    MaxSignals = 1
PROPERTIES StopCompletes
CHECK_DEADLOCK FALSE
