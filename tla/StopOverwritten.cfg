SPECIFICATION FairSpec
CONSTANTS
    NumInstances = 1
    FromJava = TRUE
    ErrorThreshold = 1
    TerminateOnCPC = FALSE
    SpuriousWakeups = FALSE
    MaxRequests = 0
    MaxBreaks = 0
    MaxSignals = 0
PROPERTIES StopRequestObeyed
CHECK_DEADLOCK FALSE
