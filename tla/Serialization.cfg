CONSTANTS
    Features <- MCFeatures
    RangeOf <- MCRangeOf
    Multi = {"shared", "chain"}
    Foreign = {"Strange", "odd"}
    Senders <- MCSenders
    Documents <- MCDocuments
    Annotations = {"Annotation", "DocumentAnnotation"}
    ByteRange = 4
    BinarySenders <- MCBinarySenders
    Receivers <- MCReceivers
    Versions = {1, 2}
    Builtin <- MCBuiltin
    StringType = 3
    Final = {2, 3}
    Inputs <- MCInputs
SPECIFICATION MCSpec
INVARIANTS XmiReadsBack XmiReplies XcasReadsBack BinaryReadsBack TypeSystemArrives
CHECK_DEADLOCK FALSE
