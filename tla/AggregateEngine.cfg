CONSTANTS
    NumDelegates = 3
    Primitive <- MCPrimitive
    SofaAware <- MCSofaAware
    Tofs <- MCTofs
    Languages <- MCLanguages
    Output <- MCOutput
    FixedFlow = FALSE
    MaxCalls = 3
SPECIFICATION Spec
INVARIANTS FailureIsContained AskedUntilDelivered ResultIsOfTheDelegates
PROPERTIES TornDownInReverse CallsReturn KeepsContract
CHECK_DEADLOCK FALSE
