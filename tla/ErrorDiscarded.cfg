CONSTANTS
    NumDelegates = 3
    Primitive <- MCPrimitive
    SofaAware <- MCSofaAware
    Tofs <- MCTofs
    Languages <- MCLanguages
    Output <- MCOutput
    FixedFlow = FALSE
    MaxCalls = 2
SPECIFICATION Spec
INVARIANTS AnnotatorErrorsReported
CHECK_DEADLOCK FALSE
