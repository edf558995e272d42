SPECIFICATION Spec
CONSTANTS
    Types <- MCTypes
    Subsumed <- MCSubsumed
    Indexes <- MCIndexes
    IndexType <- MCIndexType
    Kind <- MCKind
    FS <- MCFS
    TypeOf <- MCTypeOf
    Key <- MCKey
    MaxLen = 2
INVARIANTS CacheCurrent
