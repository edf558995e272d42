SPECIFICATION MCSpec
CONSTANTS
    a1 = a1  a2 = a2  j1 = j1  j2 = j2   i1 = i1  i2 = i2  e1 = e1  e2 = e2
    MaxThreadCalls = 3
    ScriptAnnotator <- MCAnnotators
    Scripts <- MCScripts
    CountModulus = 16
    PoolSize = 2
    BridgeStrings <- MCBridgeStrings
    MaxVersions = 2
    MaxSegments = 2
    JavaEngines <- MCJavaEngines
    MaxReinits = 1
    DriverInstances <- MCInstances
    DriverFiles <- MCFiles
    MaxInput = 2
    MaxRuns = 2
    MaxOutputs = 1
    Engines <- MCEngines
    Libraries = {"a"}
    BadLibraries <- MCBadLibraries
    HandlerMaps <- MCHandlerMaps
    MaxManagers = 2
    Elements = 2
    HeapCells = 2
    Listeners = {"annotator", "getMeta"}
    Commands <- MCCommands
    Requests <- MCRequests
    Brokers = {"b1", "b2"}
    OwnBroker = "b2"
    MaxRequests = 3
    Instances = {"annotator"}
    Milli = 2
    MaxTime = 8
    MaxServed = 2
    CommandLines <- MCCommandLines
    NumberOf <- MCNumbers
    CommandLength <- MCCommandLength
    BufferSize = 16
    MaxCommands = 2
    MaxLost = 2
    MaxViews = 3
    MaxFamilies = 2
INVARIANTS OneAtATime UsedWhileItLives JavaGetsItsDocument InputIsReadWhole RequestsAreAnswered ControllerIsServed
PROPERTIES ThreadCallsReturn
CHECK_DEADLOCK FALSE
