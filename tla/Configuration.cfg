CONSTANTS
    Documents <- MCDocuments
    EngineFiles <- MCEngineFiles
    TypeFiles <- MCTypeFiles
    IndexFiles <- MCIndexFiles
    PriorityFiles <- MCPriorityFiles
    PathOrder <- MCPathOrder
    Descriptions <- MCDescriptions
    DefaultTextSofa = "_InitialView"
    LocalNames = {"x"}
    Groups <- MCGroups
    Pairs <- MCPairs
    MaxBuilds = 2
    MaxAssigns = 1
    CapabilityLists <- MCCapabilityLists
    Tofs <- MCTofs
    Languages <- MCDocumentLanguages
    ValidLanguages <- MCDocumentLanguages
    Upper <- MCUpper
    Lower <- MCLower
    Digits <- MCDigits
    Spaces = {1}
    Delims = {2}
    Surrogates = {6, 7}
    Letters = {4, 5, 9}
    LetterX = 9
    Dash = 13
    Underscore = 14
    Question = 15
    Slash = 16
    Dot = 17
    Percent = 18
    Inputs <- MCInputs
    Texts <- MCTexts
SPECIFICATION Spec
INVARIANTS DescriptionsServe AssignmentIsRead PoolIsExact CapabilitiesServe TextUtilitiesAgree
PROPERTIES RefusalChangesNothing
CHECK_DEADLOCK FALSE
