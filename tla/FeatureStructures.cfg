CONSTANTS
  Types <- MCTypes
  Features <- MCFeatures
  Supertypes <- MCSupertypes
  FeaturesOf <- MCFeaturesOf
  RangeOf <- MCRange
  Strings <- MCStrings
  Handles <- MCHandles
  h1 = h1
  h2 = h2
  Numbers = {3}
  HeadValues = {1, 2}
  Sizes = {0, 2}
  Careless = FALSE
  MaxCells = 9
  MaxSide = 17
  MaxChars = 6
  MaxResets = 1
  MaxWritten = 2
  MaxObjectCells = 8
  FS <- MCFS
  Indexes <- MCIndexes
  Subsumed <- MCSubsumed
  FSType <- MCFSType
  Key <- MCKey
  Number <- MCNumber
  Link <- MCLink
  BeginPosition <- MCBeginPosition
  EndPosition <- MCEndPosition
  HasLink = {"mid", "leaf"}
  TypeSets <- MCTypeSets
  Filters <- MCFilters
INIT MCInit
NEXT MCNext
SYMMETRY Symmetric
CHECK_DEADLOCK FALSE
INVARIANTS HeapIsRead IndexesRead
PROPERTIES ListsAreSequences IteratorsWalk
