SPECIFICATION Spec
CONSTANTS
  alice = alice
  bob = bob
  carol = carol
  dave = dave
  ghost = ghost
  zoe = zoe
  mangled = mangled
  likes = likes
  knows = knows
  Text <- MCText
  Empty = Empty
  None = None
  NoTs = NoTs
  Garbled = Garbled
  Time = {0, 1}
  Now = 1
  Never = 2
  MaxU8 = 3
  MaxU32 = 5
  MaxU64 = 9
  Upper <- MCUpper
  Latin1 <- MCLatin1
  Order <- MCOrder
  Confidence <- MCConfidence
  ObservedAt <- MCObservedAt
  AsF32 <- MCAsF32
  NodeIds <- MCNodeIds
  Suites <- MCSuites
INVARIANTS
  ListsExact
  HopsNearestFirst
  PathsExact
  ErrorsAreTheCallers
  ParsedAsWritten
  WrittenIsParsed
CHECK_DEADLOCK FALSE
