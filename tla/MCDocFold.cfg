SPECIFICATION Spec
CONSTANTS
  a = a
  b = b
  T = T
  S = S
  Text <- MCText
  Empty = Empty
  NoTs = NoTs
  Time = {0, 1}
  Clock = {0}
  EdgeInputs <- MixedEdges
  NodeInputs <- MixedNodes
  ErrorPolicy = {"tolerate"}
  MaxEdgeId = 2
  MaxEventId = 3
INVARIANT ReplayRebuildsEdges
