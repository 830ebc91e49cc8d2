SPECIFICATION Spec
CONSTANTS
  a = a
  b = b
  T = T
  S = S
  Text <- MCText
  Empty = Empty
  NoTs = NoTs
  Time = {0, 1, 2}
  Clock = {0}
  EdgeInputs <- ChainEdges
  NodeInputs <- NoNodes
  ErrorPolicy = {"tolerate"}
  MaxEdgeId = 3
  MaxEventId = 8
INVARIANTS
  RevisionsOK
  ChainsExclusive
  LogExplainsState
