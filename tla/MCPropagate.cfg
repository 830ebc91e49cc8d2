SPECIFICATION Spec
CONSTANTS
  a = a
  b = b
  T = T
  S = S
  Text <- MCText
  Empty = Empty
  NoTs = NoTs
  Time = {0, 1}
  Clock = {0, 1}
  EdgeInputs <- ClockEdges
  NodeInputs <- NoNodes
  ErrorPolicy = {"propagate"}
  MaxEdgeId = 2
  MaxEventId = 6
INVARIANTS
  LogOK
  DiffsAccount
  CommitsHoldNoResidue
  LogRebuildsEdges
