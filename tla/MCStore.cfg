SPECIFICATION Spec
CONSTANTS
  a = a
  b = b
  T = T
  S = S
  Text <- MCText
  Empty = Empty
  NoTs = NoTs
  Time = {0, 1}
  Clock = {0}
  EdgeInputs <- MixedEdges
  NodeInputs <- MixedNodes
  ErrorPolicy = {"tolerate", "propagate"}
  MaxEdgeId = 2
  MaxEventId = 7
PROPERTY ImplementsTemporalGraph
INVARIANTS
  TypeOK
  StringsOK
  NodesOK
  EdgesOK
  IndexesOK
  ReadsExact
  VerifyAccepts
  LostRowsReported
PROPERTY
  HistoryPreserved
