SPECIFICATION Spec
CONSTANTS
  Nodes <- MCNodes
  Scans <- MCScans
  Jobs <- MCJobs
  MaxEdges = 4
  MaxHops = 3
INVARIANTS
  TypeOK
  HopsExact
  PathShortest
PROPERTY Terminates
CHECK_DEADLOCK FALSE
