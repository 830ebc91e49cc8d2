\* Two processes that both start before there is a file.
SPECIFICATION Spec
CONSTANTS
  Proc = {p, q}
  NoProc = NoProc
  Starters = {p, q}
  FirstFiles = {"absent"}
  a = a
  b = b
  knows = knows
  hr = hr
  Text <- MCText
  Empty = Empty
  NoTs = NoTs
  Time = {0, 1}
  Clock = {0, 1}
  MaxEdges = 2
  Lines <- MCLines
  Garbled = Garbled
  Mistyped = Mistyped
INVARIANT CleanMeansCounters
