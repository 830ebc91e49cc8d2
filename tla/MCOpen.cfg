\* Two processes, any file at the path, imports of up to three edge ids.
SPECIFICATION Spec
CONSTANTS
  Proc = {p, q}
  NoProc = NoProc
  Starters = {p}
  FirstFiles = {"absent", "blank", "alien", "container", "newer", "chrona"}
  a = a
  b = b
  knows = knows
  hr = hr
  Text <- MCText
  Empty = Empty
  NoTs = NoTs
  Time = {0, 1}
  Clock = {0, 1}
  MaxEdges = 3
  Lines <- MCLines
  Garbled = Garbled
  Mistyped = Mistyped
INVARIANTS
  TypeOK
  StoreConsistent
  NamesKept
  FactsExact
  CommittedStaysReadable
