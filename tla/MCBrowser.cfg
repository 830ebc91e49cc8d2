\* Every key in every order on the demo's graph, however far its seeding got.
SPECIFICATION Spec
CONSTANTS
  Text <- MCText
  Empty = ""
  NoTs = NoTs
  Time <- MCTime
  FirstTs <- MCFirst
  LastTs = 10
  Ticks = {6, 10}
  Day = 1
  Week = 3
  Month = 5
  Typed = {"q", "n", "x", " "}
  MaxInput = 1
  Accepted <- MCAccepted
INVARIANTS
  TypeOK
  PaneExact
  OutputAnswers
  OneAtATime
PROPERTY
  EscLeaves
CHECK_DEADLOCK FALSE
