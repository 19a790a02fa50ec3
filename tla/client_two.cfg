SPECIFICATION Spec
CONSTANTS
  d1 = d1  d2 = d2  s1 = s1  s2 = s2  c1 = c1  c2 = c2  good = good  bad = bad
  NoPoint = NoPoint
  NoContent = NoContent
  DropPoints = {d1, d2}
  SubIds = {s1}
  Commands = {c1, c2}
  Contents = {good, bad}
  Readable = {good}
  MaxFaults = 0
CHECK_DEADLOCK FALSE
SYMMETRY Interchangeable
INVARIANTS TakenIsInstalled ReceiptsAreTrue
PROPERTIES KeyKeptWhileOpen
