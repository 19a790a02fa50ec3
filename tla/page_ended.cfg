SPECIFICATION Spec
CONSTANTS
  d1 = d1  s1 = s1  s2 = s2  s3 = s3  x1 = x1  x2 = x2  x3 = x3  b1 = b1  b2 = b2
  NoContent = NoContent
  NoBatch = NoBatch
  NoId = NoId
  Here = d1
  DropPoints = {d1}
  SubIds = {s1, s2, s3}
  Contents = {x1, x2, x3}
  Batches = {b1, b2}
  Slots = {1, 2}
  MaxFaults = 2
CHECK_DEADLOCK FALSE
SYMMETRY Interchangeable
PROPERTIES UsableWhileOpen
