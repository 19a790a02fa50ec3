SPECIFICATION FairSpec
CONSTANTS
  d1 = d1  d2 = d2  s1 = s1  s2 = s2  c1 = c1  c2 = c2  good = good  bad = bad
  NoPoint = NoPoint
  NoContent = NoContent
  DropPoints = {d1}
  SubIds = {s1, s2}
  Commands = {c1}
  Contents = {good, bad}
  Readable = {good}
  MaxFaults = 2
CHECK_DEADLOCK FALSE
INVARIANTS TypeOK TakenIsInstalled ReceiptsAreTrue TakenIsRecorded
PROPERTIES KeyKeptWhileOpen ReadyIsProcessedUnlessBlocked EndedKeyIsDeleted
