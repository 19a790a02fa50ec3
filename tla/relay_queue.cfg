SPECIFICATION Spec
CONSTANTS
  d1 = d1  d2 = d2  s1 = s1  s2 = s2  s3 = s3  u1 = u1  u2 = u2
  r1 = r1  r2 = r2  r3 = r3  loop = loop  cli = cli
  NoOne = NoOne
  Loop = loop
  DropPoints = {d1}
  SubIds = {s1, s2, s3}
  Uploads = {u1, u2}
  Requests = {}
  Cleaners = {loop}
  MaxPending = 2
  MaxPendingBytes = 2
  MaxActive = 1
  MaxFaults = 0
  SizeOf <- Unequal
  SweepIsolated = TRUE
  HandlersInTime = TRUE
INVARIANTS PendingWithinQuota ReadyBytesWithinQuota
