SPECIFICATION FairSpec
CONSTANTS
  d1 = d1  d2 = d2  s1 = s1  s2 = s2  s3 = s3  u1 = u1  u2 = u2
  r1 = r1  r2 = r2  r3 = r3  loop = loop  cli = cli
  NoOne = NoOne
  Loop = loop
  DropPoints = {d1}
  SubIds = {s1}
  Uploads = {u1}
  Requests = {r1}
  Cleaners = {loop}
  MaxPending = 1
  MaxPendingBytes = 1
  MaxActive = 1
  MaxFaults = 1
  SizeOf <- OneByte
  SweepIsolated = TRUE
  HandlersInTime = TRUE
PROPERTIES ReceivingSettles AcknowledgedIsErased
