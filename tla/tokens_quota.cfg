SPECIFICATION Spec
CONSTANTS
  Labels = {desktop, laptop}
  Secrets = {x1, x2}
  Operators = {o1}
  Creators = {k1, k2}
  DropPoints = {p1, p2, p3}
  Limits = {1}
  Default = Default
  DefaultMaxActive = 2
SYMMETRY Interchangeable
INVARIANTS TokensTypeOK CreatedIsOwn
PROPERTIES QuotaHolds
CHECK_DEADLOCK FALSE
