SPECIFICATION Spec
CONSTANTS
  Labels = {desktop}
  Secrets = {x1, x2}
  Operators = {o1, o2}
  Creators = {k1}
  DropPoints = {p1}
  Limits = {1}
  Default = Default
  DefaultMaxActive = 2
SYMMETRY Interchangeable
PROPERTIES RollbackRemovesOwnRow
CHECK_DEADLOCK FALSE
