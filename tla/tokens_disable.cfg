SPECIFICATION Spec
CONSTANTS
  Labels = {desktop}
  Secrets = {x1}
  Operators = {o1}
  Creators = {k1}
  DropPoints = {p1}
  Limits = {1}
  Default = Default
  DefaultMaxActive = 2
SYMMETRY Interchangeable
PROPERTIES DisabledCreatesNothing
CHECK_DEADLOCK FALSE
