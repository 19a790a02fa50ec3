CONSTANTS
  MaxFilenameBytes = 6
  MaxExtensionBytes = 3
  Apps = {"page"}
  Recipients = {k1, k2}
  k1 = k1
  k2 = k2
  Names <- MCNames
  FewNames <- MCFewNames
  Sizes = {0, 2}
  MaxFiles = 3

SPECIFICATION Spec
INVARIANT SentIsAccepted
CHECK_DEADLOCK FALSE
