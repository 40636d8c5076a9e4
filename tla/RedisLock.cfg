SPECIFICATION Spec
CONSTANTS
  Nil = Nil
  Handles = {h1, h2}
  TTL = 2
  RefreshTTLs = {0, 1, 2}
  MaxTTL = 2
  Attempts = 2
  MaxSent = 3
SYMMETRY Symmetry
INVARIANTS
  TypeOK
  HolderIsSafe
  KeyHasExpiry
PROPERTIES
  RefinesLease
CHECK_DEADLOCK FALSE
