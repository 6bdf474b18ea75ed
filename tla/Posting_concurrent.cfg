SPECIFICATION Spec
CONSTANTS
  Users = {u1, u2}
  Periods = {jan}
  Steps = {1, 5, 7}
  Posters = {p1, p2}
  Codes = {bgd, bsr}
  ReversalCode = rev
  NullsDistinct = TRUE
  MaxEntries = 3
SYMMETRY Perms
INVARIANTS TypeOK ChainGrounded ReversedOnce
PROPERTY PeriodSealed
CHECK_DEADLOCK FALSE
