SPECIFICATION Spec
CONSTANTS
  Users = {u1}
  Periods = {jan}
  Steps = {1, 5, 7}
  Posters = {p1}
  Codes = {bgd, bsr}
  ReversalCode = rev
  NullsDistinct = TRUE
  MaxEntries = 3
PROPERTY PeriodLock
CHECK_DEADLOCK FALSE
