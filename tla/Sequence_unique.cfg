SPECIFICATION SequenceSpec
CONSTANTS
  Procs = {p1, p2}
  Keys = {invBranch, jeCompany}
  CompanyWide = {jeCompany}
  NullsDiffer = TRUE
  MaxBlock = 1
  MaxIssued = 2
  NoProc = NoProc
INVARIANT UniquePerKey
CHECK_DEADLOCK FALSE
