\* Three callers, a key with a branch and a company-wide key, the index as
\* schema.prisma builds it.
SPECIFICATION SequenceSpec
CONSTANTS
  Procs = {p1, p2, p3}
  Keys = {invBranch, jeCompany}
  CompanyWide = {jeCompany}
  NullsDiffer = TRUE
  MaxBlock = 2
  MaxIssued = 3
  NoProc = NoProc
SYMMETRY Perms
INVARIANTS SequenceTypeOK StrictlyMonotonic NoGaps
PROPERTY ImplementsDispenser
CHECK_DEADLOCK FALSE
