SPECIFICATION GlSpec
CONSTANTS
  Users = {u1}
  Accounts = {a1, a2}
  Categories = {"current_assets", "revenue"}
  LastDate = 1
  YearLength = 1
  MaxJournal = 2
INVARIANT ReversalCancels
