SPECIFICATION AccountsSpec
CONSTANTS
  AllRuns <- TwoRuns
  MaxDepth = 12
  Bounds <- Instances
INVARIANTS LedgerBalanced OverpaidReturned NoIdleBalance
PROPERTY NeverOverspent
CHECK_DEADLOCK FALSE
