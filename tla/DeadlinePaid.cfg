SPECIFICATION Spec
CONSTANTS
  Plans <- TwoTerms
  Prices <- OnePrice
  Alert = 3
  Tolerance = 2
  RemindDays = 3
  MaxDays = 14
INVARIANT CancelledAfterTolerance
CHECK_DEADLOCK FALSE
