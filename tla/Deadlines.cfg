SPECIFICATION Spec
CONSTANTS
  Plans <- SomePlans
  Prices <- TwoPrices
  Alert = 3
  Tolerance = 2
  RemindDays = 3
  MaxDays = 14
INVARIANTS NeverAsksTooMuch PunctualNeverLate CancelledOnlyIfAsked WholeDebtInTheEnd RemindedBeforeCancelled
CHECK_DEADLOCK FALSE
