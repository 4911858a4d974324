SPECIFICATION Spec
CONSTANTS
  reg1 = reg1
  reg2 = reg2
  None = None
  Regs <- TwoRegs
  Refunds = {"refund"}
  Requests = {1, 2}
  Serves <- Ways
  Values <- Ones
  Prices <- Costs
  MaxGiven = 1
  MaxGifts = 1
  MaxCrashes = 1
INVARIANTS TypeOK BalanceExact CreditedPerDelivery RefundHasItem DeadlockHoldsBalance
PROPERTY SpendsWhatIsThere
SYMMETRY Symmetry
CHECK_DEADLOCK FALSE
