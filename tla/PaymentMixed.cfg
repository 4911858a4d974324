CONSTANTS
  i1 = i1
  i2 = i2
  r1 = r1
  r2 = r2
  q1 = q1
  q2 = q2
  q3 = q3
  NoInvoice = NoInvoice
  NoRequest = NoRequest
  NoReg = NoReg
  NoItem = NoItem
  Tolerance = 1
  Invoices = {i1, i2}
  Requests = {q1, q2, q3}
  Serves <- ServesAll
  Regs = {r1, r2}
  Grosses = {100}
  Pages = {r1, r2, "membership"}
  Fee = 60
  Methods = {"paypal"}
  Currencies = {"eur"}
  MaxCheckouts = 0
  MaxCrashes = 1
SPECIFICATION Spec
INVARIANTS TypeOK PaidIsCredited PaymentsNumbered MembershipPaidOnce SplitIsBooked
PROPERTY ImplementsLedger
SYMMETRY Symmetry
CHECK_DEADLOCK FALSE
