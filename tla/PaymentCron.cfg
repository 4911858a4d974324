CONSTANTS
  i1 = i1
  i2 = i2
  r1 = r1
  r2 = r2
  q1 = q1
  q2 = q2
  q3 = q3
  NoInvoice = NoInvoice
  NoRequest = NoRequest
  NoReg = NoReg
  NoItem = NoItem
  Tolerance = 1
  Invoices = {i1}
  Requests = {q1, q3}
  Serves <- ServesCron
  Regs = {r1}
  Grosses = {100}
  Pages = {r1}
  Fee = 0
  Methods = {"satispay"}
  Currencies = {"eur", "usd"}
  MaxCheckouts = 2
  MaxCrashes = 1
SPECIFICATION FairSpec
PROPERTY CaptureIsCredited
CHECK_DEADLOCK FALSE
