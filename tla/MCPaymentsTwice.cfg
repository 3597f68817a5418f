SPECIFICATION PaymentSpec
CONSTANTS
  i1 = i1
  i2 = i2
  i3 = i3
  c1 = c1
  c2 = c2
  c3 = c3
  c4 = c4
  None = None
  Invoices = {i1, i2}
  Checkouts = {c1, c2}
  InvoiceOf <- PaidOnce
  PlanOf <- TwoPlus
  Duration <- Days
  MaxTime = 0
  MaxRepeats = 1
  MaxFaults = 0
INVARIANTS PaymentCreditedAtMostOnce
CHECK_DEADLOCK FALSE
