SPECIFICATION PaymentSpec
CONSTANTS
  i1 = i1
  i2 = i2
  i3 = i3
  c1 = c1
  c2 = c2
  c3 = c3
  c4 = c4
  None = None
  Invoices = {i1, i2, i3}
  Checkouts = {c1, c2, c3, c4}
  InvoiceOf <- PaidInvoice
  PlanOf <- TwoPlusOnePro
  Duration <- Days
  MaxTime = 1
  MaxRepeats = 1
  MaxFaults = 1
INVARIANTS PaymentTypeOK AccessImpliesPaid CreditedOnceUnlessRaced AccessAddsUp
PROPERTIES AccessNeverTakenAway
CHECK_DEADLOCK FALSE
