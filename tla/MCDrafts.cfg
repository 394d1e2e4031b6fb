CONSTANTS
  Invoices = {i1, i2, i3, i4}
  Notes = {}
  Customers = {c1}
  NoCustomer = NoCustomer
  NoInvoice = NoInvoice
  CustomerOf <- OneCustomer
  Foreign = {}
  Rate <- AtPar
  PaymentRates = {}
  Amounts = {1}
  EarlyDiscount <- NoOffer
  LateFee = 0
  HoldsOverpayments = FALSE
  MaxCredit = 2
  Requests = {r1, r2}
  Routes = {"draft", "copy", "edit", "issue", "merge", "file", "void"}
SPECIFICATION Spec
SYMMETRY InvoiceSymmetry
CHECK_DEADLOCK FALSE
INVARIANTS
  ReceivableIsWhatIsOwed
  DraftsMergedOnce
