CONSTANTS
  Invoices = {i1, i2, i3}
  Notes = {}
  Customers = {c1}
  NoCustomer = NoCustomer
  NoInvoice = NoInvoice
  CustomerOf <- OneCustomer
  Foreign = {i1}
  Rate <- ForeignAtOneAndAHalf
  PaymentRates = {1000000, 1400000}
  Amounts = {1, 3}
  EarlyDiscount <- NoOffer
  LateFee = 0
  HoldsOverpayments = TRUE
  MaxCredit = 3
  Requests = {r1, r2}
  Routes = {"create", "pay", "apply", "void", "file", "restore"}
SPECIFICATION Spec
SYMMETRY Symmetry
CHECK_DEADLOCK FALSE
INVARIANTS
  CreditNeverOverspent
  LiabilityIsTheSubledger
  ReceivableIsWhatIsOwed
