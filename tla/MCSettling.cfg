CONSTANTS
  Invoices = {i1}
  Notes = {n1, n2}
  Customers = {c1}
  NoCustomer = NoCustomer
  NoInvoice = NoInvoice
  CustomerOf <- OneCustomer
  Foreign = {}
  Rate <- AtPar
  PaymentRates = {}
  Amounts = {1, 2}
  EarlyDiscount <- OfferOfOne
  LateFee = 1
  HoldsOverpayments = TRUE
  MaxCredit = 1
  Requests = {r1, r2}
  Routes = {"create", "pay", "apply", "credit", "void", "sweep"}
SPECIFICATION Spec
SYMMETRY Symmetry
CHECK_DEADLOCK FALSE
INVARIANTS
  TypeOK
  ReceivableIsWhatIsOwed
  VoidSettlesNothing
  SettledWithinTotal
  StatusTellsTheBalance
  OnlyStandingInvoicesAreInTheBooks
PROPERTIES
  VoidIsFinal
  ServedOneAtATime
  IssuedTotalsAreFixed
