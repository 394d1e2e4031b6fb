CONSTANTS
  Transactions = {t1}
  Requests = {r1, r2, r3}
  Amounts = {1, 3}
  Days = 2
  MaxEntries = 2
  NoTransaction = NoTransaction
  NoRequest = NoRequest
SPECIFICATION Spec
SYMMETRY Symmetry
CHECK_DEADLOCK FALSE
INVARIANTS
  TypeOK
  BooksSayWhatTheRowSays
PROPERTIES
  FiledFiguresStay
