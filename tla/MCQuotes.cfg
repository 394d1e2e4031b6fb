CONSTANTS
  Quotes = {q1}
  Requests = {r1, r2, r3}
  Figures = {100, 101, 250}
  Plans <- SomePlans
  NoQuote = NoQuote
SPECIFICATION Spec
SYMMETRY Symmetry
CHECK_DEADLOCK FALSE
INVARIANTS
  TypeOK
  BilledOnceAsQuoted
PROPERTIES
  AnswerStands
  SavesReplaceNothingUnseen
