CONSTANTS
  Attempts = {a1, a2}
  Desk = Desk
  Sweep = Sweep
  NoOne = NoOne
  Moments = 4
  Retention = 2
  MaxRows = 3
  Limit = 1
  Window = 2
  Lapse = 2
SPECIFICATION Spec
SYMMETRY Symmetry
CHECK_DEADLOCK FALSE
INVARIANTS
  TypeOK
  GuessesWithinTheLimit
  UntouchedLogVerifies
PROPERTIES
  PruningDecidesNothing
